---------------------------- MODULE UserSessions ----------------------------
(***************************************************************************)
(* The sessions of one inbound and what ends them when a user is removed   *)
(* or kicked: the registry of core/usersession, the protocol copies that   *)
(* feed it, the graceful QUIC listener of core/quicgrace, and the in-place *)
(* user update of service/inbounds.go with its fallback, the rebuild.      *)
(*                                                                         *)
(* An inbound is of one of four kinds: "quic" (hysteria, hysteria2, tuic)  *)
(* has no handle on a session and records users; "anytls" tracks the       *)
(* transport first and learns the user from the first stream; "mux"        *)
(* (vless, vmess, trojan) tracks the multiplex carrier with its user;      *)
(* "plain" has no registry.  A session carries one stream at a time.       *)
(***************************************************************************)
EXTENDS Integers, FiniteSets

CONSTANTS
  Session,      \* client sessions
  Member,       \* the users of the inbound
  MaxBuilds     \* bound on how often the inbound is built

ASSUME SessionConstants == MaxBuilds \in Nat \ {0}

VARIABLES
  kind,      \* what the inbound is
  table,     \* per build of the inbound, the users it authenticates
  build,     \* the build that runs; 0 while the inbound is down
  closedTo,  \* the listener: "open", or "closed" once Close collected its set
  sess,      \* the sessions; bound is a ghost: a stream of it reached the router
  sources,   \* Registry.sources: session -> user, NoUser while unknown
  seen,      \* Registry.seen
  streams,   \* per session: "none", "opening", "entered" the router, "tracked"
  upd        \* the update or kick under way

sesVars == <<kind, table, build, closedTo, sess, sources, seen, streams, upd>>

NoUser == "nobody"
NoSession == [pc |-> "none", user |-> NoUser, build |-> 0, knows |-> FALSE, bound |-> FALSE]
NoUpdate == [pc |-> "idle", keep |-> {}, close |-> {}, who |-> NoUser, known |-> {}]

SessionInit ==
  /\ kind \in {"quic", "anytls", "mux", "plain"}
  /\ table = [b \in 1..MaxBuilds |-> Member] /\ build = 1 /\ closedTo = "open"
  /\ sess = [s \in Session |-> NoSession]
  /\ sources = <<>> /\ seen = {}
  /\ streams = [s \in Session |-> "none"]
  /\ upd = NoUpdate

Live(s) == sess[s].pc \in {"accepted", "listed", "auth", "carried"}

\* Sessions end, with or without the client being told: their transports are closed, what they carried is gone, and
\* the inbound's deferred Untrack takes them out of the registry.  A stream on its
\* way to the router still gets there.
End(S, knows) ==
  /\ sess' = [s \in Session |-> IF s \in S /\ Live(s)
                                THEN [sess[s] EXCEPT !.pc = "closed", !.knows = knows] ELSE sess[s]]
  /\ streams' = [s \in Session |-> IF s \in S /\ streams[s] # "opening" THEN "none" ELSE streams[s]]

\* Registry.Untrack.
UntrackAll(S, reg) == [s \in DOMAIN reg \ S |-> reg[s]]

-----------------------------------------------------------------------------
(* Clients. *)

\* A connection reaches the listener.  anytls tracks the transport before it reads
\* anything from it.
Accept(s) ==
  /\ sess[s].pc = "none" /\ build > 0
  /\ closedTo = "open" \/ kind = "quic"
  /\ sess' = [sess EXCEPT ![s] = [NoSession EXCEPT !.pc = IF kind = "quic" THEN "accepted" ELSE "listed",
                                                   !.build = build]]
  /\ sources' = IF kind = "anytls"
                THEN [t \in DOMAIN sources \cup {s} |-> IF t = s THEN NoUser ELSE sources[t]]
                ELSE sources
  /\ UNCHANGED <<kind, table, build, closedTo, seen, streams, upd>>

\* What listener.Accept makes of a connection: it is listed, or closed at once when
\* Close has already collected the ones it tells.
Listed(s) == IF closedTo = "open" /\ sess[s].build = build THEN "listed" ELSE "closed"

ListenerAccept(s) ==
  /\ sess[s].pc = "accepted"
  /\ sess' = [sess EXCEPT ![s].pc = Listed(s), ![s].knows = (Listed(s) = "closed")]
  /\ UNCHANGED <<kind, table, build, closedTo, sources, seen, streams, upd>>

\* The protocol's service authenticates the session against the table it has;
\* of a rebuilt inbound, that is still the old one.
Authenticate(s, m) ==
  /\ sess[s].pc = "listed" /\ m \in table[sess[s].build]
  /\ sess' = [sess EXCEPT ![s].pc = "auth", ![s].user = m]
  /\ UNCHANGED <<kind, table, build, closedTo, sources, seen, streams, upd>>

\* A multiplex carrier reaches the router: Registry.BindAndTrack, the user and the
\* transport at once.  The registry of an inbound that was rebuilt since is gone.
BindAndTrack(s) ==
  /\ kind = "mux" /\ sess[s].pc = "auth"
  /\ sess' = [sess EXCEPT ![s].pc = "carried"]
  /\ sources' = IF sess[s].build # build THEN sources
                ELSE [t \in DOMAIN sources \cup {s} |-> IF t = s THEN sess[s].user ELSE sources[t]]
  /\ UNCHANGED <<kind, table, build, closedTo, seen, streams, upd>>

\* The client opens a stream; "plain" authenticates each connection, so it has one.
OpenStream(s) ==
  /\ sess[s].pc = (IF kind = "mux" THEN "carried" ELSE "auth") /\ streams[s] = "none"
  /\ streams' = [streams EXCEPT ![s] = "opening"]
  /\ UNCHANGED <<kind, table, build, closedTo, sess, sources, seen, upd>>

\* Registry.Bind: the user of a tracked session, or one more user seen.
Bind(s) ==
  IF s \in DOMAIN sources
  THEN sources' = [sources EXCEPT ![s] = sess[s].user] /\ UNCHANGED seen
  ELSE seen' = seen \cup {sess[s].user} /\ UNCHANGED sources

\* hooks.enter of a stream on its way to the router, or the mux service's own way
\* there, which the hooks do not see.
Enter(s) ==
  /\ streams[s] = "opening"
  /\ streams' = [streams EXCEPT ![s] = IF Live(s) THEN "entered" ELSE "none"]
  /\ IF sess[s].build # build \/ kind \in {"plain", "mux"} THEN UNCHANGED <<sources, seen>> ELSE Bind(s)
  /\ sess' = [sess EXCEPT ![s].bound = TRUE]
  /\ UNCHANGED <<kind, table, build, closedTo, upd>>

\* ConnTracker.trackConnection, once a stream is routed.
TrackStream(s) ==
  /\ streams[s] = "entered"
  /\ streams' = [streams EXCEPT ![s] = "tracked"]
  /\ UNCHANGED <<kind, table, build, closedTo, sess, sources, seen, upd>>

\* The client leaves, or a stream of it ends.
ClientEnds(s) ==
  /\ Live(s)
  /\ \/ End({s}, TRUE) /\ sources' = UntrackAll({s}, sources)
     \/ /\ streams[s] = "tracked" /\ kind # "plain"
        /\ streams' = [streams EXCEPT ![s] = "none"]
        /\ UNCHANGED <<sess, sources>>
  /\ UNCHANGED <<kind, table, build, closedTo, seen, upd>>

-----------------------------------------------------------------------------
(* Removing a user. *)

\* Ghost: the sessions whose user was given to the registry before it is asked.
Known == IF kind = "quic"
         THEN {s \in Session : Live(s) /\ sess[s].build = build /\ sess[s].bound}
         ELSE {s \in DOMAIN sources : sources[s] # NoUser}

\* UpdateUsers of the protocol copy: the table is swapped.  An update that fails
\* leaves the old table, and goes on with the rebuild.
SwapTable(keep) ==
  /\ upd.pc = "idle" /\ build > 0 /\ keep # table[build]
  /\ \/ table' = [table EXCEPT ![build] = keep] /\ upd' = [NoUpdate EXCEPT !.pc = IF kind = "plain" THEN "streams" ELSE "cut", !.keep = keep]
     \/ UNCHANGED table /\ upd' = [NoUpdate EXCEPT !.pc = "remove", !.keep = keep]
  /\ UNCHANGED <<kind, build, closedTo, sess, sources, seen, streams>>

\* Mutant: users without a session to close do not count.
NoneUnclosable(keep) == {}

\* The users Registry.CloseUsers reports: seen, gone, and with no session to close.
Unclosable(keep) == {u \in seen : u \notin keep}

\* Registry.CloseUsers under its lock.
CloseUsers ==
  /\ upd.pc = "cut"
  /\ LET cut == {s \in DOMAIN sources : sources[s] # NoUser /\ sources[s] \notin upd.keep}
     IN  /\ sources' = UntrackAll(cut, sources)
         /\ upd' = [upd EXCEPT !.pc = "close", !.close = cut, !.known = Known,
                               !.who = IF kind = "quic" /\ Unclosable(upd.keep) # {} THEN "restart" ELSE NoUser]
  /\ seen' = seen \cap upd.keep
  /\ UNCHANGED <<kind, table, build, closedTo, sess, streams>>

\* ... and outside it, the transports.
CloseTransports ==
  /\ upd.pc = "close"
  /\ End(upd.close, FALSE)
  /\ upd' = [upd EXCEPT !.close = {}, !.pc = IF upd.who = "restart" THEN "remove" ELSE "streams"]
  /\ UNCHANGED <<kind, table, build, closedTo, sources, seen>>

\* CloseConnByInboundUsers: the routed streams of everyone who is not kept.  A
\* connection of a "plain" inbound is its own session.
CloseConnByInboundUsers ==
  /\ upd.pc = "streams"
  /\ LET gone == {s \in Session : streams[s] = "tracked" /\ sess[s].user \notin upd.keep}
     IN  IF kind = "plain" THEN End(gone, FALSE)
         ELSE streams' = [s \in Session |-> IF s \in gone THEN "none" ELSE streams[s]] /\ UNCHANGED sess
  /\ upd' = [upd EXCEPT !.pc = "idle"]
  /\ UNCHANGED <<kind, table, build, closedTo, sources, seen>>

\* RemoveInbound: Close of a QUIC inbound stops taking connections and collects
\* the ones it has; of any other it leaves the accepted connections alone.
RemoveInbound ==
  /\ upd.pc = "remove"
  /\ closedTo' = "closed"
  /\ upd' = [upd EXCEPT !.pc = "tell", !.close = IF kind = "quic" THEN {s \in Session : sess[s].pc \in {"listed", "auth"}} ELSE {}]
  /\ UNCHANGED <<kind, table, build, sess, sources, seen, streams>>

\* Each of them is sent a CONNECTION_CLOSE, then the transport goes, and with it
\* whatever was not accepted yet.
TellSessions ==
  /\ upd.pc = "tell"
  /\ End(upd.close, TRUE)
  /\ upd' = [upd EXCEPT !.pc = "drop", !.close = {}]
  /\ UNCHANGED <<kind, table, build, closedTo, sources, seen>>

\* CloseConnByInbound, then AddInbound with the new users, which may fail and then
\* leaves the inbound down.
Rebuild ==
  /\ upd.pc = "drop"
  /\ IF kind = "plain" THEN End({s \in Session : streams[s] = "tracked"}, FALSE)
     ELSE streams' = [s \in Session |-> IF streams[s] = "tracked" THEN "none" ELSE streams[s]] /\ UNCHANGED sess
  /\ \/ build < MaxBuilds /\ build' = build + 1 /\ closedTo' = "open" /\ table' = [table EXCEPT ![build + 1] = upd.keep]
     \/ build' = 0 /\ UNCHANGED <<closedTo, table>>
  /\ sources' = <<>> /\ seen' = {}
  /\ upd' = [upd EXCEPT !.pc = "idle"]
  /\ UNCHANGED kind

-----------------------------------------------------------------------------
(* Kicking a user, who stays enabled. *)

\* disconnect: the routed streams first, then KickUser on the registry.
Disconnect(m) ==
  /\ upd.pc = "idle" /\ build > 0
  /\ IF kind = "plain" THEN End({s \in Session : streams[s] = "tracked" /\ sess[s].user = m}, FALSE)
     ELSE streams' = [s \in Session |-> IF streams[s] = "tracked" /\ sess[s].user = m THEN "none" ELSE streams[s]] /\ UNCHANGED sess
  /\ upd' = [NoUpdate EXCEPT !.pc = "kick", !.who = m]
  /\ UNCHANGED <<kind, table, build, closedTo, sources, seen>>

\* The kicked user stays on the inbound, and in the set.
KickUserSessions ==
  /\ upd.pc = "kick"
  /\ LET cut == {s \in DOMAIN sources : sources[s] = upd.who}
     IN  sources' = UntrackAll(cut, sources) /\ End(cut, FALSE)
  /\ upd' = NoUpdate
  /\ UNCHANGED <<kind, table, build, closedTo, seen>>

-----------------------------------------------------------------------------
SessionNext ==
  \/ \E s \in Session :
       \/ Accept(s) \/ ListenerAccept(s) \/ BindAndTrack(s) \/ OpenStream(s) \/ Enter(s) \/ TrackStream(s) \/ ClientEnds(s)
       \/ \E m \in Member : Authenticate(s, m)
  \/ \E keep \in SUBSET Member : SwapTable(keep)
  \/ CloseUsers \/ CloseTransports \/ CloseConnByInboundUsers
  \/ RemoveInbound \/ TellSessions \/ Rebuild
  \/ \E m \in Member : Disconnect(m)
  \/ KickUserSessions

SessionSpec == SessionInit /\ [][SessionNext]_sesVars

-----------------------------------------------------------------------------
SessionTypeOK ==
  /\ kind \in {"quic", "anytls", "mux", "plain"}
  /\ table \in [1..MaxBuilds -> SUBSET Member] /\ build \in 0..MaxBuilds /\ closedTo \in {"open", "closed"}
  /\ \A s \in Session : /\ sess[s].pc \in {"none", "accepted", "listed", "auth", "carried", "closed"}
                        /\ sess[s].user \in Member \cup {NoUser}
                        /\ streams[s] \in {"none", "opening", "entered", "tracked"}
  /\ DOMAIN sources \subseteq Session /\ seen \subseteq Member

\* A session whose user was on record when the update cut sessions does not outlive
\* the update, unless the user was kept: for a QUIC inbound because it was rebuilt,
\* for the others because its transport was closed.
RemovedIsCut ==
  upd.pc = "idle" => \A s \in upd.known : Live(s) => sess[s].user \in upd.keep

\* A rebuilt QUIC inbound leaves no session of an earlier build behind, and
\* told each of them that it was closed: nobody waits for an idle timeout.
EveryoneTold ==
  kind = "quic" =>
    \A s \in Session :
      /\ sess[s].pc \in {"listed", "auth"} /\ upd.pc # "tell" => sess[s].build = build
      /\ sess[s].pc = "closed" /\ sess[s].build < build => sess[s].knows

\* A registry holds live sessions of its own inbound only: no closer of a session
\* that has ended is left in it, so that it is bounded by the live sessions.
RegistryIsLive ==
  \A s \in DOMAIN sources : s \notin upd.close => Live(s) /\ sess[s].build = build

\* A removal of users, in one: nobody removed stays connected, everyone the registry
\* can name is told, and it names only sessions that are there.
SessionSafety == SessionTypeOK /\ RemovedIsCut /\ EveryoneTold /\ RegistryIsLive
=============================================================================
