----------------------------- MODULE LimitProofs -----------------------------
(***************************************************************************)
(* Proofs about who may stay connected: the sessions of a removed user do  *)
(* not outlive the update (UserSessions), and the slots of a client with a *)
(* limit of addresses are given by seniority and stay given (IpLimit).     *)
(***************************************************************************)
EXTENDS IpLimit, UserSessions, FiniteSetTheorems, TLAPS

-----------------------------------------------------------------------------
(* The sessions of one inbound.                                             *)

Kinds == {"quic", "anytls", "mux", "plain"}

SessionRecord ==
  [pc : {"none", "accepted", "listed", "auth", "carried", "closed"}, user : Member \cup {NoUser},
   build : 0 .. MaxBuilds, knows : BOOLEAN, bound : BOOLEAN]

UpdateRecord ==
  [pc : {"idle", "cut", "close", "streams", "remove", "tell", "drop", "kick"}, keep : SUBSET Member,
   close : SUBSET Session, who : Member \cup {NoUser, "restart"}, known : SUBSET Session]

SesTypes ==
  /\ kind \in Kinds /\ table \in [1 .. MaxBuilds -> SUBSET Member] /\ build \in 0 .. MaxBuilds
  /\ closedTo \in {"open", "closed"}
  /\ sess \in [Session -> SessionRecord]
  /\ streams \in [Session -> {"none", "opening", "entered", "tracked"}]
  /\ DOMAIN sources \subseteq Session /\ seen \subseteq Member
  /\ upd \in UpdateRecord

Authed(s) == sess[s].pc \in {"auth", "carried", "closed"}

\* A session belongs to the build it reached, has a user from its authentication on, and only
\* then a stream; a QUIC session that ended was told.
SessInv ==
  \A s \in Session :
    /\ sess[s].pc # "none" => 0 < sess[s].build
    /\ sess[s].pc \in {"auth", "carried"} => sess[s].user \in Member
    /\ streams[s] # "none" => Authed(s) /\ sess[s].user \in Member
    /\ sess[s].bound => Authed(s) /\ sess[s].user \in Member
    /\ sess[s].pc = "carried" => kind = "mux"
    /\ sess[s].pc = "accepted" => kind = "quic"
    /\ kind = "quic" /\ sess[s].pc = "closed" => sess[s].knows

\* What the registry holds: transports of anytls and carriers of mux, live, of this build, under
\* the name of their user if it has one, and none that is being closed.
SourcesInv ==
  /\ kind \notin {"anytls", "mux"} => DOMAIN sources = {}
  /\ \A s \in DOMAIN sources :
       /\ Live(s) /\ sess[s].build = build
       /\ sources[s] \in {NoUser, sess[s].user}
       /\ sources[s] # NoUser => Authed(s)
       /\ kind = "mux" => sess[s].pc = "carried"
  /\ \A s \in upd.close : s \notin DOMAIN sources /\ sess[s].pc \in {"listed", "auth", "carried", "closed"}
                          /\ (kind = "mux" => sess[s].pc \in {"carried", "closed"})

\* A QUIC inbound has seen every user a live session of it was bound to, until an update that
\* found one to cut is on its way to the rebuild.
Rebuilding == upd.pc \in {"remove", "tell", "drop"} \/ (upd.pc = "close" /\ upd.who = "restart")

SeenUsers ==
  kind = "quic" /\ ~Rebuilding =>
    \A s \in Session : Live(s) /\ sess[s].build = build /\ sess[s].bound => sess[s].user \in seen

\* The listener of a QUIC inbound that is being rebuilt: closed, and nobody listed is left out.
ListenerInv ==
  kind = "quic" =>
    /\ upd.pc \in {"tell", "drop"} => closedTo = "closed"
    /\ upd.pc = "tell" => \A s \in Session : sess[s].pc \in {"listed", "auth"} => s \in upd.close
    /\ upd.pc = "drop" => \A s \in Session : sess[s].pc \notin {"listed", "auth"}
    /\ \A s \in Session : sess[s].pc \in {"listed", "auth"} => sess[s].build = build

\* The users on record when the update cut sessions: whoever of them is still connected is kept,
\* or about to be closed.
KnownInv ==
  /\ \A s \in upd.known : Authed(s)
  /\ upd.pc \in {"idle", "streams", "drop", "kick"} => \A s \in upd.known : Live(s) => sess[s].user \in upd.keep
  /\ upd.pc \in {"close", "tell"} => \A s \in upd.known : Live(s) => sess[s].user \in upd.keep \/ s \in upd.close
                                                                     \/ (kind = "quic" /\ upd.pc = "close" /\ upd.who = "restart")
  /\ kind # "quic" => (upd.pc \in {"remove", "tell", "drop"} => upd.known = {}) /\ ~(upd.pc = "close" /\ upd.who = "restart")
  /\ upd.close # {} => upd.pc = IF kind = "quic" THEN "tell" ELSE "close"

SesInv == SesTypes /\ SessInv /\ SourcesInv /\ SeenUsers /\ ListenerInv /\ KnownInv

-----------------------------------------------------------------------------
(* What the steps do to the fields of a session.                            *)

\* Ending sessions closes the live ones of a set and nothing else of them changes.
LEMMA EndEffect ==
  ASSUME SesTypes, NEW S, NEW told \in BOOLEAN, End(S, told)
  PROVE  /\ sess' \in [Session -> SessionRecord]
         /\ streams' \in [Session -> {"none", "opening", "entered", "tracked"}]
         /\ \A s \in Session : /\ sess'[s].pc = IF s \in S /\ Live(s) THEN "closed" ELSE sess[s].pc
                               /\ sess'[s].knows = IF s \in S /\ Live(s) THEN told ELSE sess[s].knows
                               /\ sess'[s].user = sess[s].user /\ sess'[s].build = sess[s].build
                               /\ sess'[s].bound = sess[s].bound
                               /\ streams'[s] \in {"none", streams[s]}
<1>1. /\ sess \in [Session -> SessionRecord] /\ streams \in [Session -> {"none", "opening", "entered", "tracked"}]
  BY DEF SesTypes
<1>2. /\ sess' = [s \in Session |-> IF s \in S /\ Live(s)
                                    THEN [sess[s] EXCEPT !.pc = "closed", !.knows = told] ELSE sess[s]]
      /\ streams' = [s \in Session |-> IF s \in S /\ streams[s] # "opening" THEN "none" ELSE streams[s]]
  BY DEF End
<1>3. ASSUME NEW r \in SessionRecord
      PROVE  /\ [r EXCEPT !.pc = "closed", !.knows = told] \in SessionRecord
             /\ [r EXCEPT !.pc = "closed", !.knows = told].pc = "closed"
             /\ [r EXCEPT !.pc = "closed", !.knows = told].knows = told
             /\ [r EXCEPT !.pc = "closed", !.knows = told].user = r.user
             /\ [r EXCEPT !.pc = "closed", !.knows = told].build = r.build
             /\ [r EXCEPT !.pc = "closed", !.knows = told].bound = r.bound
  BY DEF SessionRecord
<1>4. sess' \in [Session -> SessionRecord]
  BY <1>1, <1>2, <1>3
<1>5. ASSUME NEW s \in Session
      PROVE  /\ sess'[s].pc = IF s \in S /\ Live(s) THEN "closed" ELSE sess[s].pc
             /\ sess'[s].knows = IF s \in S /\ Live(s) THEN told ELSE sess[s].knows
             /\ sess'[s].user = sess[s].user /\ sess'[s].build = sess[s].build
             /\ sess'[s].bound = sess[s].bound
  <2>1. CASE s \in S /\ Live(s)
    <3>1. sess'[s] = [sess[s] EXCEPT !.pc = "closed", !.knows = told] /\ sess[s] \in SessionRecord
      BY <1>1, <1>2, <2>1
    <3> QED BY <1>3, <2>1, <3>1
  <2>2. CASE ~(s \in S /\ Live(s))
    <3>1. sess'[s] = sess[s]
      BY <1>2, <2>2
    <3> QED BY <2>2, <3>1
  <2> QED BY <2>1, <2>2
<1>6. streams' \in [Session -> {"none", "opening", "entered", "tracked"}]
      /\ \A s \in Session : streams'[s] \in {"none", streams[s]}
  BY <1>1, <1>2
<1> QED
  BY <1>4, <1>5, <1>6

\* The invariant survives an end of sessions that are no longer in the registry, or leave it
\* with the step, if a QUIC inbound tells them; and so it does when only streams end.
LEMMA EndKeeps ==
  ASSUME SesInv, NEW S, NEW told \in BOOLEAN,
         End(S, told) \/ (UNCHANGED sess /\ S = {} /\ streams' \in [Session -> {"none", "opening", "entered", "tracked"}]
                          /\ \A s \in Session : streams'[s] \in {"none", streams[s]}),
         kind = "quic" => told \/ S = {},
         UNCHANGED <<kind, build, closedTo, seen>>,
         DOMAIN sources' \subseteq DOMAIN sources \ S, \A s \in DOMAIN sources' : sources'[s] = sources[s],
         upd'.close \in {{}, upd.close}, ~Rebuilding' => ~Rebuilding
  PROVE  /\ SessInv' /\ SourcesInv' /\ SeenUsers'
         /\ sess' \in [Session -> SessionRecord] /\ streams' \in [Session -> {"none", "opening", "entered", "tracked"}]
         /\ \A s \in Session : /\ sess'[s].pc = IF s \in S /\ Live(s) THEN "closed" ELSE sess[s].pc
                               /\ sess'[s].user = sess[s].user /\ sess'[s].build = sess[s].build
<1>0. SesTypes /\ SessInv /\ SourcesInv /\ SeenUsers /\ KnownInv
  BY DEF SesInv
<1>1. /\ sess' \in [Session -> SessionRecord] /\ streams' \in [Session -> {"none", "opening", "entered", "tracked"}]
      /\ \A s \in Session : /\ sess'[s].pc = IF s \in S /\ Live(s) THEN "closed" ELSE sess[s].pc
                            /\ sess'[s].knows = IF s \in S /\ Live(s) THEN told ELSE sess[s].knows
                            /\ sess'[s].user = sess[s].user /\ sess'[s].build = sess[s].build
                            /\ sess'[s].bound = sess[s].bound
                            /\ streams'[s] \in {"none", streams[s]}
  BY <1>0, EndEffect DEF SesTypes
<1>2. SessInv'
  <2> SUFFICES ASSUME NEW s \in Session
               PROVE  /\ sess'[s].pc # "none" => 0 < sess'[s].build
                      /\ sess'[s].pc \in {"auth", "carried"} => sess'[s].user \in Member
                      /\ streams'[s] # "none" => sess'[s].pc \in {"auth", "carried", "closed"} /\ sess'[s].user \in Member
                      /\ sess'[s].bound => sess'[s].pc \in {"auth", "carried", "closed"} /\ sess'[s].user \in Member
                      /\ sess'[s].pc = "carried" => kind = "mux"
                      /\ sess'[s].pc = "accepted" => kind = "quic"
                      /\ kind = "quic" /\ sess'[s].pc = "closed" => sess'[s].knows
    BY DEF SessInv, Authed
  <2> QED BY <1>0, <1>1 DEF SessInv, Authed, Live
<1>3. DOMAIN sources \subseteq Session /\ upd.close \subseteq Session
  BY <1>0 DEF SesTypes, UpdateRecord
<1>4. SourcesInv'
  <2>1. kind' \notin {"anytls", "mux"} => DOMAIN sources' = {}
    BY <1>0 DEF SourcesInv
  <2>2. ASSUME NEW s \in DOMAIN sources'
        PROVE  /\ sess'[s].pc \in {"accepted", "listed", "auth", "carried"} /\ sess'[s].build = build
               /\ sources'[s] \in {NoUser, sess'[s].user}
               /\ sources'[s] # NoUser => sess'[s].pc \in {"auth", "carried", "closed"}
               /\ kind = "mux" => sess'[s].pc = "carried"
    BY <1>0, <1>1, <1>3 DEF SourcesInv, Live, Authed
  <2>3. ASSUME NEW s \in upd.close
        PROVE  /\ s \notin DOMAIN sources' /\ sess'[s].pc \in {"listed", "auth", "carried", "closed"}
               /\ (kind = "mux" => sess'[s].pc \in {"carried", "closed"})
    BY <1>0, <1>1, <1>3 DEF SourcesInv, Live
  <2> QED BY <2>1, <2>2, <2>3 DEF SourcesInv, Live, Authed
<1>5. SeenUsers'
  BY <1>0, <1>1 DEF SeenUsers, Live
<1> QED
  BY <1>1, <1>2, <1>4, <1>5

-----------------------------------------------------------------------------
(* Clients.                                                                 *)

\* A session moves on: what the invariant asks of the new record, of the registry
\* and of the stream, when nothing else changes.
LEMMA SessionMoves ==
  ASSUME SesInv, NEW s \in Session, NEW q \in SessionRecord, sess' = [sess EXCEPT ![s] = q],
         UNCHANGED <<kind, table, build, closedTo, upd>>,
         streams' \in [Session -> {"none", "opening", "entered", "tracked"}],
         \A t \in Session \ {s} : streams'[t] = streams[t],
         \* the record
         q.pc # "none", 0 < q.build,
         q.pc \in {"auth", "carried"} => q.user \in Member,
         streams'[s] # "none" \/ q.bound => q.pc \in {"auth", "carried", "closed"} /\ q.user \in Member,
         q.pc = "carried" => kind = "mux", q.pc = "accepted" => kind = "quic",
         kind = "quic" /\ q.pc = "closed" => q.knows,
         \* the registry
         DOMAIN sources' \subseteq DOMAIN sources \cup {s}, \A t \in DOMAIN sources' \ {s} : sources'[t] = sources[t],
         s \in DOMAIN sources' => /\ kind \in {"anytls", "mux"} /\ q.build = build
                                  /\ q.pc \in {"accepted", "listed", "auth", "carried"}
                                  /\ sources'[s] \in {NoUser, q.user}
                                  /\ sources'[s] # NoUser => q.pc \in {"auth", "carried"}
                                  /\ kind = "mux" => q.pc = "carried"
                                  /\ s \notin upd.close,
         seen \subseteq seen', seen' \subseteq Member,
         kind = "quic" /\ q.pc = "auth" /\ q.build = build /\ q.bound => q.user \in seen' \/ Rebuilding,
         \* what an update knows of it
         s \in upd.close => q.pc \in {"listed", "auth", "carried", "closed"} /\ (kind = "mux" => q.pc \in {"carried", "closed"}),
         kind = "quic" /\ q.pc \in {"listed", "auth"} =>
           q.build = build /\ (sess[s].pc \in {"listed", "auth"} \/ closedTo = "open"),
         s \in upd.known => q.pc \in {"auth", "carried", "closed"} /\ q.user = sess[s].user,
         q.pc \in {"accepted", "listed", "auth", "carried"} /\ s \in upd.known => Live(s)
  PROVE  SesInv'
<1>0. SesTypes /\ SessInv /\ SourcesInv /\ SeenUsers /\ ListenerInv /\ KnownInv
  BY DEF SesInv
<1>1. sess' \in [Session -> SessionRecord] /\ sess'[s] = q /\ \A t \in Session \ {s} : sess'[t] = sess[t]
  BY <1>0 DEF SesTypes
<1>2. DOMAIN sources \subseteq Session /\ upd.close \subseteq Session /\ upd.known \subseteq Session
  BY <1>0 DEF SesTypes, UpdateRecord
<1>3. SesTypes'
  BY <1>0, <1>1, <1>2 DEF SesTypes
<1>4. SessInv'
  <2>1. ASSUME NEW t \in Session
        PROVE  /\ sess'[t].pc # "none" => 0 < sess'[t].build
               /\ sess'[t].pc \in {"auth", "carried"} => sess'[t].user \in Member
               /\ streams'[t] # "none" => sess'[t].pc \in {"auth", "carried", "closed"} /\ sess'[t].user \in Member
               /\ sess'[t].bound => sess'[t].pc \in {"auth", "carried", "closed"} /\ sess'[t].user \in Member
               /\ sess'[t].pc = "carried" => kind = "mux"
               /\ sess'[t].pc = "accepted" => kind = "quic"
               /\ kind = "quic" /\ sess'[t].pc = "closed" => sess'[t].knows
    <3>1. CASE t = s
      BY <1>1, <3>1
    <3>2. CASE t # s
      <4>1. sess'[t] = sess[t] /\ streams'[t] = streams[t]
        BY <1>1, <3>2
      <4> QED BY <1>0, <4>1 DEF SessInv, Authed
    <3> QED BY <3>1, <3>2
  <2> QED BY <2>1 DEF SessInv, Authed
<1>5. SourcesInv'
  <2>1. kind \notin {"anytls", "mux"} => DOMAIN sources' = {}
    BY <1>0 DEF SourcesInv
  <2>2. ASSUME NEW t \in DOMAIN sources'
        PROVE  /\ sess'[t].pc \in {"accepted", "listed", "auth", "carried"} /\ sess'[t].build = build
               /\ sources'[t] \in {NoUser, sess'[t].user}
               /\ sources'[t] # NoUser => sess'[t].pc \in {"auth", "carried", "closed"}
               /\ kind = "mux" => sess'[t].pc = "carried"
    <3>1. CASE t = s
      BY <1>1, <2>2, <3>1
    <3>2. CASE t # s
      <4>1. t \in DOMAIN sources /\ sources'[t] = sources[t] /\ sess'[t] = sess[t]
        BY <1>1, <1>2, <2>2, <3>2
      <4> QED BY <1>0, <4>1 DEF SourcesInv, Live, Authed
    <3> QED BY <3>1, <3>2
  <2>3. ASSUME NEW t \in upd.close
        PROVE  /\ t \notin DOMAIN sources' /\ sess'[t].pc \in {"listed", "auth", "carried", "closed"}
               /\ (kind = "mux" => sess'[t].pc \in {"carried", "closed"})
    <3>1. CASE t = s
      BY <1>1, <2>3, <3>1
    <3>2. CASE t # s
      <4>1. t \notin DOMAIN sources /\ sess'[t] = sess[t]
        BY <1>0, <1>1, <1>2, <2>3, <3>2 DEF SourcesInv
      <4> QED BY <1>0, <2>3, <3>2, <4>1 DEF SourcesInv
    <3> QED BY <3>1, <3>2
  <2> QED BY <2>1, <2>2, <2>3 DEF SourcesInv, Live, Authed
<1>6. SeenUsers'
  <2> SUFFICES ASSUME kind = "quic", ~Rebuilding, NEW t \in Session,
                      sess'[t].pc \in {"accepted", "listed", "auth", "carried"}, sess'[t].build = build, sess'[t].bound
               PROVE  sess'[t].user \in seen'
    BY DEF SeenUsers, Live, Rebuilding
  <2>1. CASE t = s
    BY <1>1, <2>1
  <2>2. CASE t # s
    <3>1. sess'[t] = sess[t]
      BY <1>1, <2>2
    <3> QED BY <1>0, <3>1 DEF SeenUsers, Live
  <2> QED BY <2>1, <2>2
<1>7. ListenerInv'
  <2> SUFFICES ASSUME kind = "quic"
               PROVE  /\ upd.pc \in {"tell", "drop"} => closedTo = "closed"
                      /\ upd.pc = "tell" => \A t \in Session : sess'[t].pc \in {"listed", "auth"} => t \in upd.close
                      /\ upd.pc = "drop" => \A t \in Session : sess'[t].pc \notin {"listed", "auth"}
                      /\ \A t \in Session : sess'[t].pc \in {"listed", "auth"} => sess'[t].build = build
    BY DEF ListenerInv
  <2>1. \A t \in Session : sess'[t].pc \in {"listed", "auth"} =>
             sess'[t].build = build /\ (sess[t].pc \in {"listed", "auth"} \/ closedTo = "open")
    BY <1>0, <1>1 DEF ListenerInv
  <2> QED BY <1>0, <2>1 DEF ListenerInv
<1>8. KnownInv'
  <2>1. \A t \in upd.known : sess'[t].pc \in {"auth", "carried", "closed"}
    BY <1>0, <1>1, <1>2 DEF KnownInv, Authed
  <2>2. \A t \in upd.known : /\ sess'[t].user = sess[t].user
                             /\ sess'[t].pc \in {"accepted", "listed", "auth", "carried"} => Live(t)
    BY <1>1, <1>2 DEF Live
  <2> QED BY <1>0, <2>1, <2>2 DEF KnownInv, Authed, Live
<1> QED
  BY <1>3, <1>4, <1>5, <1>6, <1>7, <1>8 DEF SesInv

\* The steps of a client before its streams: it arrives, is listed, authenticates, is tracked.
LEMMA ArriveKeeps ==
  ASSUME SesInv, NEW s \in Session,
         Accept(s) \/ ListenerAccept(s) \/ BindAndTrack(s) \/ \E m \in Member : Authenticate(s, m)
  PROVE  SesInv'
<1>0. SesTypes /\ SessInv /\ SourcesInv /\ SeenUsers /\ ListenerInv /\ KnownInv
  BY DEF SesInv
<1>a. /\ sess \in [Session -> SessionRecord] /\ sess[s] \in SessionRecord /\ build \in 0 .. MaxBuilds /\ upd.close \subseteq Session
      /\ streams \in [Session -> {"none", "opening", "entered", "tracked"}] /\ seen \subseteq Member
      /\ DOMAIN sources \subseteq Session /\ MaxBuilds \in Nat
  BY <1>0, SessionConstants DEF SesTypes, UpdateRecord
<1>b. ASSUME streams[s] # "none" \/ sess[s].bound
      PROVE  sess[s].pc \in {"auth", "carried", "closed"}
  BY <1>0, <1>b DEF SessInv, Authed
<1>1. CASE Accept(s)
  <2> DEFINE q == [NoSession EXCEPT !.pc = IF kind = "quic" THEN "accepted" ELSE "listed", !.build = build]
  <2>1. /\ sess[s].pc = "none" /\ build > 0 /\ sess' = [sess EXCEPT ![s] = q]
        /\ UNCHANGED <<kind, table, build, closedTo, seen, streams, upd>>
        /\ sources' = IF kind = "anytls"
                      THEN [t \in DOMAIN sources \cup {s} |-> IF t = s THEN NoUser ELSE sources[t]] ELSE sources
    BY <1>1 DEF Accept
  <2>2. /\ q \in SessionRecord /\ q.pc = (IF kind = "quic" THEN "accepted" ELSE "listed") /\ q.build = build
        /\ ~q.bound /\ q.user = NoUser
    BY <1>a DEF SessionRecord, NoSession
  <2>3. s \notin upd.close /\ s \notin upd.known /\ s \notin DOMAIN sources /\ streams[s] = "none"
    BY <1>0, <1>b, <2>1 DEF SourcesInv, KnownInv, Authed, Live
  <2> HIDE DEF q
  <2>4. /\ DOMAIN sources' \subseteq DOMAIN sources \cup {s} /\ \A t \in DOMAIN sources' \ {s} : sources'[t] = sources[t]
        /\ s \in DOMAIN sources' => kind = "anytls" /\ sources'[s] = NoUser
    BY <2>1, <2>3
  <2>5. 0 < q.build
    BY <1>a, <2>1, <2>2
  <2> QED BY <1>a, <2>1, <2>2, <2>3, <2>4, <2>5, SessionMoves
<1>2. CASE ListenerAccept(s)
  <2> DEFINE q == [sess[s] EXCEPT !.pc = Listed(s), !.knows = (Listed(s) = "closed")]
  <2>1. /\ sess[s].pc = "accepted" /\ UNCHANGED <<kind, table, build, closedTo, sources, seen, streams, upd>>
        /\ sess' = [sess EXCEPT ![s] = q]
    BY <1>2, <1>a DEF ListenerAccept
  <2>2. /\ Listed(s) \in {"listed", "closed"}
        /\ Listed(s) = "listed" => closedTo = "open" /\ sess[s].build = build
    BY DEF Listed
  <2>3. /\ q \in SessionRecord /\ q.pc = Listed(s) /\ q.build = sess[s].build /\ q.bound = sess[s].bound
        /\ q.knows = (Listed(s) = "closed") /\ q.user = sess[s].user
    BY <1>a, <2>2 DEF SessionRecord
  <2>4. kind = "quic" /\ DOMAIN sources = {} /\ 0 < sess[s].build /\ streams[s] = "none" /\ ~sess[s].bound
    BY <1>0, <1>b, <2>1 DEF SessInv, SourcesInv
  <2>5. s \notin upd.close /\ s \notin upd.known
    BY <1>0, <2>1 DEF SourcesInv, KnownInv, Authed
  <2> HIDE DEF q
  <2> QED BY <1>a, <2>1, <2>2, <2>3, <2>4, <2>5, SessionMoves
<1>3. CASE BindAndTrack(s)
  <2> DEFINE q == [sess[s] EXCEPT !.pc = "carried"]
  <2>1. /\ kind = "mux" /\ sess[s].pc = "auth" /\ UNCHANGED <<kind, table, build, closedTo, seen, streams, upd>>
        /\ sess' = [sess EXCEPT ![s] = q]
        /\ sources' = IF sess[s].build # build THEN sources
                      ELSE [t \in DOMAIN sources \cup {s} |-> IF t = s THEN sess[s].user ELSE sources[t]]
    BY <1>3, <1>a DEF BindAndTrack
  <2>2. /\ q \in SessionRecord /\ q.pc = "carried" /\ q.build = sess[s].build /\ q.bound = sess[s].bound
        /\ q.knows = sess[s].knows /\ q.user = sess[s].user
    BY <1>a DEF SessionRecord
  <2>3. 0 < sess[s].build /\ sess[s].user \in Member
    BY <1>0, <2>1 DEF SessInv
  <2>4. s \notin upd.close /\ s \notin DOMAIN sources
    BY <1>0, <2>1 DEF SourcesInv
  <2> HIDE DEF q
  <2>5. /\ DOMAIN sources' \subseteq DOMAIN sources \cup {s} /\ \A t \in DOMAIN sources' \ {s} : sources'[t] = sources[t]
        /\ s \in DOMAIN sources' => sess[s].build = build /\ sources'[s] = sess[s].user
    BY <2>1, <2>4
  <2>6. Live(s)
    BY <2>1 DEF Live
  <2>7. s \in DOMAIN sources' => /\ kind \in {"anytls", "mux"} /\ q.build = build
                                 /\ q.pc \in {"accepted", "listed", "auth", "carried"}
                                 /\ sources'[s] \in {NoUser, q.user}
                                 /\ sources'[s] # NoUser => q.pc \in {"auth", "carried"}
                                 /\ kind = "mux" => q.pc = "carried"
                                 /\ s \notin upd.close
    BY <2>1, <2>2, <2>4, <2>5
  <2>8. /\ q.pc # "none" /\ 0 < q.build /\ q.user \in Member /\ q.pc = "carried" /\ kind = "mux"
        /\ q.user = sess[s].user
    BY <2>1, <2>2, <2>3
  <2>9. seen \subseteq seen' /\ seen' \subseteq Member
    BY <1>a, <2>1
  <2>10. streams' \in [Session -> {"none", "opening", "entered", "tracked"}] /\ \A t \in Session \ {s} : streams'[t] = streams[t]
    BY <1>a, <2>1
  <2>11. UNCHANGED <<kind, table, build, closedTo, upd>> /\ sess' = [sess EXCEPT ![s] = q] /\ q \in SessionRecord
    BY <2>1, <2>2
  <2> QED BY <2>4, <2>5, <2>6, <2>7, <2>8, <2>9, <2>10, <2>11, SessionMoves
<1>4. ASSUME NEW m \in Member, Authenticate(s, m)
      PROVE  SesInv'
  <2> DEFINE q == [sess[s] EXCEPT !.pc = "auth", !.user = m]
  <2>1. /\ sess[s].pc = "listed" /\ UNCHANGED <<kind, table, build, closedTo, sources, seen, streams, upd>>
        /\ sess' = [sess EXCEPT ![s] = q]
    BY <1>4, <1>a DEF Authenticate
  <2>2. /\ q \in SessionRecord /\ q.pc = "auth" /\ q.build = sess[s].build /\ q.bound = sess[s].bound
        /\ q.knows = sess[s].knows /\ q.user = m
    BY <1>a DEF SessionRecord
  <2>3. 0 < sess[s].build /\ streams[s] = "none" /\ ~sess[s].bound
    BY <1>0, <1>b, <2>1 DEF SessInv
  <2>4. s \in DOMAIN sources => sources[s] = NoUser /\ kind = "anytls" /\ sess[s].build = build /\ s \notin upd.close
    BY <1>0, <2>1 DEF SourcesInv, Authed
  <2>5. s \notin upd.known /\ (s \in upd.close => kind # "mux") /\ (kind = "quic" => sess[s].build = build)
    BY <1>0, <2>1 DEF SourcesInv, KnownInv, ListenerInv, Authed
  <2> HIDE DEF q
  <2> QED BY <1>a, <2>1, <2>2, <2>3, <2>4, <2>5, SessionMoves
<1> QED
  BY <1>1, <1>2, <1>3, <1>4

\* The steps of a stream, and the end of a client.
LEMMA StreamKeeps ==
  ASSUME SesInv, NEW s \in Session, OpenStream(s) \/ Enter(s) \/ TrackStream(s) \/ ClientEnds(s)
  PROVE  SesInv'
<1>0. SesTypes /\ SessInv /\ SourcesInv /\ SeenUsers /\ ListenerInv /\ KnownInv
  BY DEF SesInv
<1>a. /\ sess \in [Session -> SessionRecord] /\ sess[s] \in SessionRecord /\ build \in 0 .. MaxBuilds /\ upd.close \subseteq Session
      /\ streams \in [Session -> {"none", "opening", "entered", "tracked"}] /\ seen \subseteq Member
      /\ DOMAIN sources \subseteq Session
  BY <1>0 DEF SesTypes, UpdateRecord
<1>1. CASE OpenStream(s) \/ TrackStream(s)
  <2>1. /\ sess[s].pc \in {"auth", "carried"} \/ streams[s] # "none"
        /\ UNCHANGED <<kind, table, build, closedTo, sess, sources, seen, upd>>
        /\ streams' \in [Session -> {"none", "opening", "entered", "tracked"}]
        /\ \A t \in Session \ {s} : streams'[t] = streams[t]
    BY <1>1, <1>a DEF OpenStream, TrackStream
  <2>2. sess[s].pc \in {"auth", "carried", "closed"} /\ sess[s].user \in Member
    BY <1>0, <2>1 DEF SessInv, Authed
  <2>3. SessInv'
    <3>1. ASSUME NEW t \in Session, streams'[t] # "none"
          PROVE  sess[t].pc \in {"auth", "carried", "closed"} /\ sess[t].user \in Member
      BY <1>0, <2>1, <2>2, <3>1 DEF SessInv, Authed
    <3> QED BY <1>0, <2>1, <3>1 DEF SessInv, Authed
  <2>4. SesTypes'
    BY <1>0, <2>1 DEF SesTypes
  <2>5. SourcesInv' /\ SeenUsers' /\ ListenerInv' /\ KnownInv'
    BY <1>0, <2>1 DEF SourcesInv, SeenUsers, ListenerInv, KnownInv, Live, Authed, Rebuilding
  <2> QED BY <2>3, <2>4, <2>5 DEF SesInv
<1>2. CASE Enter(s)
  <2> DEFINE q == [sess[s] EXCEPT !.bound = TRUE]
  <2>1. /\ streams[s] = "opening" /\ UNCHANGED <<kind, table, build, closedTo, upd>> /\ sess' = [sess EXCEPT ![s] = q]
        /\ streams' = [streams EXCEPT ![s] = IF Live(s) THEN "entered" ELSE "none"]
        /\ IF sess[s].build # build \/ kind \in {"plain", "mux"} THEN UNCHANGED <<sources, seen>> ELSE Bind(s)
    BY <1>2, <1>a DEF Enter
  <2>2. /\ q \in SessionRecord /\ q.pc = sess[s].pc /\ q.build = sess[s].build /\ q.bound
        /\ q.knows = sess[s].knows /\ q.user = sess[s].user
    BY <1>a DEF SessionRecord
  <2>3. /\ sess[s].pc \in {"auth", "carried", "closed"} /\ sess[s].user \in Member /\ 0 < sess[s].build
        /\ sess[s].pc = "carried" => kind = "mux"
        /\ kind = "quic" /\ sess[s].pc = "closed" => sess[s].knows
    BY <1>0, <2>1 DEF SessInv, Authed
  <2>4. /\ streams' \in [Session -> {"none", "opening", "entered", "tracked"}]
        /\ \A t \in Session \ {s} : streams'[t] = streams[t]
    BY <1>a, <2>1
  <2>5. s \in DOMAIN sources => /\ kind \in {"anytls", "mux"} /\ sess[s].build = build /\ Live(s)
                                /\ sources[s] \in {NoUser, sess[s].user} /\ s \notin upd.close
                                /\ kind = "mux" => sess[s].pc = "carried"
    BY <1>0 DEF SourcesInv
  <2>6. /\ DOMAIN sources' = DOMAIN sources /\ \A t \in DOMAIN sources' \ {s} : sources'[t] = sources[t]
        /\ s \in DOMAIN sources => sources'[s] \in {sources[s], sess[s].user}
        /\ seen \subseteq seen' /\ seen' \subseteq seen \cup {sess[s].user}
    BY <2>1 DEF Bind
  <2>7. kind = "quic" /\ sess[s].build = build => sess[s].user \in seen'
    BY <2>1, <2>5 DEF Bind
  <2>8. /\ s \in upd.close => sess[s].pc \in {"listed", "auth", "carried", "closed"} /\ (kind = "mux" => sess[s].pc \in {"carried", "closed"})
        /\ kind = "quic" /\ sess[s].pc \in {"listed", "auth"} => sess[s].build = build
    BY <1>0 DEF SourcesInv, ListenerInv
  <2>9. Live(s) <=> sess[s].pc \in {"accepted", "listed", "auth", "carried"}
    BY DEF Live
  <2>10. seen' \subseteq Member
    BY <1>a, <2>3, <2>6
  <2>11. s \in DOMAIN sources' => /\ kind \in {"anytls", "mux"} /\ q.build = build
                                  /\ q.pc \in {"accepted", "listed", "auth", "carried"}
                                  /\ sources'[s] \in {NoUser, q.user}
                                  /\ sources'[s] # NoUser => q.pc \in {"auth", "carried"}
                                  /\ kind = "mux" => q.pc = "carried"
                                  /\ s \notin upd.close
    <3>1. s \in DOMAIN sources' => sources'[s] \in {NoUser, sess[s].user}
      BY <2>5, <2>6
    <3> QED BY <2>2, <2>3, <2>5, <2>6, <2>9, <3>1
  <2> HIDE DEF q
  <2>12. /\ q.pc # "none" /\ 0 < q.build /\ q.user \in Member /\ q.pc \in {"auth", "carried", "closed"}
         /\ q.pc = "carried" => kind = "mux"
         /\ q.pc # "accepted"
         /\ kind = "quic" /\ q.pc = "closed" => q.knows
         /\ q.user = sess[s].user
    BY <2>2, <2>3
  <2>13. /\ seen \subseteq seen'
         /\ DOMAIN sources' \subseteq DOMAIN sources \cup {s} /\ \A t \in DOMAIN sources' \ {s} : sources'[t] = sources[t]
    BY <2>6
  <2>14. kind = "quic" /\ q.pc = "auth" /\ q.build = build /\ q.bound => q.user \in seen'
    BY <2>2, <2>7
  <2>15. /\ s \in upd.close => q.pc \in {"listed", "auth", "carried", "closed"} /\ (kind = "mux" => q.pc \in {"carried", "closed"})
         /\ kind = "quic" /\ q.pc \in {"listed", "auth"} => q.build = build /\ sess[s].pc \in {"listed", "auth"}
         /\ q.pc \in {"accepted", "listed", "auth", "carried"} => Live(s)
    BY <2>2, <2>8, <2>9
  <2>16. UNCHANGED <<kind, table, build, closedTo, upd>> /\ sess' = [sess EXCEPT ![s] = q] /\ q \in SessionRecord
    BY <2>1, <2>2
  <2> QED BY <2>4, <2>10, <2>11, <2>12, <2>13, <2>14, <2>15, <2>16, SessionMoves
<1>3. CASE ClientEnds(s)
  <2>1. Live(s) /\ UNCHANGED <<kind, table, build, closedTo, seen, upd>>
    BY <1>3 DEF ClientEnds
  <2>2. CASE End({s}, TRUE) /\ sources' = UntrackAll({s}, sources)
    <3>1. /\ DOMAIN sources' \subseteq DOMAIN sources \ {s} /\ \A t \in DOMAIN sources' : sources'[t] = sources[t]
      BY <2>2 DEF UntrackAll
    <3>2. /\ SessInv' /\ SourcesInv' /\ SeenUsers'
          /\ sess' \in [Session -> SessionRecord] /\ streams' \in [Session -> {"none", "opening", "entered", "tracked"}]
          /\ \A t \in Session : /\ sess'[t].pc = IF t \in {s} /\ Live(t) THEN "closed" ELSE sess[t].pc
                                /\ sess'[t].user = sess[t].user /\ sess'[t].build = sess[t].build
      BY <2>1, <2>2, <3>1, EndKeeps DEF Rebuilding
    <3>3. SesTypes'
      BY <1>0, <2>1, <3>1, <3>2 DEF SesTypes
    <3>4. ListenerInv'
      BY <1>0, <2>1, <3>2 DEF ListenerInv
    <3>5. upd.known \subseteq Session
      BY <1>0 DEF SesTypes, UpdateRecord
    <3>6. KnownInv'
      BY <1>0, <2>1, <3>2, <3>5 DEF KnownInv, Authed, Live
    <3> QED BY <3>2, <3>3, <3>4, <3>6 DEF SesInv
  <2>3. CASE streams' = [streams EXCEPT ![s] = "none"] /\ UNCHANGED <<sess, sources>>
    <3>1. streams' \in [Session -> {"none", "opening", "entered", "tracked"}] /\ \A t \in Session : streams'[t] \in {"none", streams[t]}
      BY <1>a, <2>3
    <3>2. SesTypes' /\ SessInv'
      BY <1>0, <2>1, <2>3, <3>1 DEF SesTypes, SessInv, Authed
    <3>3. SourcesInv' /\ SeenUsers' /\ ListenerInv' /\ KnownInv'
      BY <1>0, <2>1, <2>3 DEF SourcesInv, SeenUsers, ListenerInv, KnownInv, Live, Authed, Rebuilding
    <3> QED BY <3>2, <3>3 DEF SesInv
  <2> QED BY <1>3, <2>2, <2>3 DEF ClientEnds
<1> QED
  BY <1>1, <1>2, <1>3

-----------------------------------------------------------------------------
(* Removing and kicking a user.                                             *)

\* The streams that are closed without their sessions.
LEMMA CutStreams ==
  ASSUME SesTypes, NEW gone, streams' = [s \in Session |-> IF s \in gone THEN "none" ELSE streams[s]]
  PROVE  /\ streams' \in [Session -> {"none", "opening", "entered", "tracked"}]
         /\ \A s \in Session : streams'[s] \in {"none", streams[s]}
BY DEF SesTypes

\* The table is swapped, or the update goes on with the rebuild.
LEMMA SwapKeeps ==
  ASSUME SesInv, NEW keep \in SUBSET Member, SwapTable(keep)
  PROVE  SesInv'
<1>0. SesTypes /\ SessInv /\ SourcesInv /\ SeenUsers /\ ListenerInv /\ KnownInv
  BY DEF SesInv
<1>1. /\ upd.pc = "idle" /\ build > 0 /\ UNCHANGED <<kind, build, closedTo, sess, sources, seen, streams>>
  BY DEF SwapTable
<1>2. table' \in [1 .. MaxBuilds -> SUBSET Member]
  BY <1>0 DEF SwapTable, SesTypes
<1>3. /\ upd' \in UpdateRecord /\ upd'.pc \in {"streams", "cut", "remove"} /\ upd'.known = {} /\ upd'.close = {}
  <2>1. CASE upd' = [NoUpdate EXCEPT !.pc = IF kind = "plain" THEN "streams" ELSE "cut", !.keep = keep]
    BY <2>1 DEF NoUpdate, UpdateRecord
  <2>2. CASE upd' = [NoUpdate EXCEPT !.pc = "remove", !.keep = keep]
    BY <2>2 DEF NoUpdate, UpdateRecord
  <2> QED BY <2>1, <2>2 DEF SwapTable
<1>4. SesTypes' /\ SessInv'
  BY <1>0, <1>1, <1>2, <1>3 DEF SesTypes, SessInv, Authed
<1>5. SourcesInv' /\ ListenerInv' /\ KnownInv'
  BY <1>0, <1>1, <1>3 DEF SourcesInv, ListenerInv, KnownInv, Live, Authed
<1>6. SeenUsers'
  BY <1>0, <1>1, <1>3 DEF SeenUsers, Live, Rebuilding
<1> QED
  BY <1>4, <1>5, <1>6 DEF SesInv

\* The registry gives up the sessions of the removed users, and says whether all could be named.
LEMMA CloseUsersKeeps ==
  ASSUME SesInv, CloseUsers
  PROVE  SesInv'
<1>0. SesTypes /\ SessInv /\ SourcesInv /\ SeenUsers /\ ListenerInv /\ KnownInv
  BY DEF SesInv
<1> DEFINE cut == {s \in DOMAIN sources : sources[s] # NoUser /\ sources[s] \notin upd.keep}
           w == IF kind = "quic" /\ Unclosable(upd.keep) # {} THEN "restart" ELSE NoUser
<1>1. /\ upd.pc = "cut" /\ UNCHANGED <<kind, table, build, closedTo, sess, streams>>
      /\ sources' = UntrackAll(cut, sources) /\ seen' = seen \cap upd.keep
      /\ upd' = [upd EXCEPT !.pc = "close", !.close = cut, !.known = Known, !.who = w]
  BY DEF CloseUsers
<1>2. DOMAIN sources \subseteq Session /\ upd \in UpdateRecord /\ seen \subseteq Member
  BY <1>0 DEF SesTypes
<1>3. cut \subseteq Session /\ Known \subseteq Session /\ w \in Member \cup {NoUser, "restart"}
  BY <1>2 DEF Known
<1>4. /\ upd' \in UpdateRecord /\ upd'.pc = "close" /\ upd'.close = cut /\ upd'.known = Known /\ upd'.who = w
      /\ upd'.keep = upd.keep
  BY <1>1, <1>2, <1>3 DEF UpdateRecord
<1>5. /\ DOMAIN sources' = DOMAIN sources \ cut /\ \A s \in DOMAIN sources' : sources'[s] = sources[s]
  BY <1>1 DEF UntrackAll
<1>6. SesTypes' /\ SessInv'
  BY <1>0, <1>1, <1>2, <1>4, <1>5 DEF SesTypes, SessInv, Authed
<1>7. \A s \in cut : Live(s) /\ sess[s].pc \in {"auth", "carried"} /\ (kind = "mux" => sess[s].pc = "carried")
  BY <1>0 DEF SourcesInv, Live, Authed
<1>8. SourcesInv'
  BY <1>0, <1>1, <1>4, <1>5, <1>7 DEF SourcesInv, Live, Authed
<1>9. ListenerInv'
  BY <1>0, <1>1, <1>4 DEF ListenerInv
<1>10. kind = "quic" => cut = {}
  BY <1>0 DEF SourcesInv
<1>11. "restart" # NoUser
  BY DEF NoUser
<1>12. kind = "quic" /\ w # "restart" => seen \subseteq upd.keep
  BY DEF Unclosable
<1>13. ~Rebuilding
  BY <1>1 DEF Rebuilding
<1>14. SeenUsers'
  <2> SUFFICES ASSUME kind = "quic", w # "restart", NEW s \in Session, Live(s), sess[s].build = build, sess[s].bound
               PROVE  sess[s].user \in seen'
    BY <1>1, <1>4 DEF SeenUsers, Rebuilding, Live
  <2> HIDE DEF w
  <2> QED BY <1>0, <1>1, <1>12, <1>13 DEF SeenUsers
<1>15. ASSUME NEW s \in Known
       PROVE  /\ Authed(s)
              /\ Live(s) => sess[s].user \in upd.keep \/ s \in cut \/ (kind = "quic" /\ w = "restart")
  <2>1. CASE kind = "quic"
    <3>1. s \in Session /\ Live(s) /\ sess[s].build = build /\ sess[s].bound
      BY <1>15, <2>1 DEF Known
    <3>2. Authed(s) /\ sess[s].user \in seen
      BY <1>0, <1>13, <2>1, <3>1 DEF SessInv, SeenUsers
    <3> HIDE DEF w
    <3> QED BY <1>12, <2>1, <3>2
  <2>2. CASE kind # "quic"
    <3>1. s \in DOMAIN sources /\ sources[s] # NoUser
      BY <1>15, <2>2 DEF Known
    <3>2. Authed(s) /\ sources[s] = sess[s].user
      BY <1>0, <3>1 DEF SourcesInv
    <3> QED BY <3>1, <3>2
  <2> QED BY <2>1, <2>2
<1>16. kind # "quic" => w # "restart"
  BY <1>11
<1> HIDE DEF cut, w
<1>17. KnownInv'
  BY <1>1, <1>4, <1>10, <1>15, <1>16 DEF KnownInv, Authed, Live
<1> QED
  BY <1>6, <1>8, <1>9, <1>14, <1>17 DEF SesInv

\* The transports are closed; the streams of everyone else who is gone follow.
LEMMA CutKeeps ==
  ASSUME SesInv, CloseTransports \/ CloseConnByInboundUsers
  PROVE  SesInv'
<1>0. SesTypes /\ SessInv /\ SourcesInv /\ SeenUsers /\ ListenerInv /\ KnownInv
  BY DEF SesInv
<1>a. upd \in UpdateRecord /\ upd.close \subseteq Session /\ upd.known \subseteq Session /\ sess \in [Session -> SessionRecord]
  BY <1>0 DEF SesTypes, UpdateRecord
<1>1. CASE CloseTransports
  <2>1. /\ upd.pc = "close" /\ End(upd.close, FALSE) /\ UNCHANGED <<kind, table, build, closedTo, sources, seen>>
        /\ upd' = [upd EXCEPT !.close = {}, !.pc = IF upd.who = "restart" THEN "remove" ELSE "streams"]
    BY <1>1 DEF CloseTransports
  <2>2. /\ upd' \in UpdateRecord /\ upd'.close = {} /\ upd'.known = upd.known /\ upd'.keep = upd.keep
        /\ upd'.pc = IF upd.who = "restart" THEN "remove" ELSE "streams"
    BY <1>a, <2>1 DEF UpdateRecord
  <2>3. (kind = "quic" => upd.close = {}) /\ DOMAIN sources' \subseteq DOMAIN sources \ upd.close
    BY <1>0, <2>1 DEF KnownInv, SourcesInv
  <2>4. ~Rebuilding' => ~Rebuilding
    BY <2>1, <2>2 DEF Rebuilding
  <2>5. /\ SessInv' /\ SourcesInv' /\ SeenUsers'
        /\ sess' \in [Session -> SessionRecord] /\ streams' \in [Session -> {"none", "opening", "entered", "tracked"}]
        /\ \A s \in Session : /\ sess'[s].pc = IF s \in upd.close /\ Live(s) THEN "closed" ELSE sess[s].pc
                              /\ sess'[s].user = sess[s].user /\ sess'[s].build = sess[s].build
    BY <2>1, <2>2, <2>3, <2>4, EndKeeps
  <2>6. SesTypes'
    BY <1>0, <2>1, <2>2, <2>5 DEF SesTypes
  <2>7. ListenerInv'
    BY <1>0, <2>1, <2>2, <2>5 DEF ListenerInv
  <2>8. KnownInv'
    <3>1. \A s \in upd.known : sess'[s].pc \in {"auth", "carried", "closed"}
      BY <1>0, <1>a, <2>5 DEF KnownInv, Authed
    <3>2. ASSUME upd.who # "restart", NEW s \in upd.known, sess'[s].pc \in {"accepted", "listed", "auth", "carried"}
          PROVE  sess'[s].user \in upd.keep
      <4>1. Live(s) /\ s \notin upd.close /\ sess'[s].user = sess[s].user
        BY <1>a, <2>5, <3>2 DEF Live
      <4> QED BY <1>0, <2>1, <3>2, <4>1 DEF KnownInv
    <3>3. kind # "quic" => upd.who # "restart"
      BY <1>0, <2>1 DEF KnownInv
    <3> QED BY <2>1, <2>2, <3>1, <3>2, <3>3 DEF KnownInv, Authed, Live
  <2> QED BY <2>5, <2>6, <2>7, <2>8 DEF SesInv
<1>2. CASE CloseConnByInboundUsers
  <2> DEFINE gone == {s \in Session : streams[s] = "tracked" /\ sess[s].user \notin upd.keep}
  <2>1. /\ upd.pc = "streams" /\ UNCHANGED <<kind, table, build, closedTo, sources, seen>>
        /\ upd' = [upd EXCEPT !.pc = "idle"]
        /\ IF kind = "plain" THEN End(gone, FALSE)
           ELSE streams' = [s \in Session |-> IF s \in gone THEN "none" ELSE streams[s]] /\ UNCHANGED sess
    BY <1>2 DEF CloseConnByInboundUsers
  <2>2. /\ upd' \in UpdateRecord /\ upd'.close = upd.close /\ upd'.known = upd.known /\ upd'.keep = upd.keep
        /\ upd'.pc = "idle"
    BY <1>a, <2>1 DEF UpdateRecord
  <2>3. ~Rebuilding /\ ~Rebuilding' /\ upd.close = {}
    BY <1>0, <2>1, <2>2 DEF Rebuilding, KnownInv
  <2>4. PICK S : /\ End(S, FALSE) \/ (UNCHANGED sess /\ S = {} /\ streams' \in [Session -> {"none", "opening", "entered", "tracked"}]
                                     /\ \A s \in Session : streams'[s] \in {"none", streams[s]})
                 /\ kind = "plain" \/ S = {}
    <3>1. CASE kind = "plain"
      BY <2>1, <3>1
    <3>2. CASE kind # "plain"
      <4>1. /\ UNCHANGED sess /\ streams' \in [Session -> {"none", "opening", "entered", "tracked"}]
            /\ \A s \in Session : streams'[s] \in {"none", streams[s]}
        BY <1>0, <2>1, <3>2, CutStreams
      <4> QED BY <4>1
    <3> QED BY <3>1, <3>2
  <2>5. DOMAIN sources' \subseteq DOMAIN sources \ S /\ \A s \in DOMAIN sources' : sources'[s] = sources[s]
    BY <1>0, <2>1, <2>4 DEF SourcesInv
  <2>6. /\ SessInv' /\ SourcesInv' /\ SeenUsers'
        /\ sess' \in [Session -> SessionRecord] /\ streams' \in [Session -> {"none", "opening", "entered", "tracked"}]
        /\ \A s \in Session : /\ sess'[s].pc = IF s \in S /\ Live(s) THEN "closed" ELSE sess[s].pc
                              /\ sess'[s].user = sess[s].user /\ sess'[s].build = sess[s].build
    BY <2>1, <2>2, <2>3, <2>4, <2>5, EndKeeps
  <2> HIDE DEF gone
  <2>7. SesTypes'
    BY <1>0, <2>1, <2>2, <2>6 DEF SesTypes
  <2>8. ListenerInv'
    BY <1>0, <2>1, <2>2, <2>6 DEF ListenerInv
  <2>9. KnownInv'
    BY <1>0, <1>a, <2>1, <2>2, <2>3, <2>6 DEF KnownInv, Authed, Live
  <2> QED BY <2>6, <2>7, <2>8, <2>9 DEF SesInv
<1> QED
  BY <1>1, <1>2

\* A QUIC inbound that is rebuilt stops taking sessions, collects the ones it has and tells them.
LEMMA TellKeeps ==
  ASSUME SesInv, RemoveInbound \/ TellSessions
  PROVE  SesInv'
<1>0. SesTypes /\ SessInv /\ SourcesInv /\ SeenUsers /\ ListenerInv /\ KnownInv
  BY DEF SesInv
<1>a. upd \in UpdateRecord /\ upd.close \subseteq Session /\ upd.known \subseteq Session /\ sess \in [Session -> SessionRecord]
  BY <1>0 DEF SesTypes, UpdateRecord
<1>1. CASE RemoveInbound
  <2> DEFINE all == IF kind = "quic" THEN {s \in Session : sess[s].pc \in {"listed", "auth"}} ELSE {}
  <2>1. /\ upd.pc = "remove" /\ closedTo' = "closed" /\ upd' = [upd EXCEPT !.pc = "tell", !.close = all]
        /\ UNCHANGED <<kind, table, build, sess, sources, seen, streams>>
    BY <1>1 DEF RemoveInbound
  <2>2. all \subseteq Session
    OBVIOUS
  <2>3. /\ upd' \in UpdateRecord /\ upd'.close = all /\ upd'.known = upd.known /\ upd'.keep = upd.keep
        /\ upd'.pc = "tell"
    BY <1>a, <2>1, <2>2 DEF UpdateRecord
  <2>4. SesTypes' /\ SessInv'
    BY <1>0, <2>1, <2>3 DEF SesTypes, SessInv, Authed
  <2>5. SourcesInv'
    BY <1>0, <2>1, <2>3 DEF SourcesInv, Live, Authed
  <2>6. SeenUsers'
    BY <2>3 DEF SeenUsers, Rebuilding
  <2>7. ListenerInv'
    BY <1>0, <2>1, <2>3 DEF ListenerInv
  <2>8. KnownInv'
    <3>1. ASSUME kind = "quic", NEW s \in upd.known, Live(s)
          PROVE  s \in all
      BY <1>0, <1>a, <3>1 DEF KnownInv, Authed, Live, SessInv
    <3>2. kind # "quic" => upd.known = {} /\ all = {}
      BY <1>0, <2>1 DEF KnownInv
    <3> HIDE DEF all
    <3> QED BY <1>0, <2>1, <2>3, <3>1, <3>2 DEF KnownInv, Authed, Live
  <2> QED BY <2>4, <2>5, <2>6, <2>7, <2>8 DEF SesInv
<1>2. CASE TellSessions
  <2>1. /\ upd.pc = "tell" /\ End(upd.close, TRUE) /\ UNCHANGED <<kind, table, build, closedTo, sources, seen>>
        /\ upd' = [upd EXCEPT !.pc = "drop", !.close = {}]
    BY <1>2 DEF TellSessions
  <2>2. /\ upd' \in UpdateRecord /\ upd'.close = {} /\ upd'.known = upd.known /\ upd'.keep = upd.keep
        /\ upd'.pc = "drop"
    BY <1>a, <2>1 DEF UpdateRecord
  <2>3. DOMAIN sources' \subseteq DOMAIN sources \ upd.close
    BY <1>0, <2>1 DEF SourcesInv
  <2>4. Rebuilding'
    BY <2>2 DEF Rebuilding
  <2>5. /\ SessInv' /\ SourcesInv' /\ SeenUsers'
        /\ sess' \in [Session -> SessionRecord] /\ streams' \in [Session -> {"none", "opening", "entered", "tracked"}]
        /\ \A s \in Session : /\ sess'[s].pc = IF s \in upd.close /\ Live(s) THEN "closed" ELSE sess[s].pc
                              /\ sess'[s].user = sess[s].user /\ sess'[s].build = sess[s].build
    BY <2>1, <2>2, <2>3, <2>4, EndKeeps
  <2>6. SesTypes'
    BY <1>0, <2>1, <2>2, <2>5 DEF SesTypes
  <2>7. ListenerInv'
    BY <1>0, <2>1, <2>2, <2>5 DEF ListenerInv, Live
  <2>8. KnownInv'
    <3>1. \A s \in upd.known : /\ sess'[s].pc \in {"auth", "carried", "closed"}
                               /\ sess'[s].pc \in {"accepted", "listed", "auth", "carried"} => sess'[s].user \in upd.keep
      BY <1>0, <1>a, <2>1, <2>5 DEF KnownInv, Authed, Live
    <3> QED BY <1>0, <2>1, <2>2, <3>1 DEF KnownInv, Authed, Live
  <2> QED BY <2>5, <2>6, <2>7, <2>8 DEF SesInv
<1> QED
  BY <1>1, <1>2

\* The rebuilt inbound begins with an empty registry; the sessions the old one leaves are no
\* QUIC sessions.
LEMMA RebuildKeeps ==
  ASSUME SesInv, Rebuild
  PROVE  SesInv'
<1>0. SesTypes /\ SessInv /\ SourcesInv /\ SeenUsers /\ ListenerInv /\ KnownInv
  BY DEF SesInv
<1>a. upd \in UpdateRecord /\ upd.known \subseteq Session /\ upd.keep \subseteq Member /\ sess \in [Session -> SessionRecord]
  BY <1>0 DEF SesTypes, UpdateRecord
<1> DEFINE gone == {s \in Session : streams[s] = "tracked"}
<1>1. /\ upd.pc = "drop" /\ kind' = kind /\ sources' = <<>> /\ seen' = {} /\ upd' = [upd EXCEPT !.pc = "idle"]
      /\ IF kind = "plain" THEN End(gone, FALSE)
         ELSE streams' = [s \in Session |-> IF s \in gone THEN "none" ELSE streams[s]] /\ UNCHANGED sess
      /\ \/ build < MaxBuilds /\ build' = build + 1 /\ closedTo' = "open" /\ table' = [table EXCEPT ![build + 1] = upd.keep]
         \/ build' = 0 /\ UNCHANGED <<closedTo, table>>
  BY DEF Rebuild
<1>2. /\ upd' \in UpdateRecord /\ upd'.close = upd.close /\ upd'.known = upd.known /\ upd'.keep = upd.keep
      /\ upd'.pc = "idle" /\ upd.close = {}
  BY <1>0, <1>a, <1>1 DEF UpdateRecord, KnownInv
<1>3. DOMAIN sources' = {}
  BY <1>1
<1>4. build' \in 0 .. MaxBuilds /\ closedTo' \in {"open", "closed"} /\ table' \in [1 .. MaxBuilds -> SUBSET Member]
  <2>1. MaxBuilds \in Nat /\ build \in 0 .. MaxBuilds /\ table \in [1 .. MaxBuilds -> SUBSET Member] /\ closedTo \in {"open", "closed"}
    BY <1>0, SessionConstants DEF SesTypes
  <2>2. build' \in 0 .. MaxBuilds /\ closedTo' \in {"open", "closed"}
    BY <1>1, <2>1
  <2>3. table' \in [1 .. MaxBuilds -> SUBSET Member]
    BY <1>a, <1>1, <2>1
  <2> QED BY <2>2, <2>3
<1>5. /\ sess' \in [Session -> SessionRecord] /\ streams' \in [Session -> {"none", "opening", "entered", "tracked"}]
      /\ \A s \in Session : /\ sess'[s].pc = sess[s].pc \/ (kind = "plain" /\ Live(s) /\ s \in gone /\ sess'[s].pc = "closed")
                            /\ kind # "plain" => sess'[s].knows = sess[s].knows
                            /\ sess'[s].user = sess[s].user /\ sess'[s].build = sess[s].build
                            /\ sess'[s].bound = sess[s].bound
                            /\ streams'[s] \in {"none", streams[s]}
  <2>1. CASE kind = "plain"
    <3>1. End(gone, FALSE)
      BY <1>1, <2>1
    <3> HIDE DEF gone
    <3> QED BY <1>0, <2>1, <3>1, EndEffect
  <2>2. CASE kind # "plain"
    <3>1. sess' = sess /\ streams' = [s \in Session |-> IF s \in gone THEN "none" ELSE streams[s]]
      BY <1>1, <2>2
    <3> QED BY <1>0, <1>a, <2>2, <3>1, CutStreams
  <2> QED BY <2>1, <2>2
<1> HIDE DEF gone
<1>6. SesTypes'
  BY <1>0, <1>1, <1>2, <1>3, <1>4, <1>5 DEF SesTypes
<1>7. SessInv'
  <2>1. ASSUME NEW s \in Session
        PROVE  /\ sess'[s].pc # "none" => 0 < sess'[s].build
               /\ sess'[s].pc \in {"auth", "carried"} => sess'[s].user \in Member
               /\ streams'[s] # "none" => sess'[s].pc \in {"auth", "carried", "closed"} /\ sess'[s].user \in Member
               /\ sess'[s].bound => sess'[s].pc \in {"auth", "carried", "closed"} /\ sess'[s].user \in Member
               /\ sess'[s].pc = "carried" => kind = "mux"
               /\ sess'[s].pc = "accepted" => kind = "quic"
               /\ kind = "quic" /\ sess'[s].pc = "closed" => sess'[s].knows
    BY <1>0, <1>5 DEF SessInv, Authed, Live
  <2> QED BY <1>1, <2>1 DEF SessInv, Authed
<1>8. SourcesInv'
  BY <1>2, <1>3 DEF SourcesInv
<1>9. ASSUME kind = "quic", NEW s \in Session
      PROVE  sess'[s].pc \notin {"listed", "auth", "carried"}
  BY <1>0, <1>1, <1>5, <1>9 DEF ListenerInv, SessInv
<1>10. SeenUsers'
  <2> SUFFICES ASSUME kind = "quic", NEW s \in Session, sess'[s].bound
               PROVE  sess'[s].pc \notin {"accepted", "listed", "auth", "carried"}
    BY <1>1 DEF SeenUsers, Live
  <2> QED BY <1>0, <1>5, <1>9 DEF SessInv, Authed
<1>11. ListenerInv'
  BY <1>1, <1>2, <1>9 DEF ListenerInv
<1>12. KnownInv'
  BY <1>0, <1>a, <1>1, <1>2, <1>5 DEF KnownInv, Authed, Live
<1> QED
  BY <1>6, <1>7, <1>8, <1>10, <1>11, <1>12 DEF SesInv

\* A kick ends streams, then sessions, of a user who stays.
LEMMA KickKeeps ==
  ASSUME SesInv, KickUserSessions \/ \E m \in Member : Disconnect(m)
  PROVE  SesInv'
<1>0. SesTypes /\ SessInv /\ SourcesInv /\ SeenUsers /\ ListenerInv /\ KnownInv
  BY DEF SesInv
<1>1. PICK S : /\ End(S, FALSE) \/ (UNCHANGED sess /\ S = {} /\ streams' \in [Session -> {"none", "opening", "entered", "tracked"}]
                                    /\ \A s \in Session : streams'[s] \in {"none", streams[s]})
               /\ kind = "quic" => S = {}
               /\ DOMAIN sources' \subseteq DOMAIN sources \ S /\ \A s \in DOMAIN sources' : sources'[s] = sources[s]
  <2>1. CASE KickUserSessions
    <3> DEFINE cut == {s \in DOMAIN sources : sources[s] = upd.who}
    <3>1. sources' = UntrackAll(cut, sources) /\ End(cut, FALSE)
      BY <2>1 DEF KickUserSessions
    <3>2. DOMAIN sources' = DOMAIN sources \ cut /\ \A s \in DOMAIN sources' : sources'[s] = sources[s]
      BY <3>1 DEF UntrackAll
    <3>3. kind = "quic" => cut = {}
      BY <1>0 DEF SourcesInv
    <3> HIDE DEF cut
    <3> QED BY <3>1, <3>2, <3>3
  <2>2. ASSUME NEW m \in Member, Disconnect(m)
        PROVE  \E S : /\ End(S, FALSE) \/ (UNCHANGED sess /\ S = {} /\ streams' \in [Session -> {"none", "opening", "entered", "tracked"}]
                                           /\ \A s \in Session : streams'[s] \in {"none", streams[s]})
                      /\ kind = "quic" => S = {}
                      /\ DOMAIN sources' \subseteq DOMAIN sources \ S /\ \A s \in DOMAIN sources' : sources'[s] = sources[s]
    <3> DEFINE gone == {s \in Session : streams[s] = "tracked" /\ sess[s].user = m}
    <3>1. /\ sources' = sources
          /\ IF kind = "plain" THEN End(gone, FALSE)
             ELSE streams' = [s \in Session |-> IF s \in gone THEN "none" ELSE streams[s]] /\ UNCHANGED sess
      BY <2>2 DEF Disconnect
    <3>2. CASE kind = "plain"
      <4>1. DOMAIN sources = {} /\ End(gone, FALSE)
        BY <1>0, <3>1, <3>2 DEF SourcesInv
      <4> HIDE DEF gone
      <4> QED BY <3>1, <3>2, <4>1
    <3>3. CASE kind # "plain"
      <4>1. /\ UNCHANGED sess /\ streams' \in [Session -> {"none", "opening", "entered", "tracked"}]
            /\ \A s \in Session : streams'[s] \in {"none", streams[s]}
        BY <1>0, <3>1, <3>3, CutStreams
      <4>2. DOMAIN sources' \subseteq DOMAIN sources \ {} /\ \A s \in DOMAIN sources' : sources'[s] = sources[s]
        BY <3>1
      <4> HIDE DEF gone
      <4> WITNESS {}
      <4> QED BY <4>1, <4>2
    <3> QED BY <3>2, <3>3
  <2> QED BY <2>1, <2>2
<1>2. /\ UNCHANGED <<kind, table, build, closedTo, seen>> /\ upd.pc \in {"idle", "kick"}
      /\ upd' \in UpdateRecord /\ upd'.pc \in {"idle", "kick"} /\ upd'.close = {} /\ upd'.known = {}
  <2>1. CASE KickUserSessions
    BY <2>1 DEF KickUserSessions, NoUpdate, UpdateRecord
  <2>2. ASSUME NEW m \in Member, Disconnect(m)
        PROVE  /\ UNCHANGED <<kind, table, build, closedTo, seen>> /\ upd.pc = "idle"
               /\ upd' \in UpdateRecord /\ upd'.pc = "kick" /\ upd'.close = {} /\ upd'.known = {}
    <3>1. upd.pc = "idle" /\ upd' = [NoUpdate EXCEPT !.pc = "kick", !.who = m] /\ UNCHANGED <<kind, table, build, closedTo, seen>>
      BY <2>2 DEF Disconnect
    <3> QED BY <3>1 DEF NoUpdate, UpdateRecord
  <2> QED BY <2>1, <2>2
<1>3. ~Rebuilding
  BY <1>2 DEF Rebuilding
<1>4. /\ SessInv' /\ SourcesInv' /\ SeenUsers'
      /\ sess' \in [Session -> SessionRecord] /\ streams' \in [Session -> {"none", "opening", "entered", "tracked"}]
      /\ \A s \in Session : /\ sess'[s].pc = IF s \in S /\ Live(s) THEN "closed" ELSE sess[s].pc
                            /\ sess'[s].user = sess[s].user /\ sess'[s].build = sess[s].build
  BY <1>1, <1>2, <1>3, EndKeeps
<1>5. SesTypes'
  BY <1>0, <1>1, <1>2, <1>4 DEF SesTypes
<1>6. ListenerInv'
  BY <1>0, <1>2, <1>4 DEF ListenerInv
<1>7. KnownInv'
  BY <1>2 DEF KnownInv
<1> QED
  BY <1>4, <1>5, <1>6, <1>7 DEF SesInv

LEMMA SessionInitial == SessionInit => SesInv
<1> SUFFICES ASSUME SessionInit
             PROVE  SesInv
  OBVIOUS
<1>1. /\ NoSession \in SessionRecord /\ NoSession.pc = "none" /\ ~NoSession.bound
      /\ NoUpdate \in UpdateRecord /\ NoUpdate.pc = "idle" /\ NoUpdate.close = {} /\ NoUpdate.known = {}
  BY SessionConstants DEF SessionRecord, UpdateRecord, NoSession, NoUpdate
<1>2. /\ kind \in Kinds /\ sess \in [Session -> SessionRecord] /\ \A s \in Session : sess[s] = NoSession /\ streams[s] = "none"
      /\ DOMAIN sources = {} /\ upd = NoUpdate /\ seen = {}
      /\ streams \in [Session -> {"none", "opening", "entered", "tracked"}]
  BY <1>1 DEF SessionInit, Kinds
<1>3. SesTypes
  BY <1>1, <1>2, SessionConstants DEF SesTypes, SessionInit
<1>4. SessInv /\ SourcesInv
  BY <1>1, <1>2 DEF SessInv, SourcesInv
<1>5. SeenUsers /\ ListenerInv /\ KnownInv
  BY <1>1, <1>2 DEF SeenUsers, ListenerInv, KnownInv
<1> QED
  BY <1>3, <1>4, <1>5 DEF SesInv

\* For any sessions, users and builds: no session of a user on record outlives the update that removes the
\* user (CloseUsers of core/usersession, or the rebuild of service/inbounds.go), every session a QUIC
\* inbound ends is told (core/quicgrace), and the registry names only live sessions of its inbound.
THEOREM SessionsAreSafe == SessionSpec => []SessionSafety
<1>1. SesInv /\ [SessionNext]_sesVars => SesInv'
  <2> SUFFICES ASSUME SesInv, [SessionNext]_sesVars
               PROVE  SesInv'
    OBVIOUS
  <2>1. CASE UNCHANGED sesVars
    BY <2>1 DEF sesVars, SesInv, SesTypes, SessInv, SourcesInv, SeenUsers, ListenerInv, KnownInv, Live, Authed, Rebuilding
  <2> QED BY <2>1, ArriveKeeps, StreamKeeps, SwapKeeps, CloseUsersKeeps, CutKeeps, TellKeeps, RebuildKeeps, KickKeeps DEF SessionNext
<1>2. SesInv => SessionSafety
  <2> SUFFICES ASSUME SesInv
               PROVE  SessionSafety
    OBVIOUS
  <2>0. SesTypes /\ SessInv /\ SourcesInv /\ ListenerInv /\ KnownInv
    BY DEF SesInv
  <2>1. SessionTypeOK
    BY <2>0 DEF SesTypes, SessionTypeOK, SessionRecord, Kinds
  <2>2. RemovedIsCut /\ RegistryIsLive
    BY <2>0 DEF RemovedIsCut, RegistryIsLive, KnownInv, SourcesInv
  <2>3. EveryoneTold
    BY <2>0 DEF EveryoneTold, ListenerInv, SessInv
  <2> QED BY <2>1, <2>2, <2>3 DEF SessionSafety
<1> QED
  BY <1>1, <1>2, SessionInitial, PTL DEF SessionSpec

-----------------------------------------------------------------------------
(* Ranking addresses.                                                       *)

\* Those with fewer than n others before them in a strict order are at most n, and each
\* of them is before everyone else.
LEMMA RankBound ==
  ASSUME NEW C, IsFiniteSet(C), NEW n \in Nat, NEW R,
         \A a \in C : <<a, a>> \notin R,
         \A a, b, c \in C : <<a, b>> \in R /\ <<b, c>> \in R => <<a, c>> \in R,
         \A a, b \in C : a # b => <<a, b>> \in R \/ <<b, a>> \in R,
         NEW first \in SUBSET C, \A a \in C : a \in first <=> Cardinality(SetLessThan(a, R, C)) < n
  PROVE  /\ IsFiniteSet(first) /\ Cardinality(first) <= n
         /\ \A b \in first, a \in C \ first : <<b, a>> \in R
<1> DEFINE below(a) == {b \in C : <<b, a>> \in R}
<1>0. first = {a \in C : Cardinality(below(a)) < n}
  BY DEF SetLessThan
<1>1. ASSUME NEW a \in C
      PROVE  IsFiniteSet(below(a)) /\ Cardinality(below(a)) \in Nat
  BY FS_Subset, FS_CardinalityType
<1>2. ASSUME NEW a \in C, NEW b \in C, <<a, b>> \in R
      PROVE  Cardinality(below(a)) < Cardinality(below(b))
  <2>1. below(a) \in SUBSET below(b) /\ a \in below(b) /\ a \notin below(a)
    BY <1>2
  <2>2. IsFiniteSet(below(b)) /\ Cardinality(below(a)) \in Nat /\ Cardinality(below(b)) \in Nat
    BY <1>1
  <2> HIDE DEF below
  <2>3. Cardinality(below(a)) <= Cardinality(below(b)) /\ Cardinality(below(a)) # Cardinality(below(b))
    BY <2>1, <2>2, FS_Subset
  <2> QED BY <2>2, <2>3
<1>3. \A b \in first, a \in C \ first : <<b, a>> \in R
  <2> SUFFICES ASSUME NEW b \in first, NEW a \in C \ first
               PROVE  <<b, a>> \in R
    OBVIOUS
  <2>1. b \in C /\ a \in C /\ a # b /\ Cardinality(below(b)) < n /\ ~(Cardinality(below(a)) < n)
    BY <1>0
  <2>2. ~(<<a, b>> \in R)
    <3> HIDE DEF below
    <3> QED BY <1>1, <1>2, <2>1
  <2> QED BY <2>1, <2>2
<1> DEFINE f == [a \in first |-> Cardinality(below(a))]
<1>4. f \in Injection(first, 0 .. n - 1)
  <2>1. \A a \in first : a \in C /\ Cardinality(below(a)) \in 0 .. n - 1
    <3>1. \A a \in first : a \in C /\ Cardinality(below(a)) < n
      BY <1>0
    <3> HIDE DEF below
    <3> QED BY <1>1, <3>1
  <2>2. ASSUME NEW a \in first, NEW b \in first, a # b
        PROVE  Cardinality(below(a)) # Cardinality(below(b))
    <3>1. a \in C /\ b \in C
      BY <1>0
    <3>2. <<a, b>> \in R \/ <<b, a>> \in R
      BY <2>2, <3>1
    <3> HIDE DEF below
    <3> QED BY <1>1, <1>2, <3>1, <3>2
  <2> HIDE DEF below
  <2> QED BY <2>1, <2>2 DEF Injection, IsInjective
<1>5. IsFiniteSet(0 .. n - 1) /\ Cardinality(0 .. n - 1) = n
  BY FS_Interval
<1> HIDE DEF f, below
<1>6. IsFiniteSet(first) /\ Cardinality(first) <= n
  BY <1>4, <1>5, FS_Injection
<1> QED
  BY <1>3, <1>6

\* A set of natural numbers that is not empty has a least one.
LEMMA LeastOne ==
  ASSUME NEW S, S \subseteq Nat, S # {}
  PROVE  \E t \in S : \A u \in S : t <= u
<1>1. IsWellFoundedOn(OpToRel(<, Nat), Nat)
  BY NatLessThanWellFounded
<1>2. PICK t \in S : \A u \in S : ~ (<<u, t>> \in OpToRel(<, Nat))
  BY <1>1, WFMin
<1>3. \A u \in S : ~(u < t)
  BY <1>2 DEF OpToRel
<1> QED
  BY <1>3

\* The addresses are finitely many numbers.
LEMMA Addresses == Addr \subseteq Nat /\ IsFiniteSet(Addr)
<1>1. \A s \in Source : normalizeSrc(s) \in Nat
  BY IpLimitConstants DEF normalizeSrc
<1>2. Addr \subseteq Nat
  BY <1>1 DEF Addr
<1> DEFINE f == [s \in Source |-> normalizeSrc(s)]
<1>3. f \in Surjection(Source, Addr)
  BY DEF Surjection, Addr
<1>4. IsFiniteSet(Addr)
  BY <1>3, IpLimitConstants, FS_Surjection
<1> QED
  BY <1>2, <1>4

-----------------------------------------------------------------------------
(* The limit of addresses of one client.                                    *)

BanRecord == [until : Nat, gen : Nat]
Standings(bans) == {a \in Addr : bans[a].until > 0}
ConnRecord == [state : {"gated", "tracked"}, addr : Addr, at : Nat, last : Nat, barred : BOOLEAN]

ClockTypes ==
  /\ ticks \in 1 .. MaxTicks /\ epoch \in 1 .. MaxTicks /\ epoch <= ticks /\ trackers \in 1 .. MaxTrackers
  /\ trackerUp \in BOOLEAN /\ stamped \in BOOLEAN /\ limitIp \in 0 .. MaxLimit /\ opened \in 0 .. MaxConns

ConnTypes == \A c \in DOMAIN conns : conns[c] \in ConnRecord

BanTypes ==
  /\ ipBans \in [Addr -> BanRecord] /\ evicted \in [Addr -> BanRecord]
  /\ Cardinality(Standings(ipBans)) <= BanMaxSize

\* A plan is made of a snapshot: addresses with the time of their first connection.
ScanTypes ==
  /\ DOMAIN scan = {"pc", "limit", "unix", "gen", "now", "active", "kept", "dropped"}
  /\ scan.pc \in {"idle", "plan", "close"} /\ scan.limit \in Nat /\ scan.unix \in Nat /\ scan.unix <= ticks
  /\ scan.gen \in Nat /\ (scan.pc # "idle" => scan.gen = heldGen)
  /\ scan.kept \subseteq Addr /\ scan.dropped \subseteq Addr /\ Cardinality(scan.kept) <= scan.limit
  /\ scan.pc = "plan" => /\ DOMAIN scan.active \subseteq Addr
                         /\ \A a \in DOMAIN scan.active : scan.active[a].first \in Nat

\* An eviction that is not over is one of the bans.
EvictedIsBanned == \A a \in Addr : evicted[a].until > ticks => ipBans[a] = evicted[a]

\* The record of holders is the tenure of each on the tracker it was made for; another tracker
\* has given no slot.
HeldInv ==
  /\ heldGen \in Nat /\ heldGen <= trackers
  /\ DOMAIN holders \subseteq Addr /\ \A a \in DOMAIN holders : holders[a].at \in Nat
  /\ IF heldGen = trackers
     THEN /\ DOMAIN tenure = DOMAIN holders
          /\ \A a \in DOMAIN holders : holders[a].at = tenure[a].since /\ holders[a].seen = tenure[a].seen
     ELSE DOMAIN tenure = {}

LimitInv == /\ ClockTypes /\ ConnTypes /\ BanTypes /\ ScanTypes /\ EvictedIsBanned /\ HeldInv
            /\ EvictionOutlivesRestart

\* Sweeping lifts bans that are over, or that the caller's verdict on the client forgives.
LEMMA SweepFacts ==
  ASSUME NEW bans \in [Addr -> BanRecord], NEW u, NEW verdict, NEW g
  PROVE  /\ sweepLocked(bans, u, verdict, g) \in [Addr -> BanRecord]
         /\ Cardinality(Standings(sweepLocked(bans, u, verdict, g))) <= Cardinality(Standings(bans))
         /\ \A a \in Addr : \/ sweepLocked(bans, u, verdict, g)[a] = bans[a]
                            \/ /\ sweepLocked(bans, u, verdict, g)[a] = NoBan
                               /\ u >= bans[a].until \/ verdict = "unlimited" \/ (verdict = "under" /\ bans[a].gen = g)
<1> DEFINE swept == sweepLocked(bans, u, verdict, g)
<1>1. NoBan \in BanRecord /\ NoBan.until = 0
  BY DEF NoBan, BanRecord
<1>2. swept \in [Addr -> BanRecord]
  BY <1>1 DEF sweepLocked
<1>3. \A a \in Addr : \/ swept[a] = bans[a]
                      \/ /\ swept[a] = NoBan
                         /\ u >= bans[a].until \/ verdict = "unlimited" \/ (verdict = "under" /\ bans[a].gen = g)
  BY DEF sweepLocked
<1> HIDE DEF swept
<1>4. Standings(swept) \in SUBSET Standings(bans) /\ Standings(bans) \in SUBSET Addr
  BY <1>1, <1>3 DEF Standings
<1>5. Cardinality(Standings(swept)) <= Cardinality(Standings(bans))
  BY <1>4, Addresses, FS_Subset
<1> QED
  BY <1>2, <1>3, <1>5 DEF swept

\* The cap on the number of bans holds after it is applied.
LEMMA EvictFacts ==
  ASSUME NEW bans \in [Addr -> BanRecord], NEW u, NEW new \in evictBansLocked(bans, u)
  PROVE  /\ new \in [Addr -> BanRecord] /\ Cardinality(Standings(new)) <= BanMaxSize
         /\ \A a \in Addr : new[a] \in {NoBan, bans[a]}
<1> DEFINE swept == sweepLocked(bans, u, "unseen", 0)
           live == {a \in Addr : swept[a].until > 0}
           size == IF Cardinality(live) > BanMaxSize THEN Cardinality(live) - BanMaxSize ELSE 0
<1>1. PICK d \in SUBSET live : /\ Cardinality(d) = size
                               /\ new = [a \in Addr |-> IF a \in d THEN NoBan ELSE swept[a]]
  BY DEF evictBansLocked
<1>2. swept \in [Addr -> BanRecord] /\ \A a \in Addr : swept[a] \in {NoBan, bans[a]}
  BY SweepFacts
<1>3. NoBan \in BanRecord /\ NoBan.until = 0
  BY DEF NoBan, BanRecord
<1> HIDE DEF swept
<1>4. new \in [Addr -> BanRecord] /\ \A a \in Addr : new[a] \in {NoBan, bans[a]}
  BY <1>1, <1>2, <1>3
<1>5. Standings(new) = live \ d /\ live \cap d = d /\ live \in SUBSET Addr
  BY <1>1, <1>3 DEF Standings
<1> HIDE DEF live
<1>6. IsFiniteSet(live) /\ Cardinality(live) \in Nat
  BY <1>5, Addresses, FS_Subset, FS_CardinalityType
<1>7. Cardinality(Standings(new)) = Cardinality(live) - size
  <2>1. Cardinality(live \ d) = Cardinality(live) - Cardinality(live \cap d)
    BY <1>6, FS_Difference
  <2> HIDE DEF size
  <2> QED BY <1>1, <1>5, <2>1
<1>8. Cardinality(Standings(new)) <= BanMaxSize
  BY <1>6, <1>7, IpLimitConstants
<1> QED
  BY <1>4, <1>8

\* The snapshot of the tracker has an address per connection, with the least of the times.
LEMMA SnapshotFacts ==
  ASSUME ConnTypes
  PROVE  DOMAIN UserIPs \subseteq Addr /\ \A a \in DOMAIN UserIPs : UserIPs[a].first \in Nat
<1>1. DOMAIN UserIPs = {conns[c].addr : c \in Tracked} /\ Tracked \subseteq DOMAIN conns
  BY DEF UserIPs, Tracked
<1>2. DOMAIN UserIPs \subseteq Addr
  BY <1>1 DEF ConnTypes, ConnRecord
<1>3. ASSUME NEW a \in DOMAIN UserIPs
      PROVE  UserIPs[a].first \in Nat
  <2> DEFINE mine == {c \in Tracked : conns[c].addr = a}
             times == {conns[c].at : c \in mine}
  <2>1. times \subseteq Nat /\ times # {}
    BY <1>1, <1>3 DEF ConnTypes, ConnRecord
  <2>2. \E t \in times : \A v \in times : t <= v
    <3> HIDE DEF times
    <3> QED BY <2>1, LeastOne
  <2>3. \E t \in times : \A c \in mine : t <= conns[c].at
    BY <2>2
  <2>4. UserIPs[a].first = CHOOSE t \in times : \A c \in mine : t <= conns[c].at
    BY <1>1, <1>3 DEF UserIPs
  <2>5. UserIPs[a].first \in times
    <3> HIDE DEF times, mine
    <3> QED BY <2>3, <2>4
  <2> QED BY <2>1, <2>5
<1> QED
  BY <1>2, <1>3

\* The order by standing is strict and total, so that the plan keeps no more than the limit and
\* drops nobody who stands before one it keeps.
LEMMA PlanFacts ==
  ASSUME LimitInv, scan.pc = "plan"
  PROVE  /\ planIPLimit \subseteq Candidates /\ Candidates \subseteq DOMAIN scan.active /\ DOMAIN scan.active \subseteq Addr
         /\ Cardinality(planIPLimit) <= scan.limit
         /\ \A a \in Candidates : Standing(a) \in Nat
         /\ \A b \in planIPLimit, a \in Candidates \ planIPLimit : Standing(b) <= Standing(a)
<1>1. /\ Candidates \subseteq DOMAIN scan.active /\ DOMAIN scan.active \subseteq Addr /\ scan.limit \in Nat
      /\ planIPLimit \subseteq Candidates
  BY DEF Candidates, planIPLimit, LimitInv, ScanTypes
<1>2. \A a \in Candidates : Standing(a) \in Nat
  BY <1>1 DEF Standing, LimitInv, ScanTypes, HeldInv
<1>3. Addr \subseteq Nat /\ IsFiniteSet(Candidates)
  BY <1>1, Addresses, FS_Subset
<1> DEFINE R == {p \in Candidates \X Candidates : Before(p[1], p[2])}
<1>4. \A a, b \in Candidates : <<a, b>> \in R <=> Before(a, b)
  OBVIOUS
<1>5. \A a \in Candidates : <<a, a>> \notin R
  <2> TAKE a \in Candidates
  <2>1. Standing(a) \in Nat /\ a \in Nat
    BY <1>1, <1>2, <1>3
  <2>2. ~Before(a, a)
    BY <2>1 DEF Before
  <2> QED BY <1>4, <2>2
<1>6. ASSUME NEW a \in Candidates, NEW b \in Candidates, NEW c \in Candidates, <<a, b>> \in R, <<b, c>> \in R
      PROVE  <<a, c>> \in R
  <2>1. {Standing(a), Standing(b), Standing(c), a, b, c} \subseteq Nat
    BY <1>1, <1>2, <1>3
  <2>2. Before(a, b) /\ Before(b, c)
    BY <1>4, <1>6
  <2>3. Before(a, c)
    BY <2>1, <2>2 DEF Before
  <2> QED BY <1>4, <2>3
<1>7. ASSUME NEW a \in Candidates, NEW b \in Candidates, a # b
      PROVE  <<a, b>> \in R \/ <<b, a>> \in R
  <2>1. {Standing(a), Standing(b), a, b} \subseteq Nat
    BY <1>1, <1>2, <1>3
  <2>2. Before(a, b) \/ Before(b, a)
    BY <1>7, <2>1 DEF Before
  <2> QED BY <1>4, <2>2
<1> HIDE DEF R
<1>8. \A a \in Candidates : a \in planIPLimit <=> Cardinality(SetLessThan(a, R, Candidates)) < scan.limit
  <2>1. \A a \in Candidates : {b \in Candidates : Before(b, a)} = SetLessThan(a, R, Candidates)
    BY <1>4 DEF SetLessThan
  <2> QED BY <2>1 DEF planIPLimit
<1>9. Cardinality(planIPLimit) <= scan.limit /\ \A b \in planIPLimit, a \in Candidates \ planIPLimit : <<b, a>> \in R
  <2>1. \A a, b, c \in Candidates : <<a, b>> \in R /\ <<b, c>> \in R => <<a, c>> \in R
    BY <1>6
  <2>2. \A a, b \in Candidates : a # b => <<a, b>> \in R \/ <<b, a>> \in R
    BY <1>7
  <2>3. scan.limit \in Nat /\ IsFiniteSet(Candidates) /\ planIPLimit \in SUBSET Candidates
    BY <1>1, <1>3
  <2> QED BY ONLY <1>5, <1>8, <2>1, <2>2, <2>3, RankBound
<1>10. ASSUME NEW b \in planIPLimit, NEW a \in Candidates \ planIPLimit
       PROVE  Standing(b) <= Standing(a)
  <2>1. b \in Candidates /\ Before(b, a)
    BY <1>1, <1>4, <1>9
  <2> QED BY <1>2, <2>1 DEF Before
<1> QED
  BY <1>1, <1>2, <1>9, <1>10

\* The constants of the initial state.
LEMMA LimitInitial == LimitInit => LimitInv
<1> SUFFICES ASSUME LimitInit
             PROVE  LimitInv
  OBVIOUS
<1>1. ClockTypes
  <2>1. MaxTicks \in Nat /\ MaxTicks >= 1 /\ MaxTrackers \in Nat /\ MaxTrackers >= 1 /\ MaxConns \in Nat
    BY IpLimitConstants
  <2>2. ticks = 1 /\ trackers = 1 /\ trackerUp = TRUE /\ epoch = 1 /\ opened = 0 /\ limitIp \in 0 .. MaxLimit /\ stamped = FALSE
    BY DEF LimitInit
  <2>3. ticks \in 1 .. MaxTicks /\ epoch \in 1 .. MaxTicks /\ epoch <= ticks /\ trackers \in 1 .. MaxTrackers /\ opened \in 0 .. MaxConns
    BY <2>1, <2>2
  <2>4. trackerUp \in BOOLEAN /\ stamped \in BOOLEAN /\ limitIp \in 0 .. MaxLimit
    BY <2>2, Zenon
  <2> QED BY <2>3, <2>4, Zenon DEF ClockTypes
<1>2. ConnTypes /\ EvictionOutlivesRestart
  BY DEF LimitInit, ConnTypes, EvictionOutlivesRestart
<1>3. BanTypes
  <2>1. NoBan \in BanRecord /\ NoBan.until = 0
    BY DEF NoBan, BanRecord
  <2>2. ipBans = [a \in Addr |-> NoBan] /\ evicted = [a \in Addr |-> NoBan]
    BY DEF LimitInit
  <2>3. Standings(ipBans) = {}
    BY <2>1, <2>2 DEF Standings
  <2>4. Cardinality(Standings(ipBans)) <= BanMaxSize
    BY <2>3, FS_EmptySet, IpLimitConstants
  <2> QED BY <2>1, <2>2, <2>4 DEF BanTypes
<1>4. ScanTypes
  <2>1. scan = NoScan /\ ticks = 1
    BY DEF LimitInit
  <2>2. Cardinality({}) = 0
    BY FS_EmptySet
  <2> QED BY <2>1, <2>2 DEF ScanTypes, NoScan
<1>5. EvictedIsBanned
  BY DEF LimitInit, EvictedIsBanned
<1>6. HeldInv
  BY DEF LimitInit, HeldInv
<1> QED
  BY <1>1, <1>2, <1>3, <1>4, <1>5, <1>6 DEF LimitInv

\* The bans, the scan and the slots are as they were.
LEMMA LimitRest ==
  ASSUME LimitInv, UNCHANGED <<ticks, trackers, ipBans, holders, heldGen, scan, evicted, tenure>>,
         ClockTypes', ConnTypes', EvictionOutlivesRestart'
  PROVE  LimitInv'
<1>1. BanTypes'
  BY DEF LimitInv, BanTypes
<1>2. ScanTypes'
  BY DEF LimitInv, ScanTypes
<1>3. EvictedIsBanned'
  BY DEF LimitInv, EvictedIsBanned
<1>4. HeldInv'
  BY DEF LimitInv, HeldInv
<1> QED
  BY <1>1, <1>2, <1>3, <1>4 DEF LimitInv

\* Closing connections leaves the others as they are.
LEMMA CloseFacts ==
  ASSUME LimitInv, NEW drop, NEW g, conns' = CloseConnByUserIPs(drop, g)
  PROVE  ConnTypes' /\ EvictionOutlivesRestart'
<1>1. \A c \in DOMAIN conns' : c \in DOMAIN conns /\ conns'[c] = conns[c]
  BY DEF CloseConnByUserIPs, Closing
<1> QED
  BY <1>1 DEF LimitInv, ConnTypes, EvictionOutlivesRestart

LEMMA GateKeeps ==
  ASSUME LimitInv, NEW s \in Source, Gate(s)
  PROVE  LimitInv'
<1> DEFINE a == normalizeSrc(s)
           barred == /\ evicted[a].until > ticks /\ evicted[a].gen # trackers
                     /\ ~(lease.managed /\ lease.until > ticks)
<1>0. ClockTypes /\ ConnTypes /\ BanTypes /\ EvictedIsBanned /\ EvictionOutlivesRestart
  BY DEF LimitInv
<1>1. a \in Addr
  BY DEF Addr
<1>2. /\ UNCHANGED <<managed, ticks, limCore, limitIp, stamped, ipBans, holders, heldGen, lease, scan, evicted, tenure>>
      /\ opened < MaxConns /\ opened' = opened + 1 /\ allow(a)
      /\ conns' = [c \in DOMAIN conns \cup {opened'} |->
                     IF c # opened' THEN conns[c]
                     ELSE [state |-> "gated", addr |-> a, at |-> monoNow, last |-> monoNow, barred |-> barred]]
  BY DEF Gate
<1>3. barred = FALSE
  <2> SUFFICES ASSUME barred
               PROVE  FALSE
    OBVIOUS
  <2>1. ipBans[a] = evicted[a]
    BY <1>0, <1>1 DEF EvictedIsBanned
  <2>2. ticks >= ipBans[a].until
    BY <1>2 DEF allow
  <2>3. ipBans[a].until \in Nat /\ ticks \in Nat
    BY <1>0, <1>1 DEF BanTypes, BanRecord, ClockTypes
  <2>4. ipBans[a].until > ticks
    BY <2>1
  <2> QED BY <2>2, <2>3, <2>4
<1> HIDE DEF barred
<1>4. monoNow \in Nat
  BY <1>0 DEF ClockTypes, monoNow
<1>5. [state |-> "gated", addr |-> a, at |-> monoNow, last |-> monoNow, barred |-> barred] \in ConnRecord
  BY <1>1, <1>3, <1>4 DEF ConnRecord
<1>6. ConnTypes' /\ EvictionOutlivesRestart'
  <2> SUFFICES ASSUME NEW c \in DOMAIN conns'
               PROVE  conns'[c] \in ConnRecord /\ ~conns'[c].barred
    BY DEF ConnTypes, EvictionOutlivesRestart
  <2>1. CASE c = opened'
    BY <1>2, <1>3, <1>5, <2>1
  <2>2. CASE c # opened'
    BY <1>0, <1>2, <2>2 DEF ConnTypes, EvictionOutlivesRestart
  <2> QED BY <2>1, <2>2
<1>7. ClockTypes'
  BY <1>0, <1>2, IpLimitConstants DEF ClockTypes, limCore
<1> QED
  BY <1>2, <1>6, <1>7, LimitRest DEF limCore

LEMMA ConnStepKeeps ==
  ASSUME LimitInv, NEW c \in DOMAIN conns, Track(c) \/ Touch(c) \/ Untrack(c)
  PROVE  LimitInv'
<1>0. ClockTypes /\ ConnTypes /\ EvictionOutlivesRestart
  BY DEF LimitInv
<1>1. /\ UNCHANGED <<ticks, limCore, opened, managed, limitIp, stamped, ipBans, holders, heldGen, lease, scan, evicted, tenure>>
      /\ \/ conns' = [conns EXCEPT ![c].state = "tracked", ![c].at = monoNow, ![c].last = monoNow]
         \/ conns' = [conns EXCEPT ![c].last = monoNow]
         \/ conns' = Closing({c})
  BY DEF Track, Touch, Untrack
<1>2. monoNow \in Nat
  BY <1>0 DEF ClockTypes, monoNow
<1>3. conns[c] \in ConnRecord /\ ~conns[c].barred
  BY <1>0 DEF ConnTypes, EvictionOutlivesRestart
<1>4. \A d \in DOMAIN conns' : d \in DOMAIN conns /\ conns'[d] \in ConnRecord /\ ~conns'[d].barred
  <2> SUFFICES ASSUME NEW d \in DOMAIN conns'
               PROVE  d \in DOMAIN conns /\ conns'[d] \in ConnRecord /\ ~conns'[d].barred
    OBVIOUS
  <2>0. d \in DOMAIN conns
    BY <1>1 DEF Closing
  <2>1. conns[d] \in ConnRecord /\ ~conns[d].barred
    BY <1>0, <2>0 DEF ConnTypes, EvictionOutlivesRestart
  <2>2. CASE conns'[d] = conns[d]
    BY <2>0, <2>1, <2>2
  <2>3. CASE conns'[d] # conns[d]
    <3>1. \/ conns'[d] = [conns[d] EXCEPT !.state = "tracked", !.at = monoNow, !.last = monoNow]
          \/ conns'[d] = [conns[d] EXCEPT !.last = monoNow]
      BY <1>1, <2>0, <2>3 DEF Closing
    <3> QED BY <1>2, <2>0, <2>1, <3>1 DEF ConnRecord
  <2> QED BY <2>2, <2>3
<1>5. ConnTypes' /\ EvictionOutlivesRestart'
  BY <1>4 DEF ConnTypes, EvictionOutlivesRestart
<1>6. ClockTypes'
  BY <1>0, <1>1 DEF ClockTypes, limCore
<1> QED
  BY <1>1, <1>5, <1>6, LimitRest DEF limCore

LEMMA OperatorKeeps ==
  ASSUME LimitInv, \/ \E n \in 0 .. MaxLimit : SetLimitIp(n)
                   \/ \E bans \in SUBSET Addr : ApplyClusterBans(bans)
  PROVE  LimitInv'
<1>0. ClockTypes /\ ConnTypes /\ EvictionOutlivesRestart
  BY DEF LimitInv
<1>1. CASE \E n \in 0 .. MaxLimit : SetLimitIp(n)
  <2>1. PICK n \in 0 .. MaxLimit : SetLimitIp(n)
    BY <1>1
  <2>2. ConnTypes' /\ EvictionOutlivesRestart'
    BY <1>0, <2>1 DEF SetLimitIp, ConnTypes, EvictionOutlivesRestart
  <2>3. ClockTypes'
    BY <1>0, <2>1 DEF SetLimitIp, ClockTypes, limCore
  <2> QED BY <2>1, <2>2, <2>3, LimitRest DEF SetLimitIp, limCore
<1>2. CASE \E bans \in SUBSET Addr : ApplyClusterBans(bans)
  <2>1. PICK bans \in SUBSET Addr : ApplyClusterBans(bans)
    BY <1>2
  <2>2. ConnTypes' /\ EvictionOutlivesRestart'
    BY <2>1, CloseFacts DEF ApplyClusterBans
  <2>3. ClockTypes'
    BY <1>0, <2>1 DEF ApplyClusterBans, ClockTypes, limCore
  <2> QED BY <2>1, <2>2, <2>3, LimitRest DEF ApplyClusterBans, limCore
<1> QED
  BY <1>1, <1>2

LEMMA CoreStepKeeps ==
  ASSUME LimitInv, CoreDown \/ CoreUp \/ LimitTick
  PROVE  LimitInv'
<1>0. ClockTypes /\ ConnTypes /\ BanTypes /\ ScanTypes /\ EvictedIsBanned /\ HeldInv /\ EvictionOutlivesRestart
  BY DEF LimitInv
<1>1. CASE CoreDown
  <2>1. ClockTypes'
    BY <1>0, <1>1 DEF CoreDown, ClockTypes
  <2>2. ConnTypes' /\ EvictionOutlivesRestart'
    BY <1>1 DEF CoreDown, ConnTypes, EvictionOutlivesRestart
  <2> QED BY <1>1, <2>1, <2>2, LimitRest DEF CoreDown
<1>2. CASE CoreUp
  <2>1. ClockTypes'
    BY <1>0, <1>2, IpLimitConstants DEF CoreUp, ClockTypes
  <2>2. ConnTypes' /\ EvictionOutlivesRestart' /\ BanTypes' /\ EvictedIsBanned'
    BY <1>0, <1>2 DEF CoreUp, ConnTypes, EvictionOutlivesRestart, BanTypes, EvictedIsBanned
  <2>3. ScanTypes'
    BY <1>0, <1>2 DEF CoreUp, ScanTypes
  <2>4. HeldInv'
    <3>1. trackers \in Nat /\ heldGen \in Nat /\ heldGen <= trackers /\ trackers' = trackers + 1
      BY <1>0, <1>2 DEF CoreUp, HeldInv, ClockTypes
    <3>2. heldGen' # trackers' /\ heldGen' \in Nat /\ heldGen' <= trackers'
      BY <1>2, <3>1 DEF CoreUp
    <3> QED BY <1>0, <1>2, <3>2 DEF CoreUp, HeldInv
  <2> QED BY <2>1, <2>2, <2>3, <2>4 DEF LimitInv
<1>3. CASE LimitTick
  <2>1. ClockTypes'
    BY <1>0, <1>3, IpLimitConstants DEF LimitTick, ClockTypes, limCore
  <2>2. ConnTypes' /\ EvictionOutlivesRestart' /\ BanTypes'
    BY <1>0, <1>3 DEF LimitTick, ConnTypes, EvictionOutlivesRestart, BanTypes
  <2>3. ticks \in Nat /\ ticks' = ticks + 1
    BY <1>0, <1>3 DEF ClockTypes, LimitTick
  <2>4. EvictedIsBanned'
    <3> SUFFICES ASSUME NEW a \in Addr, evicted'[a].until > ticks'
                 PROVE  ipBans'[a] = evicted'[a]
      BY DEF EvictedIsBanned
    <3>1. evicted' = evicted /\ ipBans' = ipBans
      BY <1>3 DEF LimitTick
    <3>2. evicted[a].until \in Nat
      BY <1>0 DEF BanTypes, BanRecord
    <3>3. evicted[a].until > ticks
      BY <2>3, <3>1, <3>2
    <3> QED BY <1>0, <3>1, <3>3 DEF EvictedIsBanned
  <2>5. ScanTypes'
    <3>1. scan' = scan /\ heldGen' = heldGen
      BY <1>3 DEF LimitTick
    <3>2. scan'.unix <= ticks'
      BY <1>0, <2>3, <3>1 DEF ScanTypes
    <3> QED BY <1>0, <3>1, <3>2 DEF ScanTypes
  <2>6. HeldInv'
    BY <1>0, <1>3 DEF LimitTick, HeldInv, limCore
  <2> QED BY <2>1, <2>2, <2>4, <2>5, <2>6 DEF LimitInv
<1> QED
  BY <1>1, <1>2, <1>3

LEMMA BeginScanKeeps ==
  ASSUME LimitInv, BeginScan
  PROVE  LimitInv'
<1>0. ClockTypes /\ ConnTypes /\ BanTypes /\ ScanTypes /\ EvictedIsBanned /\ HeldInv /\ EvictionOutlivesRestart
  BY DEF LimitInv
<1>1. UNCHANGED <<ticks, limCore, conns, opened, managed, limitIp, lease>> /\ stamped' = (limitIp > 0) /\ scan.pc = "idle"
  BY DEF BeginScan
<1>2. ClockTypes' /\ ConnTypes' /\ EvictionOutlivesRestart'
  BY <1>0, <1>1 DEF ClockTypes, ConnTypes, EvictionOutlivesRestart, limCore
<1>3. ticks \in Nat /\ trackers \in Nat /\ epoch \in Nat /\ monoNow \in Nat
  BY <1>0 DEF ClockTypes, monoNow
<1>4. NoBan \in BanRecord /\ NoBan.until = 0
  BY DEF NoBan, BanRecord
<1> DEFINE limit == IF lease.managed /\ lease.until > ticks THEN 0 ELSE limitIp
<1>5. limit \in Nat
  BY <1>0, IpLimitConstants DEF ClockTypes
<1>6. CASE /\ holders' = <<>> /\ tenure' = <<>>
           /\ ipBans' = sweepLocked(ipBans, ticks, "unlimited", 0)
           /\ evicted' = [a \in Addr |-> NoBan]
           /\ UNCHANGED <<scan, heldGen>>
  <2>1. BanTypes'
    <3>1. ipBans' \in [Addr -> BanRecord] /\ Cardinality(Standings(ipBans')) <= Cardinality(Standings(ipBans))
      BY <1>0, <1>6, SweepFacts DEF BanTypes
    <3>2. Cardinality(Standings(ipBans)) \in Nat /\ Cardinality(Standings(ipBans')) \in Nat /\ BanMaxSize \in Nat
      BY Addresses, FS_Subset, FS_CardinalityType, IpLimitConstants DEF Standings
    <3>3. Cardinality(Standings(ipBans')) <= BanMaxSize
      BY <1>0, <3>1, <3>2 DEF BanTypes
    <3> QED BY <1>4, <1>6, <3>1, <3>3 DEF BanTypes, Standings
  <2>2. EvictedIsBanned'
    BY <1>1, <1>3, <1>4, <1>6 DEF EvictedIsBanned
  <2>3. ScanTypes'
    BY <1>0, <1>1, <1>6 DEF ScanTypes
  <2>4. HeldInv'
    BY <1>0, <1>1, <1>6 DEF HeldInv, limCore
  <2> QED BY <1>2, <2>1, <2>2, <2>3, <2>4 DEF LimitInv
<1>7. CASE /\ holders' = <<>> /\ tenure' = <<>>
           /\ ipBans' = sweepLocked(ipBans, ticks, "unseen", 0)
           /\ UNCHANGED <<scan, heldGen, evicted>>
  <2>1. BanTypes'
    <3>1. ipBans' \in [Addr -> BanRecord] /\ Cardinality(Standings(ipBans')) <= Cardinality(Standings(ipBans))
      BY <1>0, <1>7, SweepFacts DEF BanTypes
    <3>2. Cardinality(Standings(ipBans)) \in Nat /\ Cardinality(Standings(ipBans')) \in Nat /\ BanMaxSize \in Nat
      BY Addresses, FS_Subset, FS_CardinalityType, IpLimitConstants DEF Standings
    <3>3. Cardinality(Standings(ipBans')) <= BanMaxSize
      BY <1>0, <3>1, <3>2 DEF BanTypes
    <3> QED BY <1>0, <1>7, <3>1, <3>3 DEF BanTypes, Standings
  <2>2. EvictedIsBanned'
    <3> SUFFICES ASSUME NEW a \in Addr, evicted'[a].until > ticks'
                 PROVE  ipBans'[a] = evicted'[a]
      BY DEF EvictedIsBanned
    <3>1. evicted[a].until > ticks /\ evicted[a].until \in Nat /\ evicted'[a] = evicted[a]
      BY <1>0, <1>1, <1>7 DEF BanTypes, BanRecord
    <3>2. ipBans[a] = evicted[a]
      BY <1>0, <3>1 DEF EvictedIsBanned
    <3>3. ipBans'[a] = ipBans[a] \/ ticks >= ipBans[a].until
      BY <1>0, <1>7, SweepFacts DEF BanTypes
    <3> QED BY <1>3, <3>1, <3>2, <3>3
  <2>3. ScanTypes'
    BY <1>0, <1>1, <1>7 DEF ScanTypes
  <2>4. HeldInv'
    BY <1>0, <1>1, <1>7 DEF HeldInv, limCore
  <2> QED BY <1>2, <2>1, <2>2, <2>3, <2>4 DEF LimitInv
<1>8. CASE /\ scan' = [NoScan EXCEPT !.pc = "plan", !.limit = limit, !.unix = ticks,
                                     !.gen = trackers, !.now = monoNow, !.active = UserIPs]
           /\ holders' = beginScan(trackers) /\ heldGen' = trackers
           /\ UNCHANGED <<ipBans, evicted, tenure>>
  <2>1. BanTypes' /\ EvictedIsBanned'
    BY <1>0, <1>1, <1>8 DEF BanTypes, EvictedIsBanned, Standings
  <2>2. /\ DOMAIN scan' = {"pc", "limit", "unix", "gen", "now", "active", "kept", "dropped"}
        /\ scan'.pc = "plan" /\ scan'.limit = limit /\ scan'.unix = ticks /\ scan'.gen = trackers
        /\ scan'.kept = {} /\ scan'.dropped = {} /\ scan'.active = UserIPs
    BY <1>8 DEF NoScan
  <2>3. DOMAIN UserIPs \subseteq Addr /\ \A a \in DOMAIN UserIPs : UserIPs[a].first \in Nat
    BY <1>0, SnapshotFacts
  <2>4. Cardinality(scan'.kept) <= scan'.limit
    <3> HIDE DEF limit
    <3> QED BY <1>5, <2>2, FS_EmptySet
  <2>5. ScanTypes'
    <3> HIDE DEF limit
    <3> QED BY <1>1, <1>3, <1>5, <1>8, <2>2, <2>3, <2>4 DEF ScanTypes, limCore
  <2>6. HeldInv'
    <3>1. trackers' = trackers /\ heldGen' = trackers /\ tenure' = tenure
      BY <1>1, <1>8 DEF limCore
    <3>2. CASE heldGen = trackers
      <4>1. holders' = holders
        BY <1>8, <3>2 DEF beginScan
      <4> QED BY <1>0, <1>3, <3>1, <3>2, <4>1 DEF HeldInv
    <3>3. CASE heldGen # trackers
      <4>1. holders' = <<>>
        BY <1>8, <3>3 DEF beginScan
      <4>2. DOMAIN tenure = {} /\ DOMAIN holders' = {}
        BY <1>0, <3>3, <4>1 DEF HeldInv
      <4> QED BY <1>3, <3>1, <4>2 DEF HeldInv
    <3> QED BY <3>2, <3>3
  <2> QED BY <1>2, <2>1, <2>5, <2>6 DEF LimitInv
<1> QED
  BY <1>6, <1>7, <1>8 DEF BeginScan

\* The record of holders after a plan, and the tenures, are of the same addresses, with the
\* same times.
LEMMA RecordFacts ==
  ASSUME LimitInv, scan.pc = "plan", NEW kept, kept \subseteq DOMAIN scan.active, NEW dropped,
         kept \cap dropped = {}
  PROVE  /\ DOMAIN rememberHolders(kept, dropped) \subseteq Addr
         /\ \A a \in DOMAIN rememberHolders(kept, dropped) : rememberHolders(kept, dropped)[a].at \in Nat
         /\ heldGen = trackers =>
              /\ DOMAIN Tenures(kept, dropped) = DOMAIN rememberHolders(kept, dropped)
              /\ \A a \in DOMAIN rememberHolders(kept, dropped) :
                   /\ rememberHolders(kept, dropped)[a].at = Tenures(kept, dropped)[a].since
                   /\ rememberHolders(kept, dropped)[a].seen = Tenures(kept, dropped)[a].seen
<1>0. ScanTypes /\ HeldInv
  BY DEF LimitInv
<1> DEFINE owed == {a \in DOMAIN holders \ (kept \cup dropped) : scan.now - holders[a].seen <= HoldMemory}
           H == rememberHolders(kept, dropped)
           T == Tenures(kept, dropped)
<1>1. H = [a \in kept \cup owed |-> IF a \in kept THEN [at |-> Standing(a), seen |-> scan.now] ELSE holders[a]]
  BY DEF rememberHolders
<1>2. \A a \in kept : Standing(a) \in Nat
  BY <1>0 DEF Standing, ScanTypes, HeldInv
<1>3. DOMAIN H \subseteq Addr /\ \A a \in DOMAIN H : H[a].at \in Nat
  BY <1>0, <1>1, <1>2 DEF ScanTypes, HeldInv
<1>4. ASSUME heldGen = trackers
      PROVE  DOMAIN T = DOMAIN H /\ \A a \in DOMAIN H : H[a].at = T[a].since /\ H[a].seen = T[a].seen
  <2>1. DOMAIN tenure = DOMAIN holders /\ \A a \in DOMAIN holders : holders[a].at = tenure[a].since /\ holders[a].seen = tenure[a].seen
    BY <1>0, <1>4 DEF HeldInv
  <2> DEFINE was == DOMAIN tenure \ dropped
             away == {a \in was \ kept : scan.now - tenure[a].seen <= HoldMemory}
  <2>2. T = [a \in kept \cup away |->
               [since |-> IF a \in was THEN tenure[a].since ELSE scan.active[a].first,
                seen  |-> IF a \in kept THEN scan.now ELSE tenure[a].seen]]
    BY DEF Tenures
  <2>3. away = owed
    BY <2>1
  <2>4. DOMAIN T = DOMAIN H
    BY <1>1, <2>2, <2>3
  <2>5. ASSUME NEW a \in DOMAIN H
        PROVE  H[a].at = T[a].since /\ H[a].seen = T[a].seen
    <3>1. CASE a \in kept
      <4>1. H[a].at = Standing(a) /\ H[a].seen = scan.now
        BY <1>1, <3>1
      <4>2. T[a].since = (IF a \in was THEN tenure[a].since ELSE scan.active[a].first) /\ T[a].seen = scan.now
        BY <2>2, <3>1
      <4>3. Standing(a) = IF a \in was THEN tenure[a].since ELSE scan.active[a].first
        BY <2>1, <3>1 DEF Standing
      <4> QED BY <4>1, <4>2, <4>3
    <3>2. CASE a \notin kept
      <4>1. a \in owed /\ a \in was /\ H[a] = holders[a]
        BY <1>1, <2>1, <2>5, <3>2
      <4>2. T[a].since = tenure[a].since /\ T[a].seen = tenure[a].seen
        BY <2>2, <2>3, <3>2, <4>1
      <4> QED BY <2>1, <4>1, <4>2
    <3> QED BY <3>1, <3>2
  <2> HIDE DEF H, T
  <2> QED BY <2>4, <2>5
<1> QED
  BY <1>3, <1>4

LEMMA PlanKeeps ==
  ASSUME LimitInv, Plan
  PROVE  LimitInv'
<1>0. ClockTypes /\ ConnTypes /\ BanTypes /\ ScanTypes /\ EvictedIsBanned /\ HeldInv /\ EvictionOutlivesRestart
  BY DEF LimitInv
<1> DEFINE kept    == planIPLimit
           dropped == Candidates \ kept
           banned  == [a \in Addr |-> IF a \in dropped
                                      THEN [until |-> scan.unix + BanTTL, gen |-> scan.gen]
                                      ELSE ipBans[a]]
<1>1. /\ scan.pc = "plan"
      /\ IF dropped = {} THEN ipBans' = ipBans ELSE ipBans' \in evictBansLocked(banned, scan.unix)
      /\ holders' = rememberHolders(kept, dropped)
      /\ scan' = [scan EXCEPT !.pc = "close", !.kept = kept, !.dropped = dropped, !.active = <<>>, !.now = 0]
      /\ evicted' = [a \in Addr |-> IF a \in dropped \/ ipBans'[a] = NoBan THEN ipBans'[a] ELSE evicted[a]]
      /\ tenure' = IF scan.gen = trackers THEN Tenures(kept, dropped) ELSE <<>>
      /\ UNCHANGED <<ticks, limCore, opened, managed, conns, limitIp, stamped, heldGen, lease>>
  BY DEF Plan
<1>2. /\ kept \subseteq Candidates /\ Candidates \subseteq DOMAIN scan.active /\ DOMAIN scan.active \subseteq Addr
      /\ Cardinality(kept) <= scan.limit
  BY <1>1, PlanFacts
<1>3. kept \subseteq DOMAIN scan.active /\ kept \cap dropped = {} /\ dropped \subseteq Addr
  BY <1>2
<1> HIDE DEF kept, dropped
<1>4. ClockTypes' /\ ConnTypes' /\ EvictionOutlivesRestart'
  BY <1>0, <1>1 DEF ClockTypes, ConnTypes, EvictionOutlivesRestart, limCore
<1>5. banned \in [Addr -> BanRecord]
  BY <1>0, IpLimitConstants DEF BanTypes, ScanTypes, BanRecord
<1>6. /\ ipBans' \in [Addr -> BanRecord] /\ Cardinality(Standings(ipBans')) <= BanMaxSize
      /\ \A a \in Addr : a \in dropped \/ ipBans'[a] \in {NoBan, ipBans[a]}
  <2>1. CASE dropped = {}
    BY <1>0, <1>1, <2>1 DEF BanTypes
  <2>2. CASE dropped # {}
    <3>1. ipBans' \in evictBansLocked(banned, scan.unix)
      BY <1>1, <2>2
    <3>2. \A a \in Addr : a \in dropped \/ banned[a] = ipBans[a]
      OBVIOUS
    <3> HIDE DEF banned
    <3>3. /\ ipBans' \in [Addr -> BanRecord] /\ Cardinality(Standings(ipBans')) <= BanMaxSize
          /\ \A a \in Addr : ipBans'[a] \in {NoBan, banned[a]}
      BY <1>5, <3>1, EvictFacts
    <3> QED BY <3>2, <3>3
  <2> QED BY <2>1, <2>2
<1>7. BanTypes'
  <2>1. evicted' \in [Addr -> BanRecord]
    BY <1>0, <1>1, <1>6 DEF BanTypes
  <2> QED BY <1>6, <2>1 DEF BanTypes, Standings
<1>8. EvictedIsBanned'
  <2> SUFFICES ASSUME NEW a \in Addr, evicted'[a].until > ticks'
               PROVE  ipBans'[a] = evicted'[a]
    BY DEF EvictedIsBanned
  <2>1. evicted'[a] = IF a \in dropped \/ ipBans'[a] = NoBan THEN ipBans'[a] ELSE evicted[a]
    BY <1>1
  <2>2. CASE ~(a \in dropped \/ ipBans'[a] = NoBan)
    <3>1. ipBans'[a] = ipBans[a] /\ evicted'[a] = evicted[a] /\ ticks' = ticks
      BY <1>1, <1>6, <2>1, <2>2
    <3> QED BY <1>0, <3>1 DEF EvictedIsBanned
  <2> QED BY <2>1, <2>2
<1>9. ScanTypes'
  <2>1. /\ DOMAIN scan' = {"pc", "limit", "unix", "gen", "now", "active", "kept", "dropped"}
        /\ scan'.pc = "close" /\ scan'.limit = scan.limit /\ scan'.unix = scan.unix /\ scan'.gen = scan.gen
        /\ scan'.kept = kept /\ scan'.dropped = dropped
    BY <1>0, <1>1 DEF ScanTypes
  <2>2. kept \subseteq Addr
    BY <1>2
  <2> QED BY <1>0, <1>1, <1>2, <1>3, <2>1, <2>2 DEF ScanTypes
<1>10. HeldInv'
  <2>1. scan.gen = heldGen /\ trackers' = trackers /\ heldGen' = heldGen
    BY <1>0, <1>1 DEF ScanTypes, limCore
  <2>2. /\ DOMAIN holders' \subseteq Addr /\ \A a \in DOMAIN holders' : holders'[a].at \in Nat
        /\ heldGen = trackers =>
             /\ DOMAIN Tenures(kept, dropped) = DOMAIN holders'
             /\ \A a \in DOMAIN holders' : /\ holders'[a].at = Tenures(kept, dropped)[a].since
                                           /\ holders'[a].seen = Tenures(kept, dropped)[a].seen
    BY <1>1, <1>3, RecordFacts
  <2>3. tenure' = IF heldGen = trackers THEN Tenures(kept, dropped) ELSE <<>>
    BY <1>1, <2>1
  <2> QED BY <1>0, <2>1, <2>2, <2>3 DEF HeldInv
<1> QED
  BY <1>4, <1>7, <1>8, <1>9, <1>10 DEF LimitInv

LEMMA EndScanKeeps ==
  ASSUME LimitInv, EndScan
  PROVE  LimitInv'
<1>0. ClockTypes /\ ConnTypes /\ BanTypes /\ ScanTypes /\ EvictedIsBanned /\ HeldInv /\ EvictionOutlivesRestart
  BY DEF LimitInv
<1> DEFINE capped == IF Cardinality(scan.kept) >= scan.limit \/ scan.dropped # {} THEN "capped" ELSE "under"
<1>1. /\ scan.pc = "close" /\ conns' = CloseConnByUserIPs(scan.dropped, scan.gen)
      /\ ipBans' = sweepLocked(ipBans, scan.unix, capped, scan.gen)
      /\ evicted' = [a \in Addr |-> IF capped = "under" /\ evicted[a].gen = scan.gen THEN NoBan ELSE evicted[a]]
      /\ scan' = NoScan
      /\ UNCHANGED <<ticks, limCore, opened, managed, limitIp, stamped, holders, heldGen, lease, tenure>>
  BY DEF EndScan
<1>2. capped # "unlimited"
  OBVIOUS
<1> HIDE DEF capped
<1>3. ClockTypes' /\ ConnTypes' /\ EvictionOutlivesRestart'
  <2>1. ConnTypes' /\ EvictionOutlivesRestart'
    BY <1>1, CloseFacts
  <2> QED BY <1>0, <1>1, <2>1 DEF ClockTypes, limCore
<1>4. NoBan \in BanRecord /\ NoBan.until = 0
  BY DEF NoBan, BanRecord
<1>5. BanTypes'
  <2>1. ipBans' \in [Addr -> BanRecord] /\ Cardinality(Standings(ipBans')) <= Cardinality(Standings(ipBans))
    BY <1>0, <1>1, SweepFacts DEF BanTypes
  <2>2. Cardinality(Standings(ipBans)) \in Nat /\ Cardinality(Standings(ipBans')) \in Nat /\ BanMaxSize \in Nat
    BY Addresses, FS_Subset, FS_CardinalityType, IpLimitConstants DEF Standings
  <2>3. Cardinality(Standings(ipBans')) <= BanMaxSize
    BY <1>0, <2>1, <2>2 DEF BanTypes
  <2>4. evicted' \in [Addr -> BanRecord]
    BY <1>0, <1>1, <1>4 DEF BanTypes
  <2> QED BY <2>1, <2>3, <2>4 DEF BanTypes, Standings
<1>6. EvictedIsBanned'
  <2> SUFFICES ASSUME NEW a \in Addr, evicted'[a].until > ticks'
               PROVE  ipBans'[a] = evicted'[a]
    BY DEF EvictedIsBanned
  <2>1. ticks' = ticks /\ ticks \in Nat /\ scan.unix \in Nat /\ scan.unix <= ticks
    BY <1>0, <1>1 DEF ClockTypes, ScanTypes
  <2>2. ~(capped = "under" /\ evicted[a].gen = scan.gen) /\ evicted'[a] = evicted[a]
    BY <1>1, <1>4, <2>1
  <2>3. ipBans[a] = evicted[a]
    BY <1>0, <2>1, <2>2 DEF EvictedIsBanned
  <2>4. \/ ipBans'[a] = ipBans[a] \/ scan.unix >= ipBans[a].until
    BY <1>0, <1>1, <1>2, <2>2, <2>3, SweepFacts DEF BanTypes
  <2>5. evicted[a].until \in Nat /\ evicted[a].until > ticks
    BY <1>0, <2>1, <2>2 DEF BanTypes, BanRecord
  <2> QED BY <2>1, <2>2, <2>3, <2>4, <2>5
<1>7. ScanTypes'
  <2>1. Cardinality({}) = 0
    BY FS_EmptySet
  <2>2. ticks' \in Nat
    BY <1>0, <1>1 DEF ClockTypes
  <2> QED BY <1>1, <2>1, <2>2 DEF ScanTypes, NoScan
<1>8. HeldInv'
  BY <1>0, <1>1 DEF HeldInv, limCore
<1> QED
  BY <1>3, <1>5, <1>6, <1>7, <1>8 DEF LimitInv

LEMMA LimitInductive == LimitSpec => []LimitInv
<1>1. LimitInv /\ [LimitNext]_limVars => LimitInv'
  <2> SUFFICES ASSUME LimitInv, [LimitNext]_limVars
               PROVE  LimitInv'
    OBVIOUS
  <2>1. CASE UNCHANGED limVars
    <3>1. ClockTypes' /\ ConnTypes' /\ EvictionOutlivesRestart'
      BY <2>1 DEF limVars, limCore, LimitInv, ClockTypes, ConnTypes, EvictionOutlivesRestart
    <3> QED BY <2>1, <3>1, LimitRest DEF limVars, limCore
  <2> QED
    BY <2>1, GateKeeps, ConnStepKeeps, CoreStepKeeps, OperatorKeeps, BeginScanKeeps, PlanKeeps, EndScanKeeps
    DEF LimitNext, LimitScan
<1> QED
  BY <1>1, LimitInitial, PTL DEF LimitSpec

\* For any addresses, limits, times and number of restarts: the tables keep their bounds, an eviction
\* is in force on the trackers after the one that made it, and a plan takes no slot from an address
\* with a longer tenure than one it gives a slot to.
THEOREM LimitIsSafe == LimitSpec => LimitSafety
<1>1. LimitInv => LimitTypeOK /\ EvictionOutlivesRestart
  BY DEF LimitInv, LimitTypeOK, ClockTypes, ConnTypes, ConnRecord, BanTypes, Standings, ScanTypes, HeldInv
<1> DEFINE Senior == scan.pc = "plan" /\ scan'.pc = "close" /\ scan.gen = trackers =>
                       \A a \in scan'.dropped \cap DOMAIN tenure, b \in scan'.kept :
                         IF b \in DOMAIN tenure
                         THEN tenure[b].since <= tenure[a].since
                         ELSE scan.active[b].first <= tenure[a].since
<1>2. LimitInv /\ [LimitNext]_limVars => [Senior]_limVars
  <2> SUFFICES ASSUME LimitInv, LimitNext, scan.pc = "plan", scan'.pc = "close", scan.gen = trackers,
                      NEW a \in scan'.dropped \cap DOMAIN tenure, NEW b \in scan'.kept
               PROVE  IF b \in DOMAIN tenure
                      THEN tenure[b].since <= tenure[a].since
                      ELSE scan.active[b].first <= tenure[a].since
    OBVIOUS
  <2>1. Plan
    BY DEF LimitNext, LimitScan, Gate, Track, Touch, Untrack, CoreDown, CoreUp, LimitTick, SetLimitIp, BeginScan,
           EndScan, ApplyClusterBans
  <2>2. scan'.kept = planIPLimit /\ scan'.dropped = Candidates \ planIPLimit
    BY <2>1 DEF Plan, LimitInv, ScanTypes
  <2>3. Standing(b) <= Standing(a) /\ b \in Candidates
    BY <2>2, PlanFacts
  <2>4. heldGen = trackers
    BY DEF LimitInv, ScanTypes
  <2>5. DOMAIN tenure = DOMAIN holders /\ \A x \in DOMAIN holders : holders[x].at = tenure[x].since
    BY <2>4 DEF LimitInv, HeldInv
  <2>6. Standing(a) = tenure[a].since
    BY <2>5 DEF Standing
  <2>7. Standing(b) = IF b \in DOMAIN tenure THEN tenure[b].since ELSE scan.active[b].first
    BY <2>5 DEF Standing
  <2> QED BY <2>3, <2>6, <2>7
<1> QED
  BY <1>1, <1>2, LimitInductive, PTL DEF LimitSpec, LimitSafety, SeniorityHolds
=============================================================================
