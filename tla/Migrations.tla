------------------------------ MODULE Migrations ------------------------------
(***************************************************************************)
(* The repairs a start-up makes to the database: the version ladder of     *)
(* cmd/migration, one transaction whose failure is only logged, and then   *)
(* the one-shot rewrites of InitDB (database/migration_*.go), each in a    *)
(* transaction of its own with a flag row, whose failure keeps the panel   *)
(* from starting; GetAllSetting writes the version row when there is none. *)
(* Any transaction may fail, the process may be killed between two, the    *)
(* binary is replaced by newer ones and old databases are imported.        *)
(***************************************************************************)
EXTENDS Integers, Sequences, FiniteSets, SequencesExt

CONSTANTS
    Stored,         \* databases an installation may start from, and that may be imported
    Binaries,       \* versions of the binary, tuples of naturals
    MigFaults,      \* bound: transactions that fail
    MigDowns,       \* bound: restarts and kills
    MigImports,     \* bound: imports
    MigSaves        \* bound: saves of the operator

VARIABLES
    data,       \* the database
    behind,     \* the database an import keeps to go back to, or NoData
    binary,     \* version of the binary
    stage,      \* what the process does: "down", "ladder", a step of InitDB, "stamp", "up"
    fresh,      \* snell keys handed out so far
    migFaults, migDowns, migImports, migSaves

migVars == <<data, behind, binary, stage, fresh, migFaults, migDowns, migImports, migSaves>>

NoData == [ver |-> <<>>]

(***************************************************************************)
(* A database: its version row (<<>> without one) and flag rows, and, for  *)
(* each kind of repair, the shape one row of that kind is stored in.       *)
(*   place, experimental, rules, config   whether the objects are still in *)
(*                         config.json, what that file has, the base conf. *)
(*   inbs, index, tlscol, inboundData   client inbounds as text, tags or   *)
(*                         ids; columns and a table 1.2 drops              *)
(*   anytls, snell, pw     a client's keys (0: none), the admin's password *)
(*   dns, strategy         legacy DNS server addresses and strategies      *)
(*   leaked, pin, port, ports   TLS and port shapes of 1.5 and 1.8         *)
(*   cache, rdrc, detour, client, final, dflt   the base config            *)
(*   tls, providers        TLS configs in id order, the shared providers   *)
(*   oldwin, quic          a hysteria window under its two names           *)
(*   tun, ech, reset       removed options, the client's reset schedule    *)
(*   ran, skipped          ghosts: the ladder ran through on this database *)
(*                         and it was stamped although it had not          *)
(***************************************************************************)
Flags == {"singbox114", "certProviders", "httpClientFix", "explicitClients", "hysteriaQuic",
          "removedOptions", "serverECH", "resetSchedule"}

-----------------------------------------------------------------------------
(* versionBefore: missing segments count as zero. *)
Segment(v, i) == IF i <= Len(v) THEN v[i] ELSE 0
Longer(a, b) == IF Len(a) > Len(b) THEN Len(a) ELSE Len(b)

\* versionBefore, deciding on the first segment only
versionBeforeMajor(a, b) == Segment(a, 1) < Segment(b, 1)

versionBefore(a, b) ==
    \E i \in 1 .. Longer(a, b) :
        /\ Segment(a, i) < Segment(b, i)
        /\ \A j \in 1 .. i - 1 : Segment(a, j) = Segment(b, j)

-----------------------------------------------------------------------------
(* The ladder.  Each rung answers the repaired database, or Refused where  *)
(* the code returns an error whatever the disk does.                       *)
Refused == [ver |-> <<"refused">>]

\* The client columns become JSON.
migrateClientSchema(d) == [d EXCEPT !.inbs = IF @ = "text" THEN "tags" ELSE @]
to1_1(d) == migrateClientSchema(d)

\* A rule to a block or dns outbound, which are gone, becomes an action.
RuleAction(out) == IF out = "block" THEN "reject" ELSE IF out = "dns" THEN "hijack-dns" ELSE "route"

\* The objects of the old config.json become rows; without the experimental section
\* the code panics, which migrateDb turns into an error.
moveJsonToDb(d) ==
    IF d.place # "file" THEN d
    ELSE IF ~ d.experimental THEN Refused
    ELSE [d EXCEPT !.place = "tables", !.config = TRUE,
                   !.rules = [i \in DOMAIN @ |-> RuleAction(@[i])]
                             \o (IF "dns" \in ToSet(@) THEN <<"sniff">> ELSE <<>>)]
migrateTls(d) == [d EXCEPT !.tlscol = FALSE]
dropInboundData(d) == [d EXCEPT !.inboundData = FALSE]
\* Clients that are stored by id already cannot be read as tags: an error.
migrateClients(d) == IF d.inbs = "ids" THEN Refused ELSE [d EXCEPT !.inbs = "ids"]
migrateChanges(d) == [d EXCEPT !.index = FALSE]

to1_2(d0) ==
    LET d1 == moveJsonToDb(d0)
        d2 == IF d1 = Refused THEN d1 ELSE migrateClients(dropInboundData(migrateTls(d1)))
    IN  IF d2 = Refused THEN d2 ELSE migrateChanges(d2)

anytls_user_config(d) == [d EXCEPT !.anytls = TRUE]
\* A legacy address becomes a type and a server; a database without a base config is an error.
migrate_dns(d) == IF ~ d.config THEN Refused ELSE [d EXCEPT !.dns = "typed"]
remove_outbound_strategy(d) == [d EXCEPT !.strategy = FALSE]
to1_3(d) ==
    LET d1 == migrate_dns(anytls_user_config(d))
    IN  IF d1 = Refused THEN d1 ELSE remove_outbound_strategy(d1)

\* applyTlsPin: a self-signed certificate's pin replaces the certificate and its path.
applyTlsPin(d) ==
    IF d.selfSigned THEN [d EXCEPT !.pin = "current", !.leaked = FALSE]
    ELSE [d EXCEPT !.pin = "none"]
to1_5_1(d) == applyTlsPin(d)

to1_5_2(d) == [d EXCEPT !.pw = "hashed"]
to1_5_7(d) == [d EXCEPT !.leaked = FALSE]

\* A client that has a snell block keeps it; the others get one.
to1_8_1(d, key) == [d EXCEPT !.snell = IF @ = 0 THEN key ELSE @]

\* What is no port is left alone on an outbound, and dropped from an inbound's ranges.
repairOutboundPorts(d) == [d EXCEPT !.port = IF @ = "string" THEN "number" ELSE @]
repairInboundPortRanges(d) ==
    [d EXCEPT !.ports = IF @ = "bare" THEN "range" ELSE IF @ = "junk" THEN "absent" ELSE @]
to1_8_2(d) == repairInboundPortRanges(repairOutboundPorts(d))

\* A rung runs when its gate is open and nothing below it was refused.
Rung(d, open, after) == IF d = Refused \/ ~ open THEN d ELSE after

\* migrateDb: the version compared is the one the database came with, but for a database
\* without one, which counts as 1.2 once the first two rungs are done.
Ladder(d0, key) ==
    LET first == d0.ver = <<>>
        ver == IF first THEN <<1, 2>> ELSE d0.ver
        d2 == Rung(d0, first, to1_2(to1_1(d0)))
        d3 == Rung(d2, Segment(ver, 1) = 1 /\ Segment(ver, 2) = 2, to1_3(d2))
        d4 == Rung(d3, versionBefore(ver, <<1, 5, 4>>), to1_5_2(to1_5_1(d3)))
        d5 == Rung(d4, versionBefore(ver, <<1, 5, 7>>), to1_5_7(d4))
        d6 == Rung(d5, versionBefore(ver, <<1, 8, 1>>), to1_8_1(d5, key))
    IN  Rung(d6, versionBefore(ver, <<1, 8, 2>>), to1_8_2(d6))

-----------------------------------------------------------------------------
(* The rule-set's download: a legacy detour, a client, or neither.  An     *)
(* outbound is "proxy", "bound" (a direct one with options), or "plain" (a *)
(* direct one without, which no detour may name); "gone" is a tag nothing  *)
(* has.  A client is none, the direct one, <<"via", outbound>>, or what an *)
(* earlier build wrote, <<"flagged", outbound>>.                           *)
NoClient == <<"none">>
DirectHTTPClient == <<"direct">>
Via(out) == <<"via", out>>

\* A detour to an optionless direct outbound becomes the direct client.
ClientFor(out) == IF out = "plain" THEN DirectHTTPClient ELSE Via(out)

\* The outbound the core takes as its default: route.final, or the first outbound.
DefaultOutbound(d) == IF d.final = "" THEN d.first ELSE d.final

migrateDNSSection(d) == [d EXCEPT !.cache = FALSE]
migrateExperimentalSection(d) == [d EXCEPT !.dnsStore = @ \/ d.rdrc = "on", !.rdrc = "absent"]
\* A client that is there wins over the legacy detour.
migrateRouteSection(d) ==
    [d EXCEPT !.detour = "",
              !.client = IF d.detour = "" \/ @ # NoClient THEN @ ELSE ClientFor(d.detour)]
migrateSingBox114Config(d) ==
    IF d.config THEN migrateRouteSection(migrateExperimentalSection(migrateDNSSection(d))) ELSE d

\* An inline acme block becomes the certificate provider, unless there is one.
migrateSingBox114Tls(d) ==
    [d EXCEPT !.tls = [i \in DOMAIN @ |->
        IF @[i].acme = 0 THEN @[i]
        ELSE [@[i] EXCEPT !.acme = 0,
                          !.prov = IF @ = <<"none">> THEN <<"inline", d.tls[i].acme>> ELSE @]]]
migrateSingBox114(d) == migrateSingBox114Tls(migrateSingBox114Config(d))

Inline(t) == t.prov[1] = "inline"

\* The base name, or the first of base-2, base-3, ... that is free.
uniqueProviderTag(base, taken) ==
    <<base, CHOOSE n \in 1 .. Cardinality(taken) + 1 :
                /\ <<base, n>> \notin taken
                /\ \A m \in 1 .. n - 1 : <<base, m>> \in taken>>

\* One TLS config after the other: an inline provider moves to the shared list.
Hoist(d, i) ==
    IF ~ Inline(d.tls[i]) THEN d
    ELSE LET tag == uniqueProviderTag(d.tls[i].name, {p.tag : p \in ToSet(d.providers)})
         IN  [d EXCEPT !.providers = Append(@, [tag |-> tag, key |-> d.tls[i].prov[2]]),
                       !.tls[i].prov = <<"tag", tag>>]
HoistUpTo(d) ==
    LET h[i \in 0 .. Len(d.tls)] == IF i = 0 THEN d ELSE Hoist(h[i - 1], i) IN h[Len(d.tls)]
migrateCertificateProviders(d) == IF d.config THEN HoistUpTo(d) ELSE d

\* The internal flag goes, and with it a detour to a plain direct outbound.
repairRuleSetList(d) ==
    IF d.client \in {NoClient, DirectHTTPClient} THEN d ELSE [d EXCEPT !.client = ClientFor(@[2])]
repairRuleSetHTTPClients(d) == IF d.config THEN repairRuleSetList(d) ELSE d

\* The download path the rule-set is already taking is written out.
migrateExplicitRuleSetHTTPClients(d) ==
    IF ~ d.config \/ ~ d.remote THEN d
    ELSE IF d.client # NoClient THEN [d EXCEPT !.detour = ""]
    ELSE IF d.detour # "" THEN [d EXCEPT !.detour = "", !.client = ClientFor(d.detour)]
    ELSE IF d.dflt \/ DefaultOutbound(d) = "gone" THEN d
    ELSE [d EXCEPT !.client = ClientFor(DefaultOutbound(d))]

\* renameQUICFields: a QUIC field that is set wins, and an empty old one adds nothing.
\* 0 stands for an empty value, -1 for an absent one.
migrateHysteriaQUICFields(d) ==
    IF d.oldwin = -1 THEN d
    ELSE [d EXCEPT !.oldwin = -1,
                   !.quic = IF @ > 0 THEN @ ELSE IF d.oldwin > 0 THEN d.oldwin ELSE @]

clearRemovedTunOptions(d) == [d EXCEPT !.tun = FALSE]
\* Only the client side of a TLS config.
clearRemovedECHOptions(d) == [d EXCEPT !.ech = @ \ {"client"}]
migrateRemovedOptions(d) == clearRemovedECHOptions(clearRemovedTunOptions(d))

legacyECHColumns == {"server", "client", "outJson", "outbound", "endpoint", "service"}
clearLegacyECHConfig(d) == IF d.config THEN [d EXCEPT !.ech = @ \ {"config"}] ELSE d
migrateRemovedServerECH(d) == clearLegacyECHConfig([d EXCEPT !.ech = @ \ legacyECHColumns])

\* Without auto reset a client has no period and no delayed start.
migrateResetSchedule(d) ==
    IF d.reset.auto THEN d ELSE [d EXCEPT !.reset = [auto |-> FALSE, delay |-> FALSE, days |-> 0]]

\* InitDB's order: the first two and the next two depend on it.
InitOrder == <<"singbox114", "certProviders", "httpClientFix", "explicitClients", "hysteriaQuic",
               "removedOptions", "serverECH", "resetSchedule">>

\* The steps InitDB takes after opening the file.
InitSteps == InitOrder

Rewritten(d, step) ==
    CASE step = "singbox114" -> migrateSingBox114(d)
      [] step = "certProviders" -> migrateCertificateProviders(d)
      [] step = "httpClientFix" -> repairRuleSetHTTPClients(d)
      [] step = "explicitClients" -> migrateExplicitRuleSetHTTPClients(d)
      [] step = "hysteriaQuic" -> migrateHysteriaQUICFields(d)
      [] step = "removedOptions" -> migrateRemovedOptions(d)
      [] step = "serverECH" -> migrateRemovedServerECH(d)
      [] step = "resetSchedule" -> migrateResetSchedule(d)

\* A step that has its flag row does nothing; the rewrite and the row are one transaction.
OneShot(d, step) ==
    IF step \in d.flags THEN d ELSE [Rewritten(d, step) EXCEPT !.flags = @ \cup {step}]

-----------------------------------------------------------------------------
(* The process. *)
MigrationTypeOK ==
    /\ data.flags \subseteq Flags /\ binary \in Binaries
    /\ data.ver = <<>> \/ ~ versionBefore(binary, data.ver)
    /\ stage \in {<<"down">>, <<"ladder">>, <<"stamp">>, <<"up">>} \cup ({"init"} \X DOMAIN InitSteps)
    /\ behind # NoData => stage[1] \in {"ladder", "init"}

MigrationInit ==
    /\ data \in Stored /\ behind = NoData /\ binary \in Binaries
    /\ stage = <<"down">> /\ fresh = 0
    /\ migFaults = 0 /\ migDowns = 0 /\ migImports = 0 /\ migSaves = 0

MigFault == migFaults < MigFaults /\ migFaults' = migFaults + 1

BootPanel ==
    /\ stage = <<"down">> /\ stage' = <<"ladder">>
    /\ UNCHANGED <<data, behind, binary, fresh, migFaults, migDowns, migImports, migSaves>>

\* An import that fails anywhere puts the old database back.
ImportFails ==
    /\ behind # NoData /\ data' = behind /\ behind' = NoData /\ stage' = <<"up">>

\* migrateDb: nothing to do, done (the version row, if there is one, is written), or
\* rolled back; at start-up a failure is logged and the start goes on.
MigrateDb ==
    /\ stage = <<"ladder">>
    /\ LET next == Ladder(data, fresh + 1)
           stamped == IF data.ver = <<>> THEN <<>> ELSE binary
       IN  \/ /\ data.ver = binary /\ stage' = <<"init", 1>>
              /\ UNCHANGED <<data, behind, fresh, migFaults>>
           \/ /\ data.ver # binary /\ next # Refused
              /\ data' = [next EXCEPT !.ver = stamped, !.ran = TRUE] /\ fresh' = fresh + 1
              /\ stage' = <<"init", 1>> /\ UNCHANGED <<behind, migFaults>>
           \/ /\ data.ver # binary
              /\ IF next = Refused THEN UNCHANGED migFaults ELSE MigFault
              /\ IF behind = NoData
                 THEN stage' = <<"init", 1>> /\ UNCHANGED <<data, behind>>
                 ELSE ImportFails
              /\ UNCHANGED fresh
    /\ UNCHANGED <<binary, migDowns, migImports, migSaves>>

\* One step of InitDB; at start-up a failure ends the process.
InitDB ==
    /\ stage[1] = "init"
    /\ \/ /\ data' = OneShot(data, InitSteps[stage[2]])
          /\ IF stage[2] < Len(InitSteps)
             THEN stage' = <<"init", stage[2] + 1>> /\ UNCHANGED behind
             ELSE stage' = (IF behind = NoData THEN <<"stamp">> ELSE <<"up">>) /\ behind' = NoData
          /\ UNCHANGED migFaults
       \/ /\ MigFault
          /\ IF behind = NoData THEN stage' = <<"down">> /\ UNCHANGED <<data, behind>>
                                ELSE ImportFails
    /\ UNCHANGED <<binary, fresh, migDowns, migImports, migSaves>>

WithVersion(d) == [d EXCEPT !.ver = binary, !.skipped = ~ d.ran]

\* GetAllSetting writes the default of every row there is not, the version's among them.
StampVersion ==
    /\ stage = <<"stamp">> /\ stage' = <<"up">>
    /\ data' = IF data.ver = <<>> THEN WithVersion(data) ELSE data
    /\ UNCHANGED <<behind, binary, fresh, migFaults, migDowns, migImports, migSaves>>

\* The settings page asks for the settings of a running panel, an imported one too.
ReadSettings ==
    /\ stage = <<"up">> /\ data.ver = <<>> /\ data' = WithVersion(data)
    /\ UNCHANGED <<behind, binary, stage, fresh, migFaults, migDowns, migImports, migSaves>>

\* ImportDB on another installation's database, whose keys are its own.
ImportOld(d) ==
    /\ stage = <<"up">> /\ migImports < MigImports /\ migImports' = migImports + 1
    /\ behind' = data /\ data' = d /\ stage' = <<"ladder">>
    /\ UNCHANGED <<binary, fresh, migFaults, migDowns, migSaves>>

\* The base config is refused with either deprecated form of a download.
checkRuleSetDownloads(d) == d.detour = "" /\ (d.client # NoClient \/ d.dflt)

\* The operator saves the base config with another download for the rule-set.
OperatorSaves ==
    /\ stage = <<"up">> /\ data.config /\ migSaves < MigSaves /\ migSaves' = migSaves + 1
    /\ \E c \in {NoClient, DirectHTTPClient, Via("proxy"), Via("bound")}, o \in {"", "proxy"} :
          /\ data' = [data EXCEPT !.client = c, !.detour = o]
          /\ checkRuleSetDownloads(data')
    /\ UNCHANGED <<behind, binary, stage, fresh, migFaults, migDowns, migImports>>

\* The process ends; the binary may be replaced before the next start.
GoesDown ==
    /\ stage # <<"down">> /\ migDowns < MigDowns /\ migDowns' = migDowns + 1
    /\ stage' = <<"down">> /\ behind' = NoData
    /\ binary' \in Binaries /\ (binary' = binary \/ versionBefore(binary, binary'))
    /\ UNCHANGED <<data, fresh, migFaults, migImports, migSaves>>

MigrationNext ==
    \/ BootPanel \/ MigrateDb \/ InitDB \/ StampVersion \/ ReadSettings \/ OperatorSaves
    \/ GoesDown \/ \E d \in Stored : ImportOld(d)

-----------------------------------------------------------------------------
(* Properties. *)

\* How the rule-set is downloaded: sing-box's reading of the stored forms.
DownloadPath(d) ==
    IF d.client = DirectHTTPClient THEN "direct"
    ELSE IF d.client # NoClient THEN (IF d.client[2] = "plain" THEN "direct" ELSE d.client[2])
    ELSE IF d.detour # "" THEN (IF d.detour = "plain" THEN "direct" ELSE d.detour)
    ELSE IF d.dflt THEN "default client"
    ELSE IF DefaultOutbound(d) = "plain" THEN "direct" ELSE DefaultOutbound(d)

\* No migration, in whatever order kills and imports let them run, changes the
\* way a rule-set is downloaded: one that went direct still does.
DownloadPathKept ==
    [][MigrateDb \/ InitDB => (data' = behind \/ DownloadPath(data') = DownloadPath(data))]_migVars

\* A panel that is up has no stored form sing-box refuses or has removed: no
\* rule-set on a deprecated download, no flagged client, no ECH option anywhere,
\* no hysteria window under its old name.
UpIsAcceptable ==
    stage = <<"up">> =>
        /\ (data.config /\ data.remote) =>
              /\ data.detour = ""
              /\ data.client = NoClient => (data.dflt \/ DefaultOutbound(data) = "gone")
              /\ data.client \notin {<<"flagged", o>> : o \in {"proxy", "bound", "plain"}}
              /\ data.client # Via("plain")
        /\ data.ech = {} /\ data.oldwin = -1

\* Every provider a TLS config had, inline or as an acme block, is reachable
\* from it once the panel is up, in the shared list and under a tag of its own.
ProvidersReachable ==
    (stage = <<"up">> /\ data.config) =>
        \A i \in DOMAIN data.tls :
            LET t == data.tls[i] IN
            /\ t.acme = 0 /\ ~ Inline(t)
            /\ t.key # 0 => \E p \in ToSet(data.providers) :
                               t.prov = <<"tag", p.tag>> /\ p.key = t.key
                               /\ Cardinality({q \in DOMAIN data.providers :
                                                 data.providers[q].tag = p.tag}) = 1

\* A snell key in use is never rotated by a start or an upgrade.
KeyNeverRotates ==
    [][(data.snell # 0 /\ behind' = behind) => data'.snell = data.snell]_migVars

\* Once the ladder has gone through, the client's inbounds, keys, passwords and
\* ports are in today's shape whenever the panel is up, unless the database had
\* been stamped before.
RepairedWhenUp ==
    (stage = <<"up">> /\ data.ran /\ ~ data.skipped) =>
        /\ data.inbs = "ids" /\ data.snell # 0 /\ data.pw = "hashed" /\ ~ data.leaked
        /\ data.port # "string" /\ data.ports \notin {"bare", "junk"}
        /\ data.dns = "typed" /\ data.place = "tables"
        /\ \A i \in DOMAIN data.rules : data.rules[i] \notin {"block", "dns"}

\* A ladder that failed is tried again by the next start (decodeOptions: "a
\* rolled-back transaction that repeats on every start-up"): a database carries
\* the running version only when its repairs went through.
StampedIsRepaired ==
    data.ver = binary => (data.snell # 0 /\ data.pw = "hashed" /\ data.inbs = "ids")

\* The repairs, in one: whatever order starts, kills, imports and upgrades let them run
\* in, they end in a form the core takes and change nothing that was right.
MigrationSafety ==
    /\ [](MigrationTypeOK /\ UpIsAcceptable /\ ProvidersReachable /\ RepairedWhenUp)
    /\ DownloadPathKept /\ KeyNeverRotates
=============================================================================
