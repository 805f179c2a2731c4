------------------------------ MODULE VhostSync ------------------------------
(***************************************************************************)
(* The reverse-proxy blocks the panel writes for nginx and the             *)
(* certificates they need: the settings page's save protocol               *)
(* (frontend/src/views/Settings.vue), SyncVhosts / EnsureVhost /           *)
(* CheckVhosts and the ACME validation block (service/acme.go), the        *)
(* start-up reconciliation (app/app.go) and the certificate requests       *)
(* (api/apiService.go, service/cert.go).  nginx itself is external: a      *)
(* reload loads what is on disk when that is valid and leaves the running  *)
(* configuration alone otherwise.                                          *)
(***************************************************************************)
EXTENDS Naturals, Sequences, FiniteSets, SequencesExt

CONSTANTS
    Domain,         \* domain names, a set of strings
    VhostForms,     \* what the settings page may hold: a set of [Sides -> [on, dom, port, cert]]
    OwnBlock,       \* domains the administrator serves on 443 from a file of their own
    OwnPath,        \* the certificate path that is not under /root/cert
    VhostSaves,     \* bound: saves of the settings page
    VhostFaults,    \* bound: nginx commands that fail
    VhostIssues     \* bound: certificate requests

Sides == {"web", "sub"}
Unset == ""     \* no domain, no path
NoFile == [eps |-> <<>>, cert |-> Unset]
CertPath == Domain \cup {OwnPath}

ASSUME VhostAssumption ==
    /\ OwnPath \notin Domain /\ Unset \notin CertPath
    /\ OwnBlock \subseteq Domain
    /\ \A f \in VhostForms : \A s \in Sides :
          /\ f[s].on \in BOOLEAN /\ f[s].port \in Nat
          /\ f[s].dom \in Domain \cup {Unset} /\ f[s].cert \in CertPath \cup {Unset}
    /\ {VhostSaves, VhostFaults, VhostIssues} \subseteq Nat

VARIABLES
    conf,       \* conf.d: <<prefix, domain>> -> contents, NoFile when there is no such file
    loaded,     \* the configuration nginx runs with
    saved,      \* the settings in the database
    served,     \* the settings the two servers were started with
    certs,      \* domains with a directory under /root/cert
    managed,    \* domains acme.sh keeps a record of
    manual,     \* the certificates table: domain -> path, Unset without a row
    page,       \* the settings page's save in flight
    sync,       \* the SyncVhosts call in flight
    issue,      \* the certificate request holding acmeIssuing
    removal,    \* the certificate removal between its check and its deletion
    saves, faults, issues,
    excused,    \* ghost: the last reconciliation failed or an nginx command did, or the
                \* restart of a save was lost
    raced       \* ghost: settings were saved inside a removal's window

vhostVars == <<conf, loaded, saved, served, certs, managed, manual, page, sync,
               issue, removal, saves, faults, issues, excused, raced>>

ProxyFile == {"proxy", "panel"} \X Domain
ConfFile == ProxyFile \cup ({"acme"} \X Domain)
proxyConfPath(d) == <<"proxy", d>>

Idle == [phase |-> "idle"]
NoRemoval == [dom |-> Unset, managed |-> FALSE]

(***************************************************************************)
(* What a form asks of nginx: one block per domain, the panel's location   *)
(* first.                                                                  *)
(***************************************************************************)
\* A side that is on and has no domain is an error, never a skip.
SpecsRefused(f) == \E s \in Sides : f[s].on /\ f[s].dom = Unset

\* ProxySide: what a side adds to the block of a domain.
Location(f, s, d) == IF f[s].on /\ f[s].dom = d THEN << <<s, f[s].port>> >> ELSE <<>>
BlockOf(f, s) == [dom |-> f[s].dom, cert |-> f[s].cert,
                  eps |-> Location(f, "web", f[s].dom) \o Location(f, "sub", f[s].dom)]

BuildVhostSpecs(f) ==
    LET named(s) == f[s].on /\ f[s].dom # Unset
        merged   == named("web") /\ f["web"].dom = f["sub"].dom
    IN  (IF named("web") THEN <<BlockOf(f, "web")>> ELSE <<>>)
          \o (IF named("sub") /\ ~ merged THEN <<BlockOf(f, "sub")>> ELSE <<>>)

Readable(p) == p = OwnPath \/ p \in certs

\* The installed certificate of the domain before the path typed into the settings.
resolveDomainCert(spec) ==
    CASE spec.dom \in certs -> spec.dom
      [] spec.dom \notin certs /\ spec.cert # Unset /\ Readable(spec.cert) -> spec.cert
      [] OTHER -> Unset

buildVhostConf(spec) == [eps |-> spec.eps, cert |-> resolveDomainCert(spec)]
precheckVhost(spec) == resolveDomainCert(spec) # Unset

(***************************************************************************)
(* nginx, from the commands the code runs on it.                           *)
(***************************************************************************)
\* nginx -t: every certificate a block names can be read.
Valid(c) == \A f \in ProxyFile : c[f] # NoFile => Readable(c[f].cert)

\* "conflicting server name" on 443: a second block for the domain.
conflictsOnPort(c, d) == d \in OwnBlock \/ \A p \in {"proxy", "panel"} : c[<<p, d>>] # NoFile

\* The configuration nginx runs after a reload of what is on disk.
Reloaded(c) == IF Valid(c) THEN c ELSE loaded

nginxFilesServing(c, d) == {f \in {<<"acme", d>>} : c[f] # NoFile}

(***************************************************************************)
(* EnsureVhost: what one domain's generation does to the disk and to       *)
(* nginx.  fault names the command that fails, or "none".                  *)
(***************************************************************************)
\* the result of a generation: success, and the disk and nginx after it
Failed(c, l) == [ok |-> FALSE, conf |-> c, loaded |-> l]
Done(c, l) == [ok |-> TRUE, conf |-> c, loaded |-> l]

EnsureVhost(spec, fault) ==
    LET path == proxyConfPath(spec.dom)
        new  == [conf EXCEPT ![path] = buildVhostConf(spec)]
        back == IF fault = "reload" THEN loaded ELSE Reloaded(conf)
    IN  CASE ~ precheckVhost(spec) \/ fault = "down" -> Failed(conf, loaded)
          [] precheckVhost(spec) /\ fault = "none" /\ new = conf /\ loaded[path] = conf[path]
                -> Done(conf, loaded)
          [] OTHER ->
                IF \/ fault # "none" \/ ~ Valid(new) \/ conflictsOnPort(new, spec.dom)
                THEN Failed(conf, back)
                ELSE Done(new, new)

Faults == {"down", "test", "reload"}
Fault(x) ==
    \/ x = "none" /\ UNCHANGED faults
    \/ x # "none" /\ faults < VhostFaults /\ faults' = faults + 1

(***************************************************************************)
(* SyncVhosts, step by step: leftovers of a renamed file go first and are  *)
(* remembered, every block is generated, and what is wanted no more goes   *)
(* last; a failure puts everything remembered back.                        *)
(***************************************************************************)
Wanted(specs) == {specs[i].dom : i \in DOMAIN specs}

BeginSync(f, org) ==
    LET specs == BuildVhostSpecs(f)
        left  == {<<"panel", d>> : d \in Wanted(specs)}
        gone  == {p \in left : conf[p] # NoFile}
    IN  /\ conf' = [p \in ConfFile |-> IF p \in left THEN NoFile ELSE conf[p]]
        /\ sync' = [phase |-> "ensure", org |-> org, specs |-> specs, todo |-> specs,
                    applied |-> [p \in gone |-> conf[p]], removed |-> gone # {},
                    conf0 |-> conf, loaded0 |-> loaded, valid0 |-> Valid(conf),
                    clean |-> TRUE]

\* RolledBack, forgetting what a rename swept
RolledBackLater == [p \in ConfFile |->
    IF p \in DOMAIN sync.applied /\ p[1] = "proxy" THEN sync.applied[p] ELSE conf[p]]

\* rollbackApplied, and the error handed to whoever called
RolledBack == [p \in ConfFile |-> IF p \in DOMAIN sync.applied THEN sync.applied[p] ELSE conf[p]]

Ends(ok, fault) ==
    /\ sync' = Idle
    /\ page' = CASE sync.org = "form" /\ ok -> [page EXCEPT !.phase = "save"]
                 [] sync.org = "form" /\ ~ ok -> Idle
                 [] sync.org = "start" -> Idle
    /\ excused' = (\/ sync.org = "form" /\ excused
                   \/ sync.org = "start" /\ ~ ok
                   \/ ~ sync.clean
                   \/ fault # "none")

EnsureStep(fault) ==
    /\ sync.phase = "ensure" /\ sync.todo # <<>> /\ Fault(fault)
    /\ LET spec == Head(sync.todo)
           path == proxyConfPath(spec.dom)
           r == EnsureVhost(spec, fault)
       IN  /\ conf' = r.conf /\ loaded' = r.loaded
           /\ sync' = [sync EXCEPT
                 !.phase = IF r.ok THEN "ensure" ELSE "undo",
                 !.todo = Tail(@),
                 !.clean = @ /\ fault = "none",
                 !.applied = IF r.ok /\ path \notin DOMAIN @
                             THEN [p \in DOMAIN @ \cup {path} |->
                                      IF p = path THEN conf[p] ELSE @[p]]
                             ELSE @]
    /\ UNCHANGED <<saved, served, certs, managed, manual, page, issue, removal,
                   saves, issues, excused, raced>>

Undo(fault) ==
    /\ sync.phase = "undo" /\ fault \in {"none", "reload"} /\ Fault(fault)
    /\ conf' = RolledBack
    /\ loaded' = IF fault = "reload" \/ DOMAIN sync.applied = {} THEN loaded ELSE Reloaded(conf')
    /\ Ends(FALSE, fault)
    /\ UNCHANGED <<saved, served, certs, managed, manual, issue, removal, saves, issues, raced>>

\* The generated files SyncVhosts lists: proxy blocks of either name, never a validation block.
vhostDomainOf(p) == IF p[1] \in {"proxy", "panel"} THEN p[2] ELSE Unset

SweepStep(fault) ==
    /\ sync.phase = "ensure" /\ sync.todo = <<>> /\ fault \in {"none", "reload"} /\ Fault(fault)
    /\ LET stale == {p \in ConfFile : /\ conf[p] # NoFile /\ vhostDomainOf(p) # Unset
                                      /\ vhostDomainOf(p) \notin Wanted(sync.specs)}
       IN  /\ conf' = [p \in ConfFile |-> IF p \in stale THEN NoFile ELSE conf[p]]
           /\ loaded' = IF (stale = {} /\ ~ sync.removed) \/ fault = "reload"
                        THEN loaded ELSE Reloaded(conf')
    /\ Ends(TRUE, fault)
    /\ UNCHANGED <<saved, served, certs, managed, manual, issue, removal, saves, issues, raced>>
------------------------------------------------------------------------------
(***************************************************************************)
(* The settings page's save, the restart and the reconciliation after it.  *)
(***************************************************************************)
\* CheckVhosts: would this set be generated now?
CheckVhosts(f) == \A i \in DOMAIN BuildVhostSpecs(f) : precheckVhost(BuildVhostSpecs(f)[i])

AnyOn(f) == \E s \in Sides : f[s].on

SavePage(f) ==
    /\ page.phase = "idle" /\ sync.phase = "idle" /\ saves < VhostSaves /\ f # saved
    /\ ~ SpecsRefused(f)
    /\ saves' = saves + 1
    /\ \/ /\ AnyOn(f) /\ saved["web"].on /\ CheckVhosts(f)
          /\ page' = [phase |-> "save", form |-> f] /\ UNCHANGED <<conf, sync>>
       \/ /\ AnyOn(f) /\ ~ saved["web"].on
          /\ page' = [phase |-> "sync", form |-> f] /\ BeginSync(f, "form")
       \/ /\ ~ AnyOn(f)
          /\ page' = [phase |-> "save", form |-> f] /\ UNCHANGED <<conf, sync>>
    /\ UNCHANGED <<loaded, saved, served, certs, managed, manual, issue, removal,
                   faults, issues, excused, raced>>

\* api/save: the settings are stored.
StoreSettings ==
    /\ page.phase = "save"
    /\ saved' = page.form
    /\ page' = [page EXCEPT !.phase = "restart"]
    /\ raced' = (raced \/ removal # NoRemoval)
    /\ UNCHANGED <<conf, loaded, served, certs, managed, manual, sync, issue, removal,
                   saves, faults, issues, excused>>

\* The page is closed, or its request never arrives.
PageLost ==
    /\ page.phase \in {"save", "restart"}
    /\ page' = Idle
    /\ excused' = (excused \/ page.phase = "restart")
    /\ UNCHANGED <<conf, loaded, saved, served, certs, managed, manual, sync, issue, removal,
                   saves, faults, issues, raced>>

\* archived: the path a side was given by hand becomes a row of the certificates table
ArchiveLegacy == [d \in Domain |->
    LET ready == {s2 \in Sides : saved[s2].dom = d /\ saved[s2].cert # Unset /\ Readable(saved[s2].cert)}
    IN  IF manual[d] = Unset /\ d \notin managed /\ ready # {}
        THEN saved[IF "web" \in ready THEN "web" ELSE "sub"].cert ELSE manual[d]]

\* A restart, asked for by the page, by hand, or after the process died in the
\* middle of anything: the servers read the settings, then nginx is reconciled,
\* which settings that cannot be read or are half filled in skip.
ProxyVhostSpecs == saved

RestartApp(unread) ==
    /\ page.phase \in {"restart", "idle"} \/ sync.phase # "idle"
    /\ unread \/ sync.phase # "idle" => faults < VhostFaults
    /\ faults' = IF unread \/ sync.phase # "idle" THEN faults + 1 ELSE faults
    /\ served' = saved /\ manual' = ArchiveLegacy
    /\ issue' = Idle /\ removal' = NoRemoval
    /\ IF unread \/ SpecsRefused(ProxyVhostSpecs)
       THEN /\ UNCHANGED conf /\ sync' = Idle /\ page' = Idle /\ excused' = TRUE
       ELSE /\ BeginSync(ProxyVhostSpecs, "start")
            /\ page' = [phase |-> "reconcile"] /\ excused' = FALSE
    /\ UNCHANGED <<loaded, saved, certs, managed, saves, issues, raced>>
------------------------------------------------------------------------------
(***************************************************************************)
(* Certificates.                                                           *)
(***************************************************************************)
\* The validation in use follows from who holds port 80, which is the host's affair.
resolveMethod == {"standalone", "nginx"}

\* IssueWeb by nginx validation: the lock, then a block on port 80 that acme.sh
\* can find, generated when there is none and taken away again when nginx refuses.
BlockReady(d) == nginxFilesServing(loaded, d) # {}

BeginIssue(d, how, fault) ==
    /\ issue.phase = "idle" /\ issues < VhostIssues /\ issues' = issues + 1
    /\ fault \in {"none", "test", "reload"} /\ Fault(fault)
    /\ LET new == [conf EXCEPT ![<<"acme", d>>] = [eps |-> <<>>, cert |-> "-"]]
           ready == how = "standalone" \/ BlockReady(d)
           made == fault = "none" /\ Valid(new)
       IN  /\ conf' = IF ready \/ ~ made THEN conf ELSE new
           /\ loaded' = IF ready \/ ~ made THEN loaded ELSE new
           /\ issue' = IF ready \/ made THEN [phase |-> "acme", dom |-> d, how |-> how] ELSE Idle
    /\ UNCHANGED <<saved, served, certs, managed, manual, page, sync, removal, saves, excused, raced>>

\* acme.sh answers: a refusal, a record without installed files, or the certificate.
EndIssue(r) ==
    /\ issue.phase = "acme"
    /\ managed' = IF r = "refused" THEN managed ELSE managed \cup {issue.dom}
    /\ certs' = IF r = "installed" THEN certs \cup {issue.dom} ELSE certs
    /\ issue' = Idle
    /\ UNCHANGED <<conf, loaded, saved, served, manual, page, sync, removal,
                   saves, faults, issues, excused, raced>>

\* CertService.List: the managed certificates and the rows acme.sh does not shadow.
Listed == managed \cup {d \in Domain : manual[d] # Unset}

CertFileOf(d) == IF d \in managed THEN d ELSE manual[d]

\* The in-use test of DeleteCert: by domain, by the listed path, by the directory.
InUse(d) == \E s \in Sides :
    \/ saved[s].dom = d
    \/ saved[s].cert # Unset /\ d \in Listed /\ saved[s].cert = CertFileOf(d)
    \/ saved[s].cert = d

BeginDelete(d) ==
    /\ removal = NoRemoval /\ d \in Listed /\ ~ InUse(d)
    /\ removal' = [dom |-> d, managed |-> d \in managed]
    /\ UNCHANGED <<conf, loaded, saved, served, certs, managed, manual, page, sync, issue,
                   saves, faults, issues, excused, raced>>

EndDelete ==
    /\ removal # NoRemoval /\ removal' = NoRemoval
    /\ managed' = IF removal.managed THEN managed \ {removal.dom} ELSE managed
    /\ certs' = IF removal.managed THEN certs \ {removal.dom} ELSE certs
    /\ manual' = [manual EXCEPT ![removal.dom] = Unset]
    /\ UNCHANGED <<conf, loaded, saved, served, page, sync, issue,
                   saves, faults, issues, excused, raced>>

\* SaveManualCert, refused for a domain acme.sh renews.
SaveManualCert(d, p) ==
    /\ d \notin managed /\ manual[d] # p /\ Readable(p)
    /\ issues < VhostIssues /\ issues' = issues + 1
    /\ manual' = [manual EXCEPT ![d] = p]
    /\ UNCHANGED <<conf, loaded, saved, served, certs, managed, page, sync, issue, removal,
                   saves, faults, excused, raced>>
------------------------------------------------------------------------------
\* An upgraded installation may still have the block under its former name.
VhostInit ==
    /\ \E f \in VhostForms :
          /\ excused = (\E s \in Sides : f[s].on /\ f[s].dom = Unset)
          /\ \A s \in Sides : f[s].on => f[s].dom \notin OwnBlock
          /\ saved = f /\ served = f
          /\ certs = {f[s].dom : s \in {s2 \in Sides : f[s2].dom # Unset}}
          /\ \E old \in BOOLEAN :
                conf = [p \in ConfFile |->
                    LET at == {i \in DOMAIN BuildVhostSpecs(f) : BuildVhostSpecs(f)[i].dom = p[2]} IN
                    IF p[1] = (IF old THEN "panel" ELSE "proxy") /\ at # {}
                    THEN [eps |-> BuildVhostSpecs(f)[CHOOSE i \in at : TRUE].eps, cert |-> p[2]]
                    ELSE NoFile]
    /\ loaded = conf /\ managed = certs
    /\ manual = [d \in Domain |-> Unset]
    /\ page = Idle /\ sync = Idle /\ issue = Idle /\ removal = NoRemoval
    /\ saves = 0 /\ faults = 0 /\ issues = 0 /\ raced = FALSE

VhostNext ==
    \/ \E f \in VhostForms : SavePage(f)
    \/ StoreSettings \/ PageLost \/ \E unread \in BOOLEAN : RestartApp(unread)
    \/ \E x \in Faults \cup {"none"} : EnsureStep(x) \/ Undo(x) \/ SweepStep(x)
    \/ \E d \in Domain, how \in resolveMethod, x \in {"none", "test", "reload"} :
          BeginIssue(d, how, x)
    \/ \E r \in {"refused", "recorded", "installed"} : EndIssue(r)
    \/ \E d \in Domain : BeginDelete(d)
    \/ EndDelete
    \/ \E d \in Domain, p \in CertPath : SaveManualCert(d, p)

VhostSpec == VhostInit /\ [][VhostNext]_vhostVars

------------------------------------------------------------------------------
Contents(c) == c \in [ConfFile -> [eps : Seq(Sides \X Nat), cert : CertPath \cup {Unset, "-"}]]

\* Every variable holds a value the code could give it.
VhostTypeOK ==
    /\ Contents(conf) /\ Contents(loaded)
    /\ saved \in VhostForms /\ served \in VhostForms
    /\ certs \subseteq Domain /\ managed \subseteq Domain
    /\ manual \in [Domain -> CertPath \cup {Unset}]
    /\ page.phase \in {"idle", "sync", "save", "restart", "reconcile"}
    /\ sync.phase \in {"idle", "ensure", "undo"}
    /\ issue.phase \in {"idle", "acme"} /\ removal.dom \in Domain \cup {Unset}
    /\ faults \in 0..VhostFaults


\* A sync that fails leaves conf.d as it found it and, when no reload failed,
\* nginx too (acme.go:1144-1150): the settings were not saved, so the domains
\* being served must stay served.
FailedSyncRestores ==
    [][(\E x \in {"none", "reload"} : Undo(x)) =>
          /\ \A p \in ProxyFile : conf'[p] = sync.conf0[p]
          /\ sync.clean /\ faults' = faults /\ sync.valid0 /\ Valid(sync.conf0)
                => \A p \in ProxyFile : loaded'[p] \in {sync.loaded0[p], conf'[p]}]_vhostVars

\* A sync that succeeds leaves exactly the blocks asked for among the generated
\* proxy files, and one domain is never in two of them (acme.go:1125-1130).
SyncedExactly ==
    [][(\E x \in {"none", "reload"} : SweepStep(x)) =>
          {<<p[2], conf'[p].eps>> : p \in {q \in ProxyFile : conf'[q] # NoFile}}
             = {<<sync.specs[i].dom, sync.specs[i].eps>> : i \in DOMAIN sync.specs}]_vhostVars

\* The panel behind the proxy has its block in the running nginx whenever the
\* page's protocol is at rest, unless the last reconciliation failed and was
\* logged, or settings were saved and their restart lost (app.go:148-160,
\* Settings.vue:655-667).
EntryAnswers ==
    page.phase = "idle" /\ sync.phase = "idle" /\ ~ excused =>
        (served["web"].on =>
            \E p \in ProxyFile : /\ p[2] = served["web"].dom
                                 /\ <<"web", served["web"].port>> \in ToSet(loaded[p].eps))

\* A domain the administrator serves from a file of their own never has a generated
\* block beside it in the running nginx: nginx would drop one of the two
\* (acme.go:1060-1070).
UserSiteKept == \A p \in ProxyFile : p[2] \in OwnBlock => loaded[p] = NoFile

\* A validation through nginx runs only while nginx has a block on port 80 for the
\* domain, whatever the reverse proxy is doing meanwhile (acme.go:300-306, 678-680).
ValidationHasBlock ==
    issue.phase = "acme" /\ issue.how = "nginx" =>
        loaded[<<"acme", issue.dom>>] # NoFile /\ conf[<<"acme", issue.dom>>] # NoFile

\* The files the saved settings name are never deleted by the certificate page,
\* unless the settings were saved inside the deletion's own window
\* (apiService.go:818-844).
SettingsKeepTheirFiles ==
    [][~ raced => \A s \in Sides : {saved[s].cert, saved[s].dom} \cap (certs \ certs') = {}]_vhostVars

\* What CheckVhosts accepts can be generated right now (acme.go:963-966).  A 443 block of the
\* administrator's own refutes it (README, section 6).
CheckPredicts ==
    [][page.phase = "idle" /\ page'.phase = "save" /\ saved["web"].on /\ AnyOn(page'.form) =>
         \A i \in DOMAIN BuildVhostSpecs(page'.form) :
            ~ conflictsOnPort(
                [conf EXCEPT ![proxyConfPath(BuildVhostSpecs(page'.form)[i].dom)] =
                    buildVhostConf(BuildVhostSpecs(page'.form)[i])],
                BuildVhostSpecs(page'.form)[i].dom)]_vhostVars

\* The reverse proxy, in one: the panel's entry answers, the administrator's site and
\* a validation under way keep their blocks, a sync is whole or undone, and no file
\* in use is deleted.
VhostSafety ==
    /\ [](VhostTypeOK /\ EntryAnswers /\ UserSiteKept /\ ValidationHasBlock)
    /\ FailedSyncRestores /\ SyncedExactly /\ SettingsKeepTheirFiles
==============================================================================
