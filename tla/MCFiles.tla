------------------------------- MODULE MCFiles -------------------------------
(* What the panel keeps in files: its nginx entries and certificates           *)
(* (VhostSync), its own binary (SelfUpdate), a database that is imported       *)
(* (DbImport) and an old one that is repaired (Migrations).  They share no     *)
(* state, so a behaviour runs one of them, chosen at the start, and the others *)
(* rest.                                                                       *)
EXTENDS VhostSync, SelfUpdate, DbImport, Migrations

VARIABLE part

-----------------------------------------------------------------------------
(* Settings: each side off, on a domain of its own, on the same one, without a *)
(* domain, and on one the administrator's own block serves.                    *)
Side(on, d, p, c) == [on |-> on, dom |-> d, port |-> p, cert |-> c]
Unused == Side(FALSE, "", 3, "")
MCForms ==
  {[web |-> w, sub |-> Unused] :
     w \in {Side(FALSE, "d", 1, "d"), Side(TRUE, "d", 1, "d"), Side(TRUE, "e", 2, "own"), Side(TRUE, "", 1, "d")}}
  \cup {[web |-> Side(TRUE, "d", 1, "d"), sub |-> Side(TRUE, "d", 3, "d")],
        [web |-> Side(TRUE, "e", 1, "d"), sub |-> Side(TRUE, "o", 3, "own")]}

-----------------------------------------------------------------------------
(* Databases the panel may find: today's, one from before sing-box 1.14, one   *)
(* just after it, and the old ones of each age the ladder tells apart.         *)
Tls(n, a, p, k) == [name |-> n, acme |-> a, prov |-> p, key |-> k]

Today ==
  [ver |-> <<2, 0, 1>>, flags |-> Flags, config |-> TRUE, place |-> "tables", experimental |-> TRUE,
   rules |-> <<"route">>, inboundData |-> FALSE, inbs |-> "ids", index |-> FALSE, tlscol |-> FALSE,
   anytls |-> TRUE, snell |-> 9, pw |-> "hashed", dns |-> "typed", strategy |-> FALSE,
   selfSigned |-> FALSE, leaked |-> FALSE, pin |-> "none", port |-> "number", ports |-> "range",
   cache |-> FALSE, rdrc |-> "absent", dnsStore |-> FALSE, detour |-> "",
   client |-> DirectHTTPClient, remote |-> TRUE, final |-> "", first |-> "proxy", dflt |-> FALSE,
   tls |-> <<>>, providers |-> <<>>, oldwin |-> -1, quic |-> 0, tun |-> FALSE, ech |-> {},
   reset |-> [auto |-> FALSE, delay |-> FALSE, days |-> 0], ran |-> FALSE, skipped |-> FALSE]

Pre114(det, fin, fst, dfl) ==
  [Today EXCEPT !.ver = <<1, 8, 1>>, !.flags = {}, !.cache = TRUE, !.rdrc = "on", !.detour = det,
     !.client = NoClient, !.final = fin, !.first = fst, !.dflt = dfl, !.oldwin = 1, !.tun = TRUE,
     !.ech = {"client", "server", "outJson"}, !.port = "string", !.ports = "bare",
     !.reset = [auto |-> FALSE, delay |-> TRUE, days |-> 30],
     !.tls = <<Tls("a", 1, <<"none">>, 1), Tls("a", 2, <<"none">>, 2)>>]

Post114(cl, det, fin) ==
  [Today EXCEPT !.ver = <<2, 0, 0>>, !.flags = {"singbox114"}, !.client = cl, !.detour = det,
     !.final = fin, !.tls = <<Tls("a", 0, <<"inline", 1>>, 1), Tls("b", 0, <<"none">>, 0)>>,
     !.providers = <<[tag |-> <<"a", 1>>, key |-> 7]>>, !.ech = {"config"}]

Old(v) ==
  [Pre114("proxy", "", "plain", FALSE) EXCEPT !.ver = v, !.snell = 0, !.pw = "plain",
     !.leaked = TRUE, !.selfSigned = TRUE]

Ancient(i) ==
  [Old(<<>>) EXCEPT !.place = "file", !.rules = <<"block", "dns", "proxy">>, !.inboundData = TRUE,
     !.inbs = i, !.index = TRUE, !.tlscol = TRUE, !.anytls = FALSE, !.dns = "address", !.strategy = TRUE]

MCStored ==
  {Today, [Today EXCEPT !.client = NoClient, !.config = FALSE], Ancient("text"),
   [Ancient("tags") EXCEPT !.place = "tables", !.rules = <<>>],
   [Ancient("tags") EXCEPT !.ver = <<1, 2>>, !.inbs = "ids", !.place = "tables", !.rules = <<"reject">>],
   Old(<<1, 5, 3>>), [Old(<<1, 5, 10>>) EXCEPT !.pw = "hashed", !.leaked = FALSE]}
  \cup {Pre114(d, f, "plain", FALSE) : d \in {"", "plain", "bound", "proxy"}, f \in {"", "gone"}}
  \cup {Pre114("", "plain", "proxy", FALSE), Pre114("", "proxy", "plain", TRUE),
        Pre114("", "", "proxy", FALSE), Pre114("plain", "", "proxy", FALSE),
        [Pre114("", "", "proxy", FALSE) EXCEPT !.ver = <<1, 8, 0>>, !.snell = 9]}
  \cup {Post114(<<"flagged", o>>, "", "") : o \in {"plain", "bound", "proxy"}}
  \cup {Post114(NoClient, "plain", ""), Post114(NoClient, "", "proxy"), Post114(Via("bound"), "proxy", "")}
MCBinaries == {<<2, 0, 1>>, <<2, 0, 10>>}

-----------------------------------------------------------------------------
\* Only p moves.
Alone(p) ==
  /\ part = p /\ UNCHANGED part
  /\ p # "vhost" => UNCHANGED vhostVars
  /\ p # "update" => UNCHANGED updVars
  /\ p # "import" => UNCHANGED impVars
  /\ p # "migrate" => UNCHANGED migVars

Init ==
  /\ part \in {"vhost", "update", "import", "migrate"}
  /\ VhostInit /\ (part # "vhost" => \A s \in Sides : ~saved[s].on)
  /\ UpdateInit /\ (part # "update" => latest = 0 /\ running = 1 /\ ~docker)
  /\ MigrationInit /\ (part # "migrate" => data = Today /\ binary = <<2, 0, 1>>)
  /\ ImportInit

Next ==
  \/ Alone("vhost") /\ VhostNext
  \/ Alone("update") /\ UpdateNext
  \/ Alone("import") /\ ImportNext
  \/ Alone("migrate") /\ MigrationNext

Spec == Init /\ [][Next]_<<part, vhostVars, updVars, impVars, migVars>>
=============================================================================
