----------------------------- MODULE ObjectGraph -----------------------------
(***************************************************************************)
(* Inbounds, the clients on them and the share links stored with every     *)
(* client: the saves of service/inbounds.go, client.go, tls.go and node.go *)
(* that rewrite those links, the detours one inbound's client config takes *)
(* through another (inboundDetour.go), the replicas of a node's inbounds   *)
(* and the pass of nodeSync.go that rewrites the node's links while saves  *)
(* go on.  A tag or a remark is a sequence: the link of node n's inbound a *)
(* has the remark <<n, a>>, and so has the link of a local inbound that is *)
(* tagged "[n] a".                                                         *)
(***************************************************************************)
EXTENDS Naturals, Sequences, SequencesExt

CONSTANTS
  InbTag,     \* the tags inbounds may take
  NodeNames,  \* the names the node may take
  FirstName,  \* the one it starts with
  ListClient, \* the clients
  MaxInbs,    \* bound on the inbounds ever created
  MaxSaves    \* bound on the saves

ASSUME GraphConstants ==
  /\ \A t \in InbTag : t # <<>> /\ t \in Seq(ToSet(t))
  /\ FirstName \in NodeNames
  /\ {MaxInbs, MaxSaves} \subseteq Nat

VARIABLES
  inbs,        \* the inbounds table: id to row
  lastInb,     \* the last id handed out
  clients,     \* the clients table
  form,        \* a client as some browser tab loaded it
  pass,        \* refreshNodeLinks under way: the rows it has read
  nodeName,    \* the node's name
  prefixOn,    \* the setting subRemarkPrefix
  saves,       \* the saves so far
  overwritten, \* ghost: clients a pass wrote older links to, or whose local link was taken for a node's
  rides        \* ghost: the inbound a detour was saved for, 0 for none

graphVars == <<inbs, lastInb, clients, form, pass, nodeName, prefixOn, saves, overwritten, rides>>

\* A kind with a share link and a client config to ride, and one (ShadowTLS before v3) with neither.
InbKinds == {"vless", "shadowtls"}
InboundTypeWithLink == {"vless"}
\* FillOutJson leaves a type in the client config of these.
HasClientConfig(i) == i.kind = "vless"
NoDetour == <<>>
\* In this instance vless inbounds share the TLS row and may have a detour, the others neither.
UsesTls(i) == i.kind = "vless"
MayRide(kind, detour) == kind = "vless" \/ detour = NoDetour
Local(table) == {id \in DOMAIN table : ~table[id].replica}
NoPass == [step |-> "idle"]
NoForm == [loaded |-> FALSE]

\* A table with one more row.
Put(table, key, row) == [k \in DOMAIN table \cup {key} |-> IF k = key THEN row ELSE table[k]]

GraphInit ==
  /\ inbs = <<>> /\ lastInb = 0 /\ clients = <<>> /\ form = NoForm /\ pass = NoPass
  /\ nodeName = FirstName /\ prefixOn = FALSE /\ saves = 0 /\ overwritten = {} /\ rides = <<>>

-----------------------------------------------------------------------------
(* Links. *)

\* The link of a client on an inbound: from its credentials and from the inbound with its TLS row.
Uri(c, i) == <<c.config, i.ver>>
WithLink(table, ids) == {id \in ids : table[id].kind \in InboundTypeWithLink}
\* LinkGenerator for a local inbound, stored under its tag; pre is subRemarkPrefix.
LocalLink(c, i, pre) == [type |-> "local", remark |-> i.tag, uri |-> Uri(c, i), pre |-> pre]
LocalLinks(c, table, ids, pre) ==
  LET order == SetToSeq(WithLink(table, ids)) IN [k \in DOMAIN order |-> LocalLink(c, table[order[k]], pre)]
NodeLink(c, i, name, pre) == [type |-> "external", remark |-> <<name>> \o i.tag, uri |-> Uri(c, i), pre |-> pre]
genNodeReplicaLinks(c, table, ids, name, pre) ==
  LET order == SetToSeq(WithLink(table, ids)) IN [k \in DOMAIN order |-> NodeLink(c, table[order[k]], name, pre)]
isNodeOwnedRemark(remark, name) == Len(remark) > 1 /\ Head(remark) = name
isNodeLinkFor(remark, tag, name) == remark = <<name>> \o tag

\* The links of a list that are in a set, in their order.
Keep(list, those) ==
  LET kept[k \in 0 .. Len(list)] ==
        IF k = 0 THEN <<>> ELSE IF list[k] \in those THEN Append(kept[k - 1], list[k]) ELSE kept[k - 1]
  IN  kept[Len(list)]

\* updateLinksWithFixedInbounds: local links anew, the request's others, the node's from the stored row.
FixedLinks(c, asked, stored) ==
  LET bound == {inbs[id].tag : id \in (c.on \cap DOMAIN inbs) \ Local(inbs)}
      reattach == stored # <<>>
      theirs == {l \in ToSet(asked) : l.type # "local" /\ ~(reattach /\ isNodeOwnedRemark(l.remark, nodeName))}
      nodes(list) == {l \in ToSet(list) : l.type # "local" /\ isNodeOwnedRemark(l.remark, nodeName) /\ Tail(l.remark) \in bound}
  IN LocalLinks(c, inbs, c.on \cap Local(inbs), prefixOn) \o Keep(asked, theirs)
       \o (IF reattach THEN Keep(stored[1], nodes(stored[1])) ELSE <<>>)

On(id) == {n \in DOMAIN clients : id \in clients[n].on}

UpdateClientsOnInboundAdd(table, users, id) ==
  [n \in DOMAIN clients |->
     IF n \notin users THEN clients[n]
     ELSE LET c == clients[n] IN
          [c EXCEPT !.on = @ \cup {id},
                    !.links = LocalLinks(c, table, {id}, prefixOn) \o Keep(@, {l \in ToSet(@) : l.remark # table[id].tag})]]

UpdateClientsOnInboundDelete(id, tag) ==
  [n \in DOMAIN clients |->
     IF n \notin On(id) THEN clients[n]
     ELSE [clients[n] EXCEPT !.on = @ \ {id},
                             !.links = Keep(@, {l \in ToSet(@) : l.remark # tag /\ ~isNodeLinkFor(l.remark, tag, nodeName)})]]

Others(c, tags) == {l \in ToSet(c.links) : l.type # "local" \/ l.remark \notin tags}
\* Mutant: the link under the old tag stays.
RelinkedByNewTag(c, table, ids, oldTag, pre) ==
  LocalLinks(c, table, ids, pre) \o Keep(c.links, Others(c, {table[id].tag : id \in ids}))
Relinked(c, table, ids, oldTag, pre) ==
  LocalLinks(c, table, ids, pre) \o Keep(c.links, Others(c, {table[id].tag : id \in ids} \cup {oldTag}))
\* UpdateLinksByInboundChange: one inbound after another, whose tags differ, comes to all at once.
UpdateLinksByInboundChange(table, ids, oldTag, pre) ==
  [n \in DOMAIN clients |->
     LET c == clients[n] IN
     IF ids \cap c.on = {} THEN c ELSE [c EXCEPT !.links = Relinked(c, table, ids \cap c.on, oldTag, pre)]]

-----------------------------------------------------------------------------
(* Detours. *)

\* The local inbounds other than id whose client config rides tag.
clientDetourRiders(id, tag) == {r \in Local(inbs) \ {id} : inbs[r].detour = tag}
renameClientDetours(table, id, oldTag, newTag) ==
  [r \in DOMAIN table |-> IF r \in clientDetourRiders(id, oldTag) THEN [table[r] EXCEPT !.detour = newTag] ELSE table[r]]

DetourTarget(id, detour) == {t \in Local(inbs) \ {id} : inbs[t].tag = detour}
\* checkClientDetour; tag is the name riders know the inbound by.
DetourAllowed(id, i, tag) ==
  /\ i.detour # i.tag
  /\ \A t \in DetourTarget(id, i.detour) : HasClientConfig(inbs[t])
  /\ HasClientConfig(i) \/ clientDetourRiders(id, tag) = {}

\* tagFree: the tag is held by no other inbound.
tagFree(tag, id) == \A o \in DOMAIN inbs \ {id} : inbs[o].tag # tag

\* What the detour of a saved inbound stands for.
RidesAfter(table, id, i) ==
  [r \in DOMAIN table |-> IF r = id THEN LET t == DetourTarget(id, i.detour) IN IF t = {} THEN 0 ELSE CHOOSE x \in t : TRUE
                          ELSE IF rides[r] = 0 /\ ~table[id].replica /\ ~table[r].replica /\ table[r].detour = table[id].tag THEN id
                          ELSE rides[r]]

-----------------------------------------------------------------------------
(* Saves of inbounds, TLS rows and the remark setting. *)

NewInbound(i, users) ==
  LET id == lastInb + 1
      table == Put(inbs, id, i)
  IN /\ id <= MaxInbs /\ users \subseteq DOMAIN clients
     /\ tagFree(i.tag, id) /\ DetourAllowed(id, i, i.tag)
     /\ inbs' = table /\ lastInb' = id
     /\ clients' = UpdateClientsOnInboundAdd(table, users, id)
     /\ rides' = RidesAfter(table, id, i)
     /\ UNCHANGED <<form, pass, nodeName, prefixOn, overwritten>>

EditInbound(id, tag, kind, detour) ==
  LET old == inbs[id]
      i == [tag |-> tag, kind |-> kind, detour |-> detour, ver |-> old.ver + 1, replica |-> old.replica]
      riders == IF tag # old.tag THEN renameClientDetours(inbs, id, old.tag, tag) ELSE inbs
      table == [riders EXCEPT ![id] = i]
  IN /\ id \in Local(inbs) /\ MayRide(kind, detour)
     /\ tagFree(tag, id) /\ DetourAllowed(id, i, old.tag)
     /\ inbs' = table
     /\ clients' = UpdateLinksByInboundChange(table, {id}, old.tag, prefixOn)
     /\ rides' = RidesAfter(table, id, i)
     /\ UNCHANGED <<lastInb, form, pass, nodeName, prefixOn, overwritten>>

HasLocal(c, remark) == \E k \in DOMAIN c.links : c.links[k].type = "local" /\ c.links[k].remark = remark
DelInbound(id) ==
  /\ id \in DOMAIN inbs
  /\ inbs[id].replica \/ clientDetourRiders(id, inbs[id].tag) = {}
  /\ clients' = UpdateClientsOnInboundDelete(id, inbs[id].tag)
  /\ inbs' = [r \in DOMAIN inbs \ {id} |-> inbs[r]]
  /\ rides' = [r \in DOMAIN inbs \ {id} |-> rides[r]]
  \* A local inbound tagged like this one's node link loses its link with it.
  /\ overwritten' = overwritten \cup {n \in On(id) : HasLocal(clients[n], <<nodeName>> \o inbs[id].tag)}
  /\ UNCHANGED <<lastInb, form, pass, nodeName, prefixOn>>

TlsEdit ==
  LET ids == {id \in Local(inbs) : UsesTls(inbs[id])}
      table == [id \in DOMAIN inbs |-> IF id \in ids THEN [inbs[id] EXCEPT !.ver = @ + 1] ELSE inbs[id]]
  IN /\ ids # {}
     /\ inbs' = table /\ clients' = UpdateLinksByInboundChange(table, ids, NoDetour, prefixOn)
     /\ UNCHANGED <<lastInb, form, pass, nodeName, prefixOn, overwritten, rides>>

RebuildLocalLinks ==
  /\ prefixOn' = ~prefixOn
  /\ clients' = UpdateLinksByInboundChange(inbs, {id \in Local(inbs) : inbs[id].kind \in InboundTypeWithLink}, NoDetour, prefixOn')
  /\ UNCHANGED <<inbs, lastInb, form, pass, nodeName, overwritten, rides>>

-----------------------------------------------------------------------------
(* Saves of clients. *)

SavedClient(n, on, config, asked, stored) ==
  LET c == [on |-> on, config |-> config, links |-> <<>>]
  IN [c EXCEPT !.links = FixedLinks(c, asked, stored)]

\* A link of the operator's own, to some other server.
OwnLink == [type |-> "external", remark |-> <<"own">>, uri |-> <<0, 0>>, pre |-> FALSE]

\* A save puts a client's links right, unless the tab was loaded, or a pass begun, before the node
\* was renamed: links under its old name are taken for the operator's own and kept.
Orphan(l) == l.type # "local" /\ l # OwnLink /\ ~isNodeOwnedRemark(l.remark, nodeName)
Healed(batch) == (overwritten \ batch) \cup {n \in batch : \E l \in ToSet(clients'[n].links) : Orphan(l)}

NewClient(n, on) ==
  /\ n \notin DOMAIN clients
  /\ clients' = Put(clients, n, SavedClient(n, on, 0, <<OwnLink>>, <<>>))
  /\ UNCHANGED <<inbs, lastInb, form, pass, nodeName, prefixOn, overwritten, rides>>

LoadForm(n) ==
  /\ n \in DOMAIN clients
  /\ form' = [loaded |-> TRUE, name |-> n, on |-> clients[n].on, links |-> clients[n].links]
  /\ UNCHANGED <<inbs, lastInb, clients, pass, nodeName, prefixOn, overwritten, rides>>

\* Save "edit" with what the tab holds, its inbounds changed or not.
EditLinkedClient(on, config) ==
  LET n == form.name IN
  /\ form.loaded /\ n \in DOMAIN clients
  /\ clients' = [clients EXCEPT ![n] = SavedClient(n, on, config, form.links, <<clients[n].links>>)]
  /\ form' = NoForm
  /\ overwritten' = Healed({n})
  /\ UNCHANGED <<inbs, lastInb, pass, nodeName, prefixOn, rides>>

\* Save "editbulk": links and config of the stored row, rebuilt only when findInboundsChanges names an inbound.
EditLinkedBulk(batch, on) ==
  LET changed == UNION {(clients[n].on \ on) \cup (on \ clients[n].on) : n \in batch}
  IN /\ batch \subseteq DOMAIN clients /\ batch # {}
     /\ clients' = [n \in DOMAIN clients |->
          IF n \notin batch THEN clients[n]
          ELSE IF changed = {} THEN [clients[n] EXCEPT !.on = on]
          ELSE SavedClient(n, on, clients[n].config, clients[n].links, <<clients[n].links>>)]
     /\ overwritten' = IF changed = {} THEN overwritten ELSE Healed(batch)
     /\ UNCHANGED <<inbs, lastInb, form, pass, nodeName, prefixOn, rides>>

DelClients(batch) ==
  /\ batch \subseteq DOMAIN clients /\ batch # {}
  /\ clients' = [n \in DOMAIN clients \ batch |-> clients[n]]
  /\ overwritten' = overwritten \ batch
  /\ UNCHANGED <<inbs, lastInb, form, pass, nodeName, prefixOn, rides>>

-----------------------------------------------------------------------------
(* The node. *)

\* AdoptInbounds: a replica, refused when the tag is taken here.
Adopt(tag, kind) ==
  /\ lastInb < MaxInbs /\ tagFree(tag, 0)
  /\ inbs' = Put(inbs, lastInb + 1, [tag |-> tag, kind |-> kind, detour |-> NoDetour, ver |-> 0, replica |-> TRUE])
  /\ rides' = Put(rides, lastInb + 1, 0) /\ lastInb' = lastInb + 1
  /\ UNCHANGED <<clients, form, pass, nodeName, prefixOn, overwritten>>

\* refreshReplicas: the node's definition has moved; kept under the same tag.
RefreshReplica(id, kind) ==
  /\ id \in DOMAIN inbs /\ inbs[id].replica
  /\ inbs' = [inbs EXCEPT ![id].kind = kind, ![id].ver = @ + 1]
  /\ UNCHANGED <<lastInb, clients, form, pass, nodeName, prefixOn, overwritten, rides>>

\* refreshNodeLinks reads the replicas, then the clients and the setting, then writes the links of one
\* client after another.
PassStarts ==
  /\ pass.step = "idle"
  /\ pass' = [step |-> "replicas", name |-> nodeName, of |-> [id \in DOMAIN inbs \ Local(inbs) |-> inbs[id]]]
  /\ UNCHANGED <<inbs, lastInb, clients, form, nodeName, prefixOn, overwritten, rides>>
PassReads ==
  /\ pass.step = "replicas"
  /\ pass' = [step |-> "clients", name |-> pass.name, of |-> pass.of, pre |-> prefixOn, rows |-> clients]
  /\ UNCHANGED <<inbs, lastInb, clients, form, nodeName, prefixOn, overwritten, rides>>

\* The links the pass gives a client it read as c.
PassLinks(c) ==
  Keep(c.links, {l \in ToSet(c.links) : l.type = "local" \/ ~isNodeOwnedRemark(l.remark, pass.name)})
  \o genNodeReplicaLinks(c, pass.of, c.on \cap DOMAIN pass.of, pass.name, pass.pre)
PassWrites(n) ==
  LET c == pass.rows[n]
      moved == n \in DOMAIN clients /\ (clients[n] # c \/ pass.name # nodeName \/ \E id \in c.on \cap DOMAIN pass.of : id \notin DOMAIN inbs)
  IN /\ pass.step = "clients" /\ n \in DOMAIN pass.rows
     /\ pass' = IF DOMAIN pass.rows = {n} THEN NoPass ELSE [pass EXCEPT !.rows = [m \in DOMAIN pass.rows \ {n} |-> pass.rows[m]]]
     /\ IF n \in DOMAIN clients /\ PassLinks(c) # c.links
        THEN /\ clients' = [clients EXCEPT ![n].links = PassLinks(c)]
             /\ overwritten' = IF moved THEN overwritten \cup {n} ELSE overwritten
        ELSE UNCHANGED <<clients, overwritten>>
     /\ UNCHANGED <<inbs, lastInb, form, nodeName, prefixOn, rides>>
PassEnds ==
  /\ pass.step = "clients" /\ DOMAIN pass.rows = {}
  /\ pass' = NoPass
  /\ UNCHANGED <<inbs, lastInb, clients, form, nodeName, prefixOn, overwritten, rides>>

renameNodeLinkPrefix(l, new) ==
  IF isNodeOwnedRemark(l.remark, nodeName) THEN [l EXCEPT !.remark = <<new>> \o Tail(l.remark)] ELSE l
RenameNode(new) ==
  /\ new # nodeName /\ nodeName' = new
  /\ clients' = [n \in DOMAIN clients |->
       [clients[n] EXCEPT !.links = [k \in DOMAIN @ |-> renameNodeLinkPrefix(@[k], new)]]]
  \* A local link of an inbound tagged like a node's is renamed with the others.
  /\ overwritten' = overwritten \cup {n \in DOMAIN clients : \E k \in DOMAIN clients[n].links :
       clients[n].links[k].type = "local" /\ isNodeOwnedRemark(clients[n].links[k].remark, nodeName)}
  /\ UNCHANGED <<inbs, lastInb, form, pass, prefixOn, rides>>

-----------------------------------------------------------------------------
InbRows == {i \in [tag : InbTag, kind : InbKinds, detour : InbTag \cup {NoDetour}, ver : {0}, replica : {FALSE}] : MayRide(i.kind, i.detour)}
GraphSave ==
  \/ \E i \in InbRows, users \in SUBSET ListClient : NewInbound(i, users)
  \/ \E id \in DOMAIN inbs, tag \in InbTag, kind \in InbKinds, detour \in InbTag \cup {NoDetour} : EditInbound(id, tag, kind, detour)
  \/ \E id \in DOMAIN inbs : DelInbound(id)
  \/ TlsEdit \/ RebuildLocalLinks
  \/ \E n \in ListClient, on \in SUBSET (1..lastInb) : NewClient(n, on)
  \/ \E on \in SUBSET (1..lastInb), config \in {0, 1} : EditLinkedClient(on, config)
  \/ \E batch \in SUBSET ListClient, on \in SUBSET (1..lastInb) : EditLinkedBulk(batch, on)
  \/ \E batch \in SUBSET ListClient : DelClients(batch)
  \/ \E tag \in InbTag, kind \in InbKinds : Adopt(tag, kind)
  \/ \E id \in DOMAIN inbs, kind \in InbKinds : RefreshReplica(id, kind)
  \/ \E new \in NodeNames : RenameNode(new)
GraphStep ==
  \/ \E n \in ListClient : LoadForm(n)
  \/ PassStarts \/ PassReads \/ PassEnds
  \/ \E n \in ListClient : PassWrites(n)
GraphNext ==
  \/ saves < MaxSaves /\ saves' = saves + 1 /\ GraphSave
  \/ saves' = saves /\ GraphStep

GraphSpec == GraphInit /\ [][GraphNext]_graphVars

-----------------------------------------------------------------------------
(* Properties. *)

LocalIn(links) == {l \in ToSet(links) : l.type = "local"}
LocalOnce(links) == \A j, k \in DOMAIN links : links[j] = links[k] /\ links[j].type = "local" => j = k
\* Every client's local links are exactly the current links of the local inbounds it is on, each
\* once, whatever order inbounds, TLS rows, settings and clients were saved in.  Until its next save
\* a client may have others when a pass of refreshNodeLinks wrote links it had computed from an
\* older row, or when an inbound is tagged like a node's link and a delete or a rename took it for one.
LocalLinksCurrent ==
  \A n \in DOMAIN clients \ overwritten :
    LET c == clients[n]
    IN  /\ LocalIn(c.links) = {LocalLink(c, inbs[id], prefixOn) : id \in WithLink(inbs, c.on \cap Local(inbs))}
        /\ LocalOnce(c.links)

\* A link of the node is only in the list of a client that is on the replica it is for: access taken
\* away or a replica given up takes its link along at once, without the node.
NodeLinksBound ==
  \A n \in DOMAIN clients \ overwritten : \A k \in DOMAIN clients[n].links :
    LET l == clients[n].links[k] IN
    l.type # "local" /\ l # OwnLink =>
      \E id \in (clients[n].on \cap DOMAIN inbs) \ Local(inbs) : l.remark = <<nodeName>> \o inbs[id].tag

\* Saving a client from a tab loaded before the last pass takes no link of a replica the client is
\* still on: the node's links come from the stored row.
SaveKeepsNodeLinks ==
  [][inbs' = inbs /\ pass' = pass /\ nodeName' = nodeName =>
       \A n \in DOMAIN clients \cap DOMAIN clients' : \A id \in (clients'[n].on \cap DOMAIN inbs) \ Local(inbs) :
         \A l \in ToSet(clients[n].links) : isNodeLinkFor(l.remark, inbs[id].tag, nodeName) /\ l.type # "local"
                                              => l \in ToSet(clients'[n].links)]_graphVars

\* A detour keeps meaning the inbound it was saved for: the rider follows its rename, and it is not
\* deleted under it.
RidersFollow ==
  \A r \in Local(inbs) : rides[r] # 0 => rides[r] \in Local(inbs) /\ inbs[rides[r]].tag = inbs[r].detour

\* "refuses an inbound save that would leave a detour no subscription can honour": no detour names
\* a local inbound that has no client config.  A rename onto a tag some detour names is not asked, which
\* refutes it (README, section 6).
DetourRidable ==
  \A r \in Local(inbs) : \A t \in DetourTarget(r, inbs[r].detour) : HasClientConfig(inbs[t])

GraphTypeOK ==
  /\ DOMAIN rides = DOMAIN inbs /\ DOMAIN inbs \subseteq 1..lastInb /\ DOMAIN clients \subseteq ListClient
  /\ \A id, o \in DOMAIN inbs : inbs[id].tag = inbs[o].tag => id = o
  /\ overwritten \subseteq DOMAIN clients

\* What the rows say of each other, in one: local links, node links and detours follow
\* every save, and a save from an old tab takes no node link.
LinkSafety ==
  [](GraphTypeOK /\ LocalLinksCurrent /\ NodeLinksBound /\ RidersFollow) /\ SaveKeepsNodeLinks
=============================================================================
