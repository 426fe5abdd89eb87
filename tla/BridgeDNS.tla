------------------------------ MODULE BridgeDNS ------------------------------
(***************************************************************************)
(* The DNS responder of the wildcard bridge across reloads of Caddy, with   *)
(* the names it shares with the config, the certificates, the routes and    *)
(* the health store.  Every POST /load makes a new App; Caddy starts it     *)
(* while the old one still serves the same nodes, and then stops the old    *)
(* one, or the new one if another app fails.                                *)
(*                                                                          *)
(* Outside src/: Caddy (Reload, OtherAppFails, Switch), the tailnet, where  *)
(* a Listen may fail, and miekg/dns, whose Shutdown fails on a server whose *)
(* goroutine has not yet entered ActivateAndServe.                          *)
(*                                                                          *)
(* Simplifications: every community is included in the document, because   *)
(* main always passes a fallback certificate; two sockets of one node are   *)
(* independent; the polls and cert checks that bring dirs and certs are in  *)
(* WildcardPoller, here they happen at any time.                            *)
(***************************************************************************)
EXTENDS BridgeNames

CONSTANTS
  Files,     \* configuration files: sequences of [id, domain]
  Dirs,      \* directories a server may publish
  SANs,      \* SAN lists an installed certificate may have
  Families,  \* the address family of the personal nodes, 4 or 6
  MaxApps    \* bound on the number of Apps, that is of reloads

ASSUME DNSAssumption ==
  /\ \A f \in Files : f \in Seq([id : STRING, domain : Seq(STRING)])
  /\ \A dir \in Dirs : dir.services \subseteq Seq(STRING)
  /\ Families \subseteq {4, 6}
  /\ MaxApps \in Nat

NoDir == [domain |-> << >>, services |-> {}]
NoCert == {}

VARIABLES
  file,      \* the configuration file
  phase,     \* what the process, or Caddy's reload, is doing
  store,     \* the health store's domain maps
  dirs,      \* the last valid directory of each community
  certs,     \* the SANs of each community's certificate, or NoCert
  family,    \* of the tailnet addresses
  apps,      \* number of Apps so far; the last one is the one being started
  cur,       \* the App of the configuration Caddy runs, 0 before the first
  running,   \* [dirs, certs] in that configuration
  loading,   \* [dirs, certs] in the configuration being loaded
  todo,      \* nodes Start has not come to yet
  servers,   \* App.servers of each App
  socket,    \* the socket and goroutine of each App's servers
  victim,    \* the App being stopped
  failed,    \* history: Apps whose Start returned an error
  missed     \* history: servers whose Shutdown came before their goroutine

orchestrator == <<file, store, dirs, certs>>
caddy == <<cur, running, loading>>
vars == <<orchestrator, caddy, phase, family, apps, todo, servers, socket, victim, failed,
          missed>>

Apps == 1..MaxApps
Ids == {file[k].id : k \in DOMAIN file}
DomainOf(id) == file[CHOOSE k \in DOMAIN file : file[k].id = id].domain
Addr(id) == [family |-> family, node |-> id]
Content == [dirs |-> dirs, certs |-> certs]

Listening(app) == {id \in Ids : socket[app][id] \in {"bound", "serving"}}

Init ==
  /\ file \in Files
  /\ phase = "load"
  /\ store = NewStore
  /\ dirs = [id \in Ids |-> NoDir]
  /\ certs = [id \in Ids |-> NoCert]
  /\ family \in Families
  /\ apps = 0 /\ cur = 0 /\ victim = 0
  /\ running = Content /\ loading = Content
  /\ todo = {}
  /\ servers = [app \in Apps |-> {}]
  /\ socket = [app \in Apps |-> [id \in Ids |-> "none"]]
  /\ failed = {}
  /\ missed = {}
-----------------------------------------------------------------------------
(* The orchestrator.                                                        *)

Load ==
  /\ phase = "load"
  /\ phase' = IF LoadOK(file) THEN "register" ELSE "refused"
  /\ UNCHANGED <<orchestrator, caddy, family, apps, todo, servers, socket, victim, failed,
                 missed>>

\* poller.Start registers the domains in the order of the file.
Register(k) ==
  /\ phase = "register"
  /\ file[k].id \notin DOMAIN store.domains
  /\ \A j \in 1..(k - 1) : file[j].id \in DOMAIN store.domains
  /\ store' = SetDomain(store, file[k].id, file[k].domain)
  /\ UNCHANGED <<file, dirs, certs, caddy, phase, family, apps, todo, servers, socket,
                 victim, failed, missed>>

Registered ==
  /\ phase = "register"
  /\ Ids \subseteq DOMAIN store.domains
  /\ phase' = "idle"
  /\ UNCHANGED <<orchestrator, caddy, family, apps, todo, servers, socket, victim, failed,
                 missed>>

Polling == phase \notin {"load", "refused", "register"}

FetchOK(id, dir) ==
  /\ Polling
  /\ Validate(dir, DomainOf(id))
  /\ dirs' = [dirs EXCEPT ![id] = dir]
  /\ UNCHANGED <<file, store, certs, caddy, phase, family, apps, todo, servers, socket,
                 victim, failed, missed>>

\* reloadAllCerts comes before the registration, checkCerts after it.
CheckCert(id, sans) ==
  /\ phase \notin {"load", "refused"}
  /\ certs' = [certs EXCEPT ![id] = IF sansCover(sans, DomainOf(id)) THEN sans ELSE NoCert]
  /\ UNCHANGED <<file, store, dirs, caddy, phase, family, apps, todo, servers, socket,
                 victim, failed, missed>>
-----------------------------------------------------------------------------
(* A reload, and App.Start.                                                 *)

Reload ==
  /\ phase = "idle"
  /\ apps < MaxApps
  /\ phase' = "starting"
  /\ apps' = apps + 1
  /\ todo' = Ids
  /\ loading' = Content
  /\ UNCHANGED <<orchestrator, cur, running, family, servers, socket, victim, failed,
                 missed>>

\* The loop of Start ranges over a map, in any order.
StartNode(id) ==
  /\ phase = "starting"
  /\ id \in todo
  /\ todo' = todo \ {id}
  /\ servers' = [servers EXCEPT ![apps] = @ \cup {id}]
  /\ socket' = [socket EXCEPT ![apps][id] = "bound"]
  /\ UNCHANGED <<orchestrator, caddy, phase, family, apps, victim, failed, missed>>

\* Listen or localIP fails: Start returns, and Caddy stops the apps it had
\* started, this one not among them.
StartFails(id) ==
  /\ phase = "starting"
  /\ id \in todo
  /\ phase' = "idle"
  /\ todo' = {}
  /\ failed' = failed \cup {apps}
  /\ UNCHANGED <<orchestrator, caddy, family, apps, servers, socket, victim, missed>>

\* The goroutine enters ActivateAndServe, in its own time.
Activate(app, id) ==
  /\ socket[app][id] = "bound"
  /\ socket' = [socket EXCEPT ![app][id] = "serving"]
  /\ UNCHANGED <<orchestrator, caddy, phase, family, apps, todo, servers, victim, failed,
                 missed>>

\* Start has returned nil, but another app does not start: Caddy keeps the
\* old configuration and stops the new App.
OtherAppFails ==
  /\ phase = "starting" /\ todo = {}
  /\ phase' = "stopping"
  /\ victim' = apps
  /\ UNCHANGED <<orchestrator, caddy, family, apps, todo, servers, socket, failed, missed>>

\* All apps have started: Caddy runs the new configuration and stops the old.
Switch ==
  /\ phase = "starting" /\ todo = {}
  /\ phase' = "stopping"
  /\ cur' = apps
  /\ running' = loading
  /\ victim' = cur
  /\ UNCHANGED <<orchestrator, loading, family, apps, todo, servers, socket, failed, missed>>
-----------------------------------------------------------------------------
(* App.Stop.                                                                *)

\* Mutant of Shutdown: the sockets of a node are one and the same.
ShutdownShared(id) ==
  /\ phase = "stopping" /\ victim # 0
  /\ id \in servers[victim]
  /\ servers' = [servers EXCEPT ![victim] = @ \ {id}]
  /\ socket' = [app \in Apps |-> [socket[app] EXCEPT ![id] = "closed"]]
  /\ UNCHANGED <<orchestrator, caddy, phase, family, apps, todo, victim, failed, missed>>

\* Mutant of Shutdown: the first error ends the loop.
ShutdownGivesUp(id) ==
  /\ phase = "stopping" /\ victim # 0
  /\ id \in servers[victim]
  /\ IF socket[victim][id] = "serving"
       THEN /\ servers' = [servers EXCEPT ![victim] = @ \ {id}]
            /\ socket' = [socket EXCEPT ![victim][id] = "closed"]
            /\ UNCHANGED missed
       ELSE /\ servers' = [servers EXCEPT ![victim] = {}]
            /\ missed' = missed \cup {<<victim, id>>}
            /\ UNCHANGED socket
  /\ UNCHANGED <<orchestrator, caddy, phase, family, apps, todo, victim, failed>>

\* One step of the loop: Shutdown closes the socket of a server that serves,
\* and returns an error for one that does not yet.
Shutdown(id) ==
  /\ phase = "stopping" /\ victim # 0
  /\ id \in servers[victim]
  /\ servers' = [servers EXCEPT ![victim] = @ \ {id}]
  /\ IF socket[victim][id] = "serving"
       THEN socket' = [socket EXCEPT ![victim][id] = "closed"] /\ UNCHANGED missed
       ELSE missed' = missed \cup {<<victim, id>>} /\ UNCHANGED socket
  /\ UNCHANGED <<orchestrator, caddy, phase, family, apps, todo, victim, failed>>

Stopped ==
  /\ phase = "stopping"
  /\ victim # 0 => servers[victim] = {}
  /\ phase' = "idle"
  /\ victim' = 0
  /\ UNCHANGED <<orchestrator, caddy, family, apps, todo, servers, socket, failed, missed>>
-----------------------------------------------------------------------------
(* The routes of Caddy for a host: buildServer, and Caddy's matching.       *)

ServiceOK(content, id) ==
  content.certs[id] # NoCert /\ content.dirs[id].services # {}

\* What the server of community id serves host with.
Route(content, id, host) ==
  LET hit == {svc \in content.dirs[id].services :
                CanonicalHostname(content.dirs[id], svc) = host}
  IN  CASE ServiceOK(content, id) /\ hit # {} -> [to |-> "service", services |-> hit]
        [] OTHER -> [to |-> IF Matches(<<"*">> \o DomainOf(id), host)
                              THEN "error" ELSE "empty",
                     services |-> {}]
-----------------------------------------------------------------------------
Next ==
  \/ Load \/ Registered
  \/ \E k \in DOMAIN file : Register(k)
  \/ \E id \in Ids : \/ \E dir \in Dirs : FetchOK(id, dir)
                     \/ \E sans \in SANs : CheckCert(id, sans)
  \/ Reload \/ OtherAppFails \/ Switch \/ Stopped
  \/ \E id \in Ids : StartNode(id) \/ StartFails(id) \/ Shutdown(id)
  \/ \E app \in Apps, id \in Ids : Activate(app, id)

Spec == Init /\ [][Next]_vars
-----------------------------------------------------------------------------
(* Properties.                                                              *)

Phases == {"load", "refused", "register", "idle", "starting", "stopping"}

\* The types of the state of the responder, and of the store's reverse map.
TypeOK ==
  /\ phase \in Phases
  /\ DOMAIN store.domains \subseteq Ids
  /\ \A domain \in DOMAIN store.reverse :
       store.reverse[domain] \in Ids /\ DomainOf(store.reverse[domain]) = domain
  /\ apps \in 0..MaxApps /\ cur \in 0..apps /\ victim \in 0..apps
  /\ todo \subseteq Ids
  /\ servers \in [Apps -> SUBSET Ids]
  /\ socket \in [Apps -> [Ids -> {"none", "bound", "serving", "closed"}]]
  /\ failed \subseteq Apps
  /\ missed \subseteq Apps \X Ids

\* The names that are asked for: in, above, below and beside every domain of
\* the file.
Domains == {file[k].domain : k \in DOMAIN file}
Heads == {<<"">>, <<"wiki">>, <<"ts">>, <<"a", "wiki">>}
Asked == UNION {{d, Tail(d)} \cup {h \o d : h \in Heads} : d \in Domains}

QTypes == {"A", "AAAA", "HTTPS", "TXT"}

\* A name that a responder gives an address for, whichever App it is left from,
\* is served by the community it leads to: the address is that of its node, the
\* certificate of its server covers the name, its server has a route for it,
\* and the error page attributes it to a community with the same domain.
AnswersLeadHome ==
  \A app \in Apps : \A id \in Listening(app) :
    \A name \in Asked, qtype \in QTypes :
      LET response == handle(DomainOf(id), Addr(id), name, qtype)
          owner == CommunityIDForHost(store, name)
      IN  response.answer # {} =>
            /\ response.answer = {Addr(id)}
            /\ owner \in Ids /\ DomainOf(owner) = DomainOf(id)
            /\ certs[id] # NoCert => \E san \in certs[id] : Matches(san, name)
            /\ cur # 0 => Route(running, id, name).to # "empty"

\* Every service that a running configuration routes can be reached: its host
\* has an address, by A or AAAA, on the node whose server has its route, the
\* certificate covers it, and that route is the service's alone.  The server of
\* another domain neither routes the host nor has an error page for it (two
\* communities with one domain share their hosts).
ServicesReachable ==
  cur # 0 =>
    \A id \in Ids : ServiceOK(running, id) =>
      \A svc \in running.dirs[id].services :
        LET host == CanonicalHostname(running.dirs[id], svc)
        IN  /\ \E qtype \in {"A", "AAAA"} :
                 handle(DomainOf(id), Addr(id), host, qtype).answer = {Addr(id)}
            /\ \E san \in running.certs[id] : Matches(san, host)
            /\ Route(running, id, host) = [to |-> "service", services |-> {svc}]
            /\ \A other \in Ids : DomainOf(other) # DomainOf(id) =>
                 Route(running, other, host).to = "empty"

\* What the leak checker probes, the apex and the canary label below it, is
\* recorded for a community with that domain.
ProbesFindTheirCommunity ==
  Polling =>
    \A id \in Ids : \A probe \in {DomainOf(id), <<"canary">> \o DomainOf(id)} :
      LET owner == matchCommunityLocked(store, probe)
      IN  owner \in Ids /\ DomainOf(owner) = DomainOf(id)

\* From its first configuration on, Caddy always has a socket for every
\* community, in the middle of a reload and after one that failed, too.
NeverWithoutDNS == cur # 0 => Listening(cur) = Ids

\* A socket that belongs neither to the configuration that runs nor to a reload
\* under way is left from a Start that failed or from a Shutdown that came
\* before the goroutine it should have ended.
LeftoversExplained ==
  \A app \in Apps : \A id \in Listening(app) :
    \/ app = cur
    \/ app = apps /\ phase = "starting"
    \/ app = victim /\ id \in servers[app]
    \/ app \in failed
    \/ <<app, id>> \in missed
=============================================================================
