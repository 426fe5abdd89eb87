--------------------------- MODULE BridgeDNSProofs ---------------------------
(***************************************************************************)
(* Names of two communities never meet, whatever their labels; and the      *)
(* sockets of the DNS responder over any number of reloads.                 *)
(***************************************************************************)
EXTENDS BridgeDNS, SequenceTheorems, TLAPS

\* One label below a domain means that the domain is what follows the first
\* label.
LEMMA ChildTail ==
  ASSUME NEW L, NEW name \in Seq(L), NEW domain \in Seq(L),
         IsChild(name, domain)
  PROVE  name # << >> /\ Tail(name) = domain
<1>1. Len(domain) \in Nat /\ Len(name) = Len(domain) + 1
  BY LenProperties DEF IsChild
<1>2. name # << >>
  BY <1>1, LenProperties, EmptySeq
<1>3. domain = SubSeq(name, 2, Len(name))
  BY <1>1 DEF IsChild, IsBelow
<1>4. Tail(name) = SubSeq(name, 2, Len(name))
  BY <1>2, TailIsSubSeq
<1> QED
  BY <1>2, <1>3, <1>4

\* A name that is in the zone of one configured community, one label below its
\* domain, is neither the apex nor in the zone of a community with another
\* domain: the common base domain that Load insists on rules it out.
THEOREM NamesNeverShared ==
  ASSUME NEW L, NEW conf \in Seq([id : STRING, domain : Seq(L)]), LoadOK(conf),
         NEW i \in DOMAIN conf, NEW j \in DOMAIN conf, NEW name \in Seq(L),
         IsChild(name, conf[i].domain),
         name = conf[j].domain \/ IsChild(name, conf[j].domain)
  PROVE  conf[i].domain = conf[j].domain
<1> DEFINE di == conf[i].domain
           dj == conf[j].domain
<1>1. di \in Seq(L) /\ dj \in Seq(L)
  <2>1. \A k \in DOMAIN conf : conf[k] \in [id : STRING, domain : Seq(L)]
    BY ElementOfSeq, LenProperties
  <2> QED
    BY <2>1
<1>2. name # << >> /\ Tail(name) = di
  BY <1>1, ChildTail
<1>3. CASE IsChild(name, dj)
  BY <1>1, <1>2, <1>3, ChildTail
<1>4. CASE name = dj
  <2>1. Tail(di) = Tail(dj) /\ Len(di) >= 4 /\ Len(dj) >= 4
    BY DEF LoadOK, BaseDomain, ValidateBridgeDomain
  <2>2. di # << >> /\ dj # << >>
    BY <1>1, <2>1, EmptySeq
  <2>3. Len(Tail(di)) = Len(di) - 1 /\ Len(Tail(dj)) = Len(dj) - 1
    BY <1>1, <2>2, HeadTailProperties
  <2>4. Len(di) \in Nat /\ Len(dj) \in Nat
    BY <1>1, LenProperties
  <2>5. Len(di) = Len(dj)
    <3>1. Len(Tail(di)) = Len(Tail(dj))
      BY <2>1
    <3> QED
      BY <3>1, <2>3, <2>4
  <2>6. Len(dj) = Len(di) + 1
    BY <1>4 DEF IsChild
  <2> QED
    BY <2>4, <2>5, <2>6
<1> QED
  BY <1>3, <1>4
-----------------------------------------------------------------------------
(* The responder.                                                           *)

Open(app, id) == socket[app][id] \in {"bound", "serving"}

\* The types of the responder's variables.
DNSTypeOK ==
  /\ phase \in Phases
  /\ apps \in 0..MaxApps /\ cur \in 0..apps /\ victim \in 0..apps
  /\ todo \subseteq Ids
  /\ servers \in [Apps -> SUBSET Ids]
  /\ socket \in [Apps -> [Ids -> {"none", "bound", "serving", "closed"}]]

\* An App that has not been made has no server; Start has a server and a socket
\* for each node it has come to, and for no other; the App that runs has all.
Started ==
  /\ \A app \in Apps, id \in Ids :
       app > apps => socket[app][id] = "none" /\ id \notin servers[app]
  /\ phase = "starting" =>
       /\ apps > cur
       /\ \A id \in Ids : id \notin todo => Open(apps, id)
       /\ \A id \in Ids : id \in servers[apps] <=> id \notin todo
       /\ \A id \in todo : ~Open(apps, id)
  /\ cur # 0 => servers[cur] = Ids /\ \A id \in Ids : Open(cur, id)

\* Nobody stops the App that runs.
NotTheRunning ==
  IF phase = "stopping" THEN victim # cur ELSE victim = 0

\* LeftoversExplained, without Listening.
Explained ==
  \A app \in Apps, id \in Ids : Open(app, id) =>
    \/ app = cur
    \/ app = apps /\ phase = "starting"
    \/ app = victim /\ id \in servers[app]
    \/ app \in failed
    \/ <<app, id>> \in missed

Sockets == DNSTypeOK /\ Started /\ NotTheRunning /\ Explained

LEMMA SocketsInit == Init => Sockets
<1> SUFFICES ASSUME Init PROVE Sockets
  OBVIOUS
<1>1. DNSTypeOK
  BY DNSAssumption DEF Init, DNSTypeOK, Phases, DNSAssumption
<1>2. Started /\ NotTheRunning /\ Explained
  BY DEF Init, Started, NotTheRunning, Explained, Open, Apps
<1> QED
  BY <1>1, <1>2 DEF Sockets

LEMMA SocketsNext == Sockets /\ [Next]_vars => Sockets'
<1> SUFFICES ASSUME Sockets, [Next]_vars PROVE Sockets'
  OBVIOUS
<1>m. MaxApps \in Nat
  BY DNSAssumption DEF DNSAssumption
<1> USE <1>m DEF Apps, Phases, Sockets, DNSTypeOK, Started,
        NotTheRunning, Explained, Open, orchestrator, caddy
<1>a. file' = file
  BY DEF Next, Load, Registered, Register, FetchOK, CheckCert, Reload, OtherAppFails, Switch, Stopped,
         StartNode, StartFails, Shutdown, Activate, vars
<1>b. Ids' = Ids
  BY <1>a DEF Ids
<1>1. ASSUME UNCHANGED <<cur, apps, todo, servers, socket, victim, failed, missed>>,
             phase \in {"load", "register"} \/ phase' = phase,
             phase' \in {"register", "refused", "idle", phase}
      PROVE  Sockets'
  BY <1>1, <1>b
<1>2. CASE Load
  BY <1>1, <1>2 DEF Load
<1>3. CASE Registered \/ \E k \in DOMAIN file : Register(k)
  BY <1>1, <1>3 DEF Registered, Register
<1>4. ASSUME NEW id \in Ids, NEW dir \in Dirs, FetchOK(id, dir) PROVE Sockets'
  BY <1>1, <1>4 DEF FetchOK
<1>5. ASSUME NEW id \in Ids, NEW sans \in SANs, CheckCert(id, sans) PROVE Sockets'
  BY <1>1, <1>5 DEF CheckCert
<1>6. CASE Reload
  <2>1. DNSTypeOK'
    BY <1>6, <1>b DEF Reload
  <2>2. Started'
    <3>1. apps' = apps + 1 /\ apps' \in Apps /\ cur < apps'
      BY <1>6 DEF Reload
    <3>2. \A id \in Ids : socket[apps'][id] = "none"
      BY <3>1
    <3>3. \A id \in Ids : id \notin servers[apps']
      BY <3>1, <3>2
    <3> QED
      BY <1>6, <1>b, <3>1, <3>2, <3>3 DEF Reload
  <2>3. NotTheRunning'
    BY <1>6, <1>b DEF Reload
  <2>4. Explained'
    BY <1>6, <1>b DEF Reload
  <2> QED
    BY <2>1, <2>2, <2>3, <2>4
<1>7. CASE OtherAppFails
  BY <1>7, <1>b DEF OtherAppFails
<1>8. CASE Switch
  <2>1. DNSTypeOK'
    BY <1>8, <1>b DEF Switch
  <2>2. Started'
    <3>1. apps \in Apps
      BY <1>8 DEF Switch
    <3>2. servers[apps] = Ids /\ \A id \in Ids : Open(apps, id)
      BY <1>8, <3>1 DEF Switch
    <3> QED
      BY <1>8, <1>b, <3>1, <3>2 DEF Switch
  <2>3. NotTheRunning'
    BY <1>8, <1>b DEF Switch
  <2>4. Explained'
    BY <1>8, <1>b DEF Switch
  <2> QED
    BY <2>1, <2>2, <2>3, <2>4
<1>9. CASE Stopped
  BY <1>9, <1>b DEF Stopped
<1>10. ASSUME NEW id \in Ids, StartNode(id) PROVE Sockets'
  BY <1>10, <1>b DEF StartNode
<1>11. ASSUME NEW id \in Ids, StartFails(id) PROVE Sockets'
  BY <1>11, <1>b DEF StartFails
<1>12. ASSUME NEW id \in Ids, Shutdown(id) PROVE Sockets'
  <2>1. DNSTypeOK'
    <3>1. servers' \in [Apps -> SUBSET Ids]
      BY <1>12 DEF Shutdown
    <3>2. socket' \in [Apps -> [Ids -> {"none", "bound", "serving", "closed"}]]
      <4>1. socket' = socket \/ socket' = [socket EXCEPT ![victim][id] = "closed"]
        BY <1>12 DEF Shutdown
      <4> QED
        BY <4>1
    <3> QED
      BY <1>12, <1>b, <3>1, <3>2 DEF Shutdown
  <2>2. Started'
    BY <1>12, <1>b DEF Shutdown
  <2>3. NotTheRunning'
    BY <1>12, <1>b DEF Shutdown
  <2>4. Explained'
    BY <1>12, <1>b DEF Shutdown
  <2> QED
    BY <2>1, <2>2, <2>3, <2>4
<1>13. ASSUME NEW app \in Apps, NEW id \in Ids, Activate(app, id) PROVE Sockets'
  BY <1>13, <1>b DEF Activate
<1>14. CASE UNCHANGED vars
  BY <1>14, <1>1 DEF vars
<1> QED
  BY <1>2, <1>3, <1>4, <1>5, <1>6, <1>7, <1>8, <1>9, <1>10, <1>11, <1>12, <1>13, <1>14
  DEF Next

LEMMA SocketsAlways == Spec => []Sockets
BY SocketsInit, SocketsNext, PTL DEF Spec

\* From its first configuration on, Caddy has a socket for every community.
THEOREM DNSNeverWithout == Spec => []NeverWithoutDNS
<1>1. Sockets => NeverWithoutDNS
  BY DEF Sockets, Started, NeverWithoutDNS, Listening, Open
<1> QED
  BY <1>1, SocketsAlways, PTL

\* Every socket that stays behind is left from a Start that failed or from a
\* Shutdown that came before its goroutine.
THEOREM DNSLeftovers == Spec => []LeftoversExplained
<1>1. Sockets => LeftoversExplained
  BY DEF Sockets, Explained, LeftoversExplained, Listening, Open
<1> QED
  BY <1>1, SocketsAlways, PTL
-----------------------------------------------------------------------------
(* The names.  The strengthening: what Load has accepted, and how the maps  *)
(* of the store and the certificates relate to it.                          *)

StoreKnows ==
  /\ \A domain \in DOMAIN store.reverse :
       \E k \in DOMAIN file : store.reverse[domain] = file[k].id /\ domain = file[k].domain
  /\ \A k \in DOMAIN file :
       file[k].id \in DOMAIN store.domains => file[k].domain \in DOMAIN store.reverse
  /\ Polling => Ids \subseteq DOMAIN store.domains

NamesKnow ==
  /\ file \in Files
  /\ phase \notin {"load", "refused"} => LoadOK(file)
  /\ ~Polling => apps = 0
  /\ StoreKnows
  /\ certs \in [Ids -> {NoCert} \cup SANs]
  /\ \A id \in Ids : certs[id] # NoCert => <<"*">> \o DomainOf(id) \in certs[id]

LEMMA NamesInit == Init => NamesKnow
BY DEF Init, NamesKnow, StoreKnows, Polling, NewStore

LEMMA NamesNext == Sockets /\ NamesKnow /\ [Next]_vars => NamesKnow'
<1> SUFFICES ASSUME Sockets, NamesKnow, [Next]_vars PROVE NamesKnow'
  OBVIOUS
<1> USE DEF NamesKnow, Polling, orchestrator, caddy
<1>a. file' = file
  BY DEF Next, Load, Registered, Register, FetchOK, CheckCert, Reload, OtherAppFails, Switch,
         Stopped, StartNode, StartFails, Shutdown, Activate, vars
<1>b. Ids' = Ids /\ \A id : DomainOf(id)' = DomainOf(id)
  BY <1>a DEF Ids, DomainOf
<1>1. CASE Load
  BY <1>1, <1>a, <1>b DEF Load, StoreKnows
<1>2. CASE Registered
  BY <1>2, <1>a, <1>b DEF Registered, StoreKnows
<1>3. ASSUME NEW k \in DOMAIN file, Register(k) PROVE NamesKnow'
  <2>1. store' = [domains |-> With(store.domains, file[k].id, file[k].domain),
                  reverse |-> With(store.reverse, file[k].domain, file[k].id)]
    BY <1>3 DEF Register, SetDomain
  <2>2. DOMAIN store'.domains = DOMAIN store.domains \cup {file[k].id}
    BY <2>1 DEF With
  <2>3. DOMAIN store'.reverse = DOMAIN store.reverse \cup {file[k].domain}
    BY <2>1 DEF With
  <2>4. \A d \in DOMAIN store'.reverse :
          store'.reverse[d] = IF d = file[k].domain THEN file[k].id ELSE store.reverse[d]
    BY <2>1, <2>3 DEF With
  <2>5. phase = "register" /\ phase' = phase
    BY <1>3 DEF Register
  <2>6. \A d \in DOMAIN store'.reverse :
          \E j \in DOMAIN file : store'.reverse[d] = file[j].id /\ d = file[j].domain
    <3> TAKE d \in DOMAIN store'.reverse
    <3>1. CASE d = file[k].domain
      BY <3>1, <2>4
    <3>2. CASE d # file[k].domain
      BY <3>2, <2>3, <2>4 DEF StoreKnows
    <3> QED
      BY <3>1, <3>2
  <2>7. \A j \in DOMAIN file :
          file[j].id \in DOMAIN store'.domains => file[j].domain \in DOMAIN store'.reverse
    <3> TAKE j \in DOMAIN file
    <3>1. CASE file[j].id = file[k].id
      <4>1. LoadOK(file)
        BY <2>5
      <4>2. j = k
        BY <3>1, <4>1 DEF LoadOK
      <4> QED
        BY <4>2, <2>3
    <3>2. CASE file[j].id # file[k].id
      BY <3>2, <2>2, <2>3 DEF StoreKnows
    <3> QED
      BY <3>1, <3>2
  <2>8. StoreKnows'
    BY <1>a, <2>5, <2>6, <2>7 DEF StoreKnows
  <2> QED
    BY <1>3, <1>a, <1>b, <2>8 DEF Register
<1>4. ASSUME NEW id \in Ids, NEW dir \in Dirs, FetchOK(id, dir) PROVE NamesKnow'
  BY <1>4, <1>a, <1>b DEF FetchOK, StoreKnows
<1>5. ASSUME NEW id \in Ids, NEW sans \in SANs, CheckCert(id, sans) PROVE NamesKnow'
  BY <1>5, <1>a, <1>b DEF CheckCert, StoreKnows, sansCover
<1>6. ASSUME UNCHANGED <<store, certs>>, Polling, Polling' PROVE NamesKnow'
  BY <1>6, <1>a, <1>b DEF StoreKnows
<1>7. CASE Reload \/ OtherAppFails \/ Switch \/ Stopped
  BY <1>6, <1>7 DEF Reload, OtherAppFails, Switch, Stopped
<1>8. ASSUME NEW id \in Ids, StartNode(id) \/ StartFails(id) \/ Shutdown(id) PROVE NamesKnow'
  BY <1>6, <1>8 DEF StartNode, StartFails, Shutdown
<1>9. ASSUME NEW app \in Apps, NEW id \in Ids, Activate(app, id) PROVE NamesKnow'
  <2>1. apps # 0
    BY <1>9 DEF Activate, Sockets, DNSTypeOK, Started, Apps
  <2> QED
    BY <1>6, <1>9, <2>1 DEF Activate
<1>10. CASE UNCHANGED vars
  BY <1>10, <1>a, <1>b DEF vars, StoreKnows
<1> QED
  BY <1>1, <1>2, <1>3, <1>4, <1>5, <1>7, <1>8, <1>9, <1>10 DEF Next

LEMMA NamesAlways == Spec => []NamesKnow
BY NamesInit, NamesNext, SocketsAlways, PTL DEF Spec

\* The domain of a community is the one of its entry.
LEMMA DomainOfEntry ==
  ASSUME LoadOK(file), NEW k \in DOMAIN file
  PROVE  DomainOf(file[k].id) = file[k].domain
BY DEF DomainOf, LoadOK

\* The labels of the files and those the properties add (a set of strings,
\* but the provers know no string constant to be in STRING).
Labels == STRING \cup {"*", "", "wiki", "ts", "a", "canary"}

LEMMA SeqMonotone ==
  ASSUME NEW S, NEW T, S \subseteq T
  PROVE  Seq(S) \subseteq Seq(T)
<1> SUFFICES ASSUME NEW s \in Seq(S) PROVE s \in Seq(T)
  OBVIOUS
<1>1. s = [i \in 1..Len(s) |-> s[i]] /\ Len(s) \in Nat
  BY LenProperties
<1>2. \A i \in 1..Len(s) : s[i] \in T
  BY ElementOfSeq
<1>3. [i \in 1..Len(s) |-> s[i]] \in Seq(T)
  BY <1>1, <1>2, IsASeq
<1> QED
  BY <1>1, <1>3

LEMMA OneLabel ==
  ASSUME NEW S, NEW label \in S
  PROVE  <<label>> \in Seq(S) /\ Len(<<label>>) = 1 /\ <<label>>[1] = label
<1>1. <<label>> = [i \in 1..1 |-> label]
  OBVIOUS
<1>2. [i \in 1..1 |-> label] \in Seq(S)
  BY IsASeq
<1> QED
  BY <1>1, <1>2

LEMMA TwoLabels ==
  ASSUME NEW S, NEW label \in S, NEW next \in S
  PROVE  <<label, next>> \in Seq(S)
<1>1. <<label, next>> = [i \in 1..2 |-> IF i = 1 THEN label ELSE next]
  OBVIOUS
<1>2. [i \in 1..2 |-> IF i = 1 THEN label ELSE next] \in Seq(S)
  BY IsASeq
<1> QED
  BY <1>1, <1>2

\* The SAN of a zone: "*" before its domain.
LEMMA Wildcard ==
  ASSUME NEW domain \in Seq(Labels)
  PROVE  LET san == <<"*">> \o domain
         IN  /\ san \in Seq(Labels) /\ Len(san) = 1 + Len(domain)
             /\ san[1] = "*" /\ Tail(san) = domain
<1> DEFINE san == <<"*">> \o domain
<1>1. <<"*">> \in Seq(Labels) /\ Len(<<"*">>) = 1 /\ <<"*">>[1] = "*"
  <2>1. "*" \in Labels
    BY DEF Labels
  <2> QED
    BY <2>1, OneLabel
<1>2. san \in Seq(Labels) /\ Len(san) = 1 + Len(domain)
  BY <1>1, ConcatProperties
<1>3. san[1] = "*"
  BY <1>1, <1>2, ConcatProperties, LenProperties
<1>4. san # << >>
  BY <1>2, LenProperties, EmptySeq
<1>5. Tail(san) = domain
  <2>1. Tail(san) \in Seq(Labels) /\ Len(Tail(san)) = Len(domain)
    BY <1>2, <1>4, HeadTailProperties, LenProperties
  <2>2. \A i \in 1..Len(domain) : Tail(san)[i] = domain[i]
    <3> TAKE i \in 1..Len(domain)
    <3>1. Tail(san)[i] = san[i + 1]
      BY <1>2, <1>4, <2>1, HeadTailProperties
    <3>2. san[i + 1] = domain[i]
      BY <1>1, <1>2, ConcatProperties, LenProperties
    <3> QED
      BY <3>1, <3>2
  <2> QED
    BY <2>1, <2>2, SeqEqual
<1> QED
  BY <1>2, <1>3, <1>5

\* The wildcard of a domain matches the names one label below it.
LEMMA WildcardMatches ==
  ASSUME NEW domain \in Seq(Labels), NEW name \in Seq(Labels), IsChild(name, domain)
  PROVE  Matches(<<"*">> \o domain, name)
<1> DEFINE san == <<"*">> \o domain
<1>1. /\ san \in Seq(Labels) /\ Len(san) = 1 + Len(domain)
      /\ san[1] = "*" /\ Tail(san) = domain
  BY Wildcard
<1>2. Tail(name) = domain
  BY ChildTail
<1>3. Len(name) = Len(san)
  BY <1>1, LenProperties DEF IsChild
<1> HIDE DEF san
<1>4. Matches(san, name)
  BY <1>1, <1>2, <1>3 DEF Matches
<1> QED
  BY <1>4 DEF san

\* ... and no name one label below another domain.
LEMMA WildcardMatchesNoOther ==
  ASSUME NEW domain \in Seq(Labels), NEW other \in Seq(Labels),
         NEW name \in Seq(Labels), IsChild(name, domain), other # domain
  PROVE  ~Matches(<<"*">> \o other, name)
<1> DEFINE san == <<"*">> \o other
<1>1. Tail(san) = other
  BY Wildcard
<1>2. Tail(name) = domain
  BY ChildTail
<1> HIDE DEF san
<1>3. ~Matches(san, name)
  BY <1>1, <1>2 DEF Matches
<1> QED
  BY <1>3 DEF san

\* A single label before a domain is a name one label below it.
LEMMA LabelBefore ==
  ASSUME NEW S, NEW domain \in Seq(S), NEW svc \in Seq(S), Len(svc) = 1
  PROVE  /\ svc \o domain \in Seq(S)
         /\ IsChild(svc \o domain, domain)
         /\ (svc \o domain)[1] = svc[1]
<1> DEFINE name == svc \o domain
<1>1. name \in Seq(S) /\ Len(name) = 1 + Len(domain) /\ Len(domain) \in Nat
  BY ConcatProperties, LenProperties
<1>2. \A i \in 1..(1 + Len(domain)) : name[i] = IF i <= 1 THEN svc[i] ELSE domain[i - 1]
  <2>1. \A i \in 1..(Len(svc) + Len(domain)) :
          name[i] = IF i <= Len(svc) THEN svc[i] ELSE domain[i - Len(svc)]
    BY ConcatProperties
  <2> HIDE DEF name
  <2> QED
    BY <2>1
<1>3. name # << >>
  BY <1>1, EmptySeq
<1>4. Tail(name) \in Seq(S) /\ Len(Tail(name)) = Len(domain)
  BY <1>1, <1>3, HeadTailProperties
<1>5. \A i \in 1..Len(domain) : Tail(name)[i] = domain[i]
  <2> TAKE i \in 1..Len(domain)
  <2>1. Tail(name)[i] = name[i + 1]
    BY <1>1, <1>3, <1>4, HeadTailProperties
  <2> HIDE DEF name
  <2> QED
    BY <1>1, <1>2, <2>1
<1>6. Tail(name) = domain
  BY <1>4, <1>5, SeqEqual
<1>7. Tail(name) = SubSeq(name, 2, Len(name))
  BY <1>1, <1>3, TailIsSubSeq
<1> HIDE DEF name
<1>8. IsChild(name, domain)
  BY <1>1, <1>6, <1>7 DEF IsChild, IsBelow
<1>9. name[1] = svc[1]
  BY <1>1, <1>2
<1> QED
  BY <1>1, <1>8, <1>9 DEF name

\* The domains of an accepted file are names of at least four labels.
LEMMA DomainsAreNames ==
  ASSUME NamesKnow, LoadOK(file)
  PROVE  /\ file \in Seq([id : STRING, domain : Seq(Labels)])
         /\ \A j \in DOMAIN file : file[j].domain \in Seq(Labels) /\ Len(file[j].domain) >= 4
<1>1. file \in Seq([id : STRING, domain : Seq(Labels)])
  <2>1. file \in Seq([id : STRING, domain : Seq(STRING)])
    BY DNSAssumption DEF DNSAssumption, NamesKnow
  <2>2. Seq(STRING) \subseteq Seq(Labels)
    BY SeqMonotone DEF Labels
  <2>3. [id : STRING, domain : Seq(STRING)] \subseteq [id : STRING, domain : Seq(Labels)]
    BY <2>2
  <2> QED
    BY <2>1, <2>3, SeqMonotone
<1>2. \A j \in DOMAIN file : file[j].domain \in Seq(Labels) /\ Len(file[j].domain) >= 4
  <2> TAKE j \in DOMAIN file
  <2>1. file[j] \in [id : STRING, domain : Seq(Labels)]
    BY <1>1, ElementOfSeq, LenProperties
  <2> QED
    BY <2>1 DEF LoadOK, ValidateBridgeDomain
<1> QED
  BY <1>1, <1>2

\* AnswersLeadHome for one name and one type of query.
LeadsHome(id, name, qtype) ==
  LET response == handle(DomainOf(id), Addr(id), name, qtype)
      owner == CommunityIDForHost(store, name)
  IN  response.answer # {} =>
        /\ response.answer = {Addr(id)}
        /\ owner \in Ids /\ DomainOf(owner) = DomainOf(id)
        /\ certs[id] # NoCert => \E san \in certs[id] : Matches(san, name)
        /\ cur # 0 => Route(running, id, name).to # "empty"

\* Whatever name is asked for, and whatever the type of the query.
EveryAnswerLeadsHome ==
  \A app \in Apps : \A id \in Listening(app) :
    \A name \in Seq(Labels) : \A qtype : LeadsHome(id, name, qtype)

\* Any name that a responder answers, of any length and for any type of query,
\* leads to its community: in the address, the certificate, the routes and the
\* attribution.
THEOREM DNSEveryAnswerLeadsHome == Spec => []EveryAnswerLeadsHome
<1>1. Sockets /\ NamesKnow => EveryAnswerLeadsHome
  <2> SUFFICES ASSUME Sockets, NamesKnow,
                      NEW app \in Apps, NEW id \in Listening(app),
                      NEW name \in Seq(Labels), NEW qtype,
                      handle(DomainOf(id), Addr(id), name, qtype).answer # {}
               PROVE  LeadsHome(id, name, qtype)
    BY DEF EveryAnswerLeadsHome, LeadsHome
  <2>1. id \in Ids /\ Open(app, id)
    BY DEF Listening, Open
  <2>2. Polling
    BY <2>1 DEF Sockets, DNSTypeOK, Started, Open, Apps, NamesKnow
  <2>3. LoadOK(file) /\ Ids \subseteq DOMAIN store.domains
    BY <2>2 DEF NamesKnow, StoreKnows, Polling
  <2>4. PICK k \in DOMAIN file : id = file[k].id
    BY <2>1 DEF Ids
  <2> DEFINE domain == file[k].domain
  <2>5. DomainOf(id) = domain
    BY <2>3, <2>4, DomainOfEntry
  <2>6. file \in Seq([id : STRING, domain : Seq(Labels)])
    BY <2>3, DomainsAreNames
  <2>7. \A j \in DOMAIN file : file[j].domain \in Seq(Labels) /\ Len(file[j].domain) >= 4
    BY <2>3, DomainsAreNames
  <2>8. IsChild(name, domain)
    BY <2>5 DEF handle
  <2>9. Tail(name) = domain /\ Len(name) = Len(domain) + 1 /\ Len(name) > 1
    <3>1. Tail(name) = domain
      BY <2>7, <2>8, ChildTail
    <3>2. Len(name) = Len(domain) + 1 /\ Len(domain) >= 4 /\ Len(domain) \in Nat
      BY <2>7, <2>8, LenProperties DEF IsChild
    <3> QED
      BY <3>1, <3>2
  <2>10. name \notin DOMAIN store.reverse
    <3> SUFFICES ASSUME name \in DOMAIN store.reverse PROVE FALSE
      OBVIOUS
    <3>1. PICK j \in DOMAIN file : name = file[j].domain
      BY DEF NamesKnow, StoreKnows
    <3>2. domain = name
      BY <2>3, <2>6, <2>8, <3>1, NamesNeverShared
    <3>3. Len(domain) \in Nat
      BY <2>7, LenProperties
    <3> QED
      BY <2>9, <3>2, <3>3
  <2>11. PICK j \in DOMAIN file : store.reverse[domain] = file[j].id /\ domain = file[j].domain
    <3>1. domain \in DOMAIN store.reverse
      BY <2>1, <2>3, <2>4 DEF NamesKnow, StoreKnows
    <3> QED
      BY <3>1 DEF NamesKnow, StoreKnows
  <2>12. CommunityIDForHost(store, name) = file[j].id
    <3>1. domain \in DOMAIN store.reverse
      BY <2>1, <2>3, <2>4 DEF NamesKnow, StoreKnows
    <3> QED
      BY <3>1, <2>9, <2>10, <2>11 DEF CommunityIDForHost
  <2>13. file[j].id \in Ids /\ DomainOf(file[j].id) = domain
    BY <2>3, <2>11, DomainOfEntry DEF Ids
  <2>14. handle(DomainOf(id), Addr(id), name, qtype).answer = {Addr(id)}
    BY DEF handle, Records
  <2>15. Matches(<<"*">> \o domain, name)
    BY <2>7, <2>8, WildcardMatches
  <2>16. certs[id] # NoCert => \E san \in certs[id] : Matches(san, name)
    BY <2>1, <2>5, <2>15 DEF NamesKnow
  <2>17. Route(running, id, name).to # "empty"
    BY <2>5, <2>15 DEF Route
  <2> QED
    BY <2>5, <2>12, <2>13, <2>14, <2>16, <2>17 DEF LeadsHome
<1> QED
  BY <1>1, SocketsAlways, NamesAlways, PTL

\* The names that TLC asks for are names.
LEMMA AskedAreNames ==
  ASSUME NamesKnow, LoadOK(file), NEW name \in Asked
  PROVE  name \in Seq(Labels)
<1>1. \A j \in DOMAIN file : file[j].domain \in Seq(Labels) /\ Len(file[j].domain) >= 4
  BY DomainsAreNames
<1>2. \A j \in DOMAIN file : Tail(file[j].domain) \in Seq(Labels)
  <2> TAKE j \in DOMAIN file
  <2>1. file[j].domain # << >>
    BY <1>1, EmptySeq
  <2> QED
    BY <1>1, <2>1, HeadTailProperties
<1>3. \A j \in DOMAIN file, h \in Seq(Labels) : h \o file[j].domain \in Seq(Labels)
  BY <1>1, ConcatProperties
<1>4. \A h \in Heads : h \in Seq(Labels)
  <2>1. "" \in Labels /\ "wiki" \in Labels /\ "ts" \in Labels /\ "a" \in Labels
    BY DEF Labels
  <2> QED
    BY <2>1, OneLabel, TwoLabels DEF Heads
<1>5. PICK d \in Domains : name \in {d, Tail(d)} \cup {h \o d : h \in Heads}
  BY DEF Asked
<1>6. PICK j \in DOMAIN file : d = file[j].domain
  BY DEF Domains
<1>7. CASE name \in {d, Tail(d)}
  BY <1>1, <1>2, <1>6, <1>7
<1>8. CASE name \in {h \o d : h \in Heads}
  BY <1>3, <1>4, <1>6, <1>8
<1> QED
  BY <1>5, <1>7, <1>8

\* A name that a responder answers leads to its community: in the address, the
\* certificate, the routes and the attribution.
THEOREM DNSAnswersLeadHome == Spec => []AnswersLeadHome
<1>1. Sockets /\ NamesKnow /\ EveryAnswerLeadsHome => AnswersLeadHome
  <2> SUFFICES ASSUME Sockets, NamesKnow, EveryAnswerLeadsHome,
                      NEW app \in Apps, NEW id \in Listening(app),
                      NEW name \in Asked, NEW qtype \in QTypes
               PROVE  LeadsHome(id, name, qtype)
    BY DEF AnswersLeadHome, LeadsHome
  <2>1. Polling
    BY DEF Listening, Sockets, DNSTypeOK, Started, Open, Apps, NamesKnow
  <2>2. name \in Seq(Labels)
    BY <2>1, AskedAreNames DEF NamesKnow, Polling
  <2> QED
    BY <2>2 DEF EveryAnswerLeadsHome
<1> QED
  BY <1>1, SocketsAlways, NamesAlways, DNSEveryAnswerLeadsHome, PTL
-----------------------------------------------------------------------------
\* The longest registered suffix of a name: the name itself if it is one, and
\* otherwise the domain that it is one label below.
LEMMA LongestSuffix ==
  ASSUME NEW probe \in Seq(Labels), NEW k \in 1..Len(probe), NEW domains,
         SubSeq(probe, k, Len(probe)) \in domains,
         \A j \in 1..(k - 1) : SubSeq(probe, j, Len(probe)) \notin domains
  PROVE  LET suffixes == {j \in 1..Len(probe) : SubSeq(probe, j, Len(probe)) \in domains}
         IN  suffixes # {} /\ k = CHOOSE i \in suffixes : \A j \in suffixes : i <= j
<1> DEFINE suffixes == {j \in 1..Len(probe) : SubSeq(probe, j, Len(probe)) \in domains}
<1>1. Len(probe) \in Nat
  BY LenProperties
<1>2. k \in suffixes
  OBVIOUS
<1>3. \A j \in suffixes : j \in Nat /\ k <= j
  BY <1>1
<1> HIDE DEF suffixes
<1>4. \A i \in suffixes : (\A j \in suffixes : i <= j) => i = k
  BY <1>2, <1>3
<1>5. k = CHOOSE i \in suffixes : \A j \in suffixes : i <= j
  BY <1>2, <1>3, <1>4
<1> QED
  BY <1>2, <1>5 DEF suffixes

\* What the leak checker finds for a domain or its canary is recorded for a
\* community with that domain: no other registered domain is a longer suffix.
THEOREM DNSProbesFindTheirCommunity == Spec => []ProbesFindTheirCommunity
<1>1. NamesKnow => ProbesFindTheirCommunity
  <2> SUFFICES ASSUME NamesKnow, Polling, NEW id \in Ids,
                      NEW probe \in {DomainOf(id), <<"canary">> \o DomainOf(id)}
               PROVE  LET owner == matchCommunityLocked(store, probe)
                      IN  owner \in Ids /\ DomainOf(owner) = DomainOf(id)
    BY DEF ProbesFindTheirCommunity
  <2> DEFINE domain == DomainOf(id)
  <2>1. LoadOK(file) /\ Ids \subseteq DOMAIN store.domains
    BY DEF NamesKnow, StoreKnows, Polling
  <2>2. PICK i \in DOMAIN file : id = file[i].id /\ domain = file[i].domain
    BY <2>1, DomainOfEntry DEF Ids
  <2> HIDE DEF domain
  <2>3. domain \in Seq(Labels) /\ Len(domain) >= 4 /\ Len(domain) \in Nat
    BY <2>1, <2>2, DomainsAreNames, LenProperties
  <2>4. domain \in DOMAIN store.reverse
    BY <2>1, <2>2 DEF NamesKnow, StoreKnows
  <2>5. PICK j \in DOMAIN file : store.reverse[domain] = file[j].id /\ domain = file[j].domain
    BY <2>4 DEF NamesKnow, StoreKnows
  <2>6. store.reverse[domain] \in Ids /\ DomainOf(store.reverse[domain]) = domain
    BY <2>1, <2>5, DomainOfEntry DEF Ids
  <2>7. ASSUME NEW k \in 1..Len(probe), probe \in Seq(Labels),
               SubSeq(probe, k, Len(probe)) = domain,
               \A l \in 1..(k - 1) : SubSeq(probe, l, Len(probe)) \notin DOMAIN store.reverse
        PROVE  matchCommunityLocked(store, probe) = store.reverse[domain]
    <3>1. /\ {l \in 1..Len(probe) : SubSeq(probe, l, Len(probe)) \in DOMAIN store.reverse} # {}
          /\ k = CHOOSE m \in {l \in 1..Len(probe) :
                                 SubSeq(probe, l, Len(probe)) \in DOMAIN store.reverse} :
                   \A n \in {l \in 1..Len(probe) :
                              SubSeq(probe, l, Len(probe)) \in DOMAIN store.reverse} : m <= n
      BY <2>4, <2>7, LongestSuffix
    <3> QED
      BY <2>7, <3>1 DEF matchCommunityLocked
  <2>8. CASE probe = domain
    <3>1. SubSeq(probe, 1, Len(probe)) = domain
      BY <2>3, <2>8, SubSeqFull
    <3>2. 1 \in 1..Len(probe) /\ 1..(1 - 1) = {}
      BY <2>3, <2>8
    <3>3. matchCommunityLocked(store, probe) = store.reverse[domain]
      BY <2>3, <2>7, <2>8, <3>1, <3>2
    <3> QED
      BY <2>6, <3>3 DEF domain
  <2>9. CASE probe = <<"canary">> \o domain
    <3>1. "canary" \in Labels
      BY DEF Labels
    <3>2. probe \in Seq(Labels) /\ Len(probe) = 1 + Len(domain) /\ IsChild(probe, domain)
      <4>1. <<"canary">> \in Seq(Labels) /\ Len(<<"canary">>) = 1
        BY <3>1, OneLabel
      <4>2. <<"canary">> \o domain \in Seq(Labels) /\ IsChild(<<"canary">> \o domain, domain)
        BY <2>3, <4>1, LabelBefore
      <4>3. Len(<<"canary">> \o domain) = Len(domain) + 1
        BY <4>2 DEF IsChild
      <4> QED
        BY <2>3, <2>9, <4>2, <4>3
    <3>3. probe # << >> /\ Tail(probe) = domain
      BY <2>3, <3>2, ChildTail
    <3>4. SubSeq(probe, 2, Len(probe)) = domain /\ SubSeq(probe, 1, Len(probe)) = probe
      BY <3>2, <3>3, TailIsSubSeq, SubSeqFull
    <3>5. probe \notin DOMAIN store.reverse
      <4> SUFFICES ASSUME probe \in DOMAIN store.reverse PROVE FALSE
        OBVIOUS
      <4>1. PICK k \in DOMAIN file : probe = file[k].domain
        BY DEF NamesKnow, StoreKnows
      <4>2. file \in Seq([id : STRING, domain : Seq(Labels)])
        BY <2>1, DomainsAreNames
      <4>3. file[i].domain = file[k].domain
        BY <2>1, <2>2, <3>2, <4>1, <4>2, NamesNeverShared
      <4> QED
        BY <2>2, <2>3, <3>2, <4>1, <4>3
    <3>6. 2 \in 1..Len(probe) /\ \A l \in 1..(2 - 1) : l = 1
      BY <2>3, <3>2
    <3>7. \A l \in 1..(2 - 1) : SubSeq(probe, l, Len(probe)) \notin DOMAIN store.reverse
      BY <3>4, <3>5, <3>6
    <3>8. matchCommunityLocked(store, probe) = store.reverse[domain]
      BY <2>7, <3>2, <3>4, <3>6, <3>7
    <3> QED
      BY <2>6, <3>8 DEF domain
  <2> QED
    BY <2>8, <2>9 DEF domain
<1> QED
  BY <1>1, NamesAlways, PTL
\* What TypeOK adds to the invariants above, and why the store is empty until
\* Load has accepted the file.
StoreTypes ==
  /\ DOMAIN store.domains \subseteq Ids
  /\ phase \in {"load", "refused"} => DOMAIN store.reverse = {}
  /\ failed \subseteq Apps
  /\ missed \subseteq Apps \X Ids

\* Every variable of the responder, and the maps of the store, have their types;
\* the domain of the community found by a domain is that domain.
THEOREM DNSTypesOK == Spec => []TypeOK
<1>1. Init => StoreTypes
  BY DEF Init, StoreTypes, NewStore
<1>2. Sockets /\ NamesKnow /\ StoreTypes /\ [Next]_vars => StoreTypes'
  <2> SUFFICES ASSUME Sockets, NamesKnow, StoreTypes, [Next]_vars PROVE StoreTypes'
    OBVIOUS
  <2> USE DEF StoreTypes, orchestrator, caddy
  <2>1. file' = file
    BY DEF Next, Load, Registered, Register, FetchOK, CheckCert, Reload, OtherAppFails,
           Switch, Stopped, StartNode, StartFails, Shutdown, Activate, vars
  <2>2. Ids' = Ids /\ Apps' = Apps
    BY <2>1 DEF Ids, Apps
  <2>3. CASE Load \/ Registered
    BY <2>2, <2>3 DEF Load, Registered
  <2>4. ASSUME NEW k \in DOMAIN file, Register(k) PROVE StoreTypes'
    <3>1. DOMAIN store'.domains = DOMAIN store.domains \cup {file[k].id}
      BY <2>4 DEF Register, SetDomain, With
    <3> QED
      BY <2>2, <2>4, <3>1 DEF Register, Ids
  <2>5. ASSUME NEW id \in Ids, StartFails(id) PROVE StoreTypes'
    <3>1. apps \in Apps
      BY <2>5, DNSAssumption
         DEF StartFails, Sockets, DNSTypeOK, Started, Apps, DNSAssumption
    <3> QED
      BY <2>2, <2>5, <3>1 DEF StartFails
  <2>6. ASSUME NEW id \in Ids, Shutdown(id) PROVE StoreTypes'
    <3>1. victim \in Apps
      BY <2>6, DNSAssumption DEF Shutdown, Sockets, DNSTypeOK, Apps, DNSAssumption
    <3> QED
      BY <2>2, <2>6, <3>1 DEF Shutdown
  <2>7. ASSUME UNCHANGED <<store, failed, missed>>, phase' \in {"load", "refused"} => phase' = phase
        PROVE  StoreTypes'
    BY <2>2, <2>7
  <2>8. ASSUME NEW id \in Ids, NEW dir \in Dirs, FetchOK(id, dir) PROVE StoreTypes'
    BY <2>7, <2>8 DEF FetchOK
  <2>9. ASSUME NEW id \in Ids, NEW sans \in SANs, CheckCert(id, sans) PROVE StoreTypes'
    BY <2>7, <2>9 DEF CheckCert
  <2>10. CASE Reload \/ OtherAppFails \/ Switch \/ Stopped
    BY <2>7, <2>10 DEF Reload, OtherAppFails, Switch, Stopped
  <2>11. ASSUME NEW id \in Ids, StartNode(id) PROVE StoreTypes'
    BY <2>7, <2>11 DEF StartNode
  <2>12. ASSUME NEW app \in Apps, NEW id \in Ids, Activate(app, id) PROVE StoreTypes'
    BY <2>7, <2>12 DEF Activate
  <2>13. CASE UNCHANGED vars
    BY <2>7, <2>13 DEF vars
  <2> QED
    BY <2>3, <2>4, <2>5, <2>6, <2>8, <2>9, <2>10, <2>11, <2>12, <2>13 DEF Next
<1>3. Sockets /\ NamesKnow /\ StoreTypes => TypeOK
  <2> SUFFICES ASSUME Sockets, NamesKnow, StoreTypes PROVE TypeOK
    OBVIOUS
  <2>1. ASSUME NEW domain \in DOMAIN store.reverse
        PROVE  store.reverse[domain] \in Ids /\ DomainOf(store.reverse[domain]) = domain
    <3>1. PICK k \in DOMAIN file : store.reverse[domain] = file[k].id /\ domain = file[k].domain
      BY DEF NamesKnow, StoreKnows
    <3>2. LoadOK(file)
      BY DEF NamesKnow, StoreTypes
    <3> QED
      BY <3>1, <3>2, DomainOfEntry DEF Ids
  <2> QED
    BY <2>1 DEF TypeOK, StoreTypes, Sockets, DNSTypeOK
<1> QED
  BY <1>1, <1>2, <1>3, SocketsAlways, NamesAlways, PTL DEF Spec
-----------------------------------------------------------------------------
(* The services.  The strengthening: whatever the orchestrator has put into *)
(* a configuration was accepted by Validate and by sansCover.               *)

ContentOK(content) ==
  \A id \in Ids :
    /\ content.certs[id] # NoCert => <<"*">> \o DomainOf(id) \in content.certs[id]
    /\ content.dirs[id].services # {} => Validate(content.dirs[id], DomainOf(id))
    /\ content.dirs[id].services \subseteq Seq(STRING)

ContentsKnow ==
  /\ family \in {4, 6}
  /\ dirs \in [Ids -> {NoDir} \cup Dirs]
  /\ ContentOK(Content) /\ ContentOK(running) /\ ContentOK(loading)

LEMMA ContentsInit == Init => ContentsKnow
<1> SUFFICES ASSUME Init PROVE ContentsKnow
  OBVIOUS
<1>1. \A id \in Ids : Content.certs[id] = NoCert /\ Content.dirs[id].services = {}
  BY DEF Init, Content, NoDir
<1> QED
  BY <1>1, DNSAssumption DEF Init, DNSAssumption, ContentsKnow, ContentOK

LEMMA ContentsNext == NamesKnow /\ NamesKnow' /\ ContentsKnow /\ [Next]_vars => ContentsKnow'
<1> SUFFICES ASSUME NamesKnow, NamesKnow', ContentsKnow, [Next]_vars PROVE ContentsKnow'
  OBVIOUS
<1> USE DEF orchestrator, caddy
<1>a. file' = file /\ family' = family
  BY DEF Next, Load, Registered, Register, FetchOK, CheckCert, Reload, OtherAppFails, Switch,
         Stopped, StartNode, StartFails, Shutdown, Activate, vars
<1>b. Ids' = Ids /\ \A id : DomainOf(id)' = DomainOf(id)
  BY <1>a DEF Ids, DomainOf
<1>c. ASSUME NEW content, ContentOK(content) PROVE ContentOK(content)'
  BY <1>b, <1>c DEF ContentOK
<1>1. ASSUME UNCHANGED <<dirs, certs>>,
             running' \in {running, loading}, loading' \in {loading, Content}
      PROVE  ContentsKnow'
  <2>1. Content' = Content
    BY <1>1 DEF Content
  <2> QED
    BY <1>1, <1>a, <1>b, <2>1 DEF ContentsKnow, ContentOK
<1>2. ASSUME NEW id \in Ids, NEW dir \in Dirs, FetchOK(id, dir) PROVE ContentsKnow'
  <2>1. dirs' = [dirs EXCEPT ![id] = dir] /\ certs' = certs /\ Validate(dir, DomainOf(id))
    BY <1>2 DEF FetchOK
  <2>2. dir.services \subseteq Seq(STRING)
    BY DNSAssumption DEF DNSAssumption
  <2>3. ContentOK(Content')
    BY <2>1, <2>2 DEF ContentsKnow, ContentOK, Content
  <2>4. dirs' \in [Ids' -> {NoDir} \cup Dirs]
    BY <1>b, <2>1 DEF ContentsKnow
  <2>5. UNCHANGED <<running, loading>>
    BY <1>2 DEF FetchOK
  <2> QED
    BY <1>a, <1>b, <2>3, <2>4, <2>5 DEF ContentsKnow, ContentOK
<1>3. ASSUME NEW id \in Ids, NEW sans \in SANs, CheckCert(id, sans) PROVE ContentsKnow'
  <2>1. ContentOK(Content')
    BY <1>3, <1>b DEF CheckCert, ContentsKnow, ContentOK, Content, NamesKnow
  <2> QED
    BY <1>3, <1>a, <1>b, <2>1 DEF CheckCert, ContentsKnow, ContentOK
<1>4. CASE Load \/ Registered \/ Reload \/ OtherAppFails \/ Switch \/ Stopped
  BY <1>1, <1>4 DEF Load, Registered, Reload, OtherAppFails, Switch, Stopped
<1>5. ASSUME NEW k \in DOMAIN file, Register(k) PROVE ContentsKnow'
  BY <1>1, <1>5 DEF Register
<1>6. ASSUME NEW id \in Ids, StartNode(id) \/ StartFails(id) \/ Shutdown(id)
      PROVE  ContentsKnow'
  BY <1>1, <1>6 DEF StartNode, StartFails, Shutdown
<1>7. ASSUME NEW app \in Apps, NEW id \in Ids, Activate(app, id) PROVE ContentsKnow'
  BY <1>1, <1>7 DEF Activate
<1>8. CASE UNCHANGED vars
  BY <1>1, <1>8 DEF vars
<1> QED
  BY <1>2, <1>3, <1>4, <1>5, <1>6, <1>7, <1>8 DEF Next

LEMMA ContentsAlways == Spec => []ContentsKnow
BY ContentsInit, ContentsNext, NamesAlways, PTL DEF Spec

\* A service that a running configuration routes has an address at the node
\* whose server routes it, a certificate, and a route of its own, and the server
\* of another domain does not know its host.
THEOREM DNSServicesReachable == Spec => []ServicesReachable
<1>1. Sockets /\ NamesKnow /\ ContentsKnow => ServicesReachable
  <2> SUFFICES ASSUME Sockets, NamesKnow, ContentsKnow, cur # 0,
                      NEW id \in Ids, ServiceOK(running, id),
                      NEW svc \in running.dirs[id].services
               PROVE  LET host == CanonicalHostname(running.dirs[id], svc)
                      IN  /\ \E qtype \in {"A", "AAAA"} :
                               handle(DomainOf(id), Addr(id), host, qtype).answer = {Addr(id)}
                          /\ \E san \in running.certs[id] : Matches(san, host)
                          /\ Route(running, id, host)
                               = [to |-> "service", services |-> {svc}]
                          /\ \A other \in Ids : DomainOf(other) # DomainOf(id) =>
                               Route(running, other, host).to = "empty"
    BY DEF ServicesReachable
  <2> DEFINE domain == DomainOf(id)
             dir == running.dirs[id]
             host == svc \o domain
  <2>1. /\ running.certs[id] # NoCert /\ <<"*">> \o domain \in running.certs[id]
        /\ Validate(dir, domain) /\ dir.services \subseteq Seq(STRING)
    BY DEF ContentsKnow, ContentOK, ServiceOK
  <2>2. dir.domain = domain /\ \A s \in dir.services : Len(s) = 1 /\ s[1] # ""
    BY <2>1 DEF Validate
  <2>3. \A i \in Ids : DomainOf(i) \in Seq(STRING)
    <3> TAKE i \in Ids
    <3>1. Polling
      BY DEF Sockets, DNSTypeOK, NamesKnow
    <3>2. LoadOK(file)
      BY <3>1 DEF NamesKnow, Polling
    <3>3. PICK k \in DOMAIN file : i = file[k].id
      BY DEF Ids
    <3>4. file \in Seq([id : STRING, domain : Seq(STRING)])
      BY DNSAssumption DEF DNSAssumption, NamesKnow
    <3>5. file[k] \in [id : STRING, domain : Seq(STRING)]
      BY <3>4, ElementOfSeq, LenProperties
    <3> QED
      BY <3>2, <3>3, <3>5, DomainOfEntry
  <2>4. svc \in Seq(STRING) /\ Len(svc) = 1 /\ svc[1] # ""
    BY <2>1, <2>2
  <2>5. host \in Seq(STRING) /\ IsChild(host, domain) /\ host[1] # ""
    BY <2>3, <2>4, LabelBefore
  <2>6. CanonicalHostname(dir, svc) = host
    BY <2>2 DEF CanonicalHostname
  <2>7. \E qtype \in {"A", "AAAA"} : handle(domain, Addr(id), host, qtype).answer = {Addr(id)}
    <3>1. Addr(id).family = family /\ family \in {4, 6}
      BY DEF Addr, ContentsKnow
    <3>2. CASE family = 4
      BY <2>5, <3>1, <3>2 DEF handle, Records
    <3>3. CASE family = 6
      BY <2>5, <3>1, <3>3 DEF handle, Records
    <3> QED
      BY <3>1, <3>2, <3>3
  <2>8. Matches(<<"*">> \o domain, host)
    <3>1. Seq(STRING) \subseteq Seq(Labels)
      BY SeqMonotone DEF Labels
    <3> QED
      BY <2>3, <2>5, <3>1, WildcardMatches
  <2>9. {s \in dir.services : CanonicalHostname(dir, s) = host} = {svc}
    <3>1. \A s \in dir.services : s \o domain = svc \o domain => s = svc
      <4>1. dir.services \subseteq Seq(STRING)
        BY <2>1
      <4> QED
        BY <2>3, <2>4, <4>1, ConcatSimplifications
    <3> QED
      BY <2>2, <3>1 DEF CanonicalHostname
  <2>10. Route(running, id, host) = [to |-> "service", services |-> {svc}]
    BY <2>9 DEF Route
  <2>11. ASSUME NEW other \in Ids, DomainOf(other) # domain
         PROVE  Route(running, other, host).to = "empty"
    <3> DEFINE dom2 == DomainOf(other)
               dir2 == running.dirs[other]
    <3>1. dom2 \in Seq(STRING) /\ domain \in Seq(STRING) /\ host \in Seq(STRING)
      BY <2>3, <2>5
    <3>2. Seq(STRING) \subseteq Seq(Labels)
      BY SeqMonotone DEF Labels
    <3>3. ~Matches(<<"*">> \o dom2, host)
      BY <2>5, <2>11, <3>1, <3>2, WildcardMatchesNoOther
    <3>4. ASSUME ServiceOK(running, other), NEW s \in dir2.services
          PROVE  CanonicalHostname(dir2, s) # host
      <4>1. Validate(dir2, dom2) /\ s \in Seq(STRING)
        BY <3>4 DEF ContentsKnow, ContentOK, ServiceOK
      <4>2. dir2.domain = dom2 /\ Len(s) = 1
        BY <4>1 DEF Validate
      <4>3. s \o dom2 \in Seq(STRING) /\ IsChild(s \o dom2, dom2)
        BY <3>1, <4>1, <4>2, LabelBefore
      <4>4. Tail(s \o dom2) = dom2
        BY <3>1, <4>3, ChildTail
      <4>5. Tail(host) = domain
        BY <2>5, <3>1, ChildTail
      <4> QED
        BY <2>11, <4>2, <4>4, <4>5 DEF CanonicalHostname
    <3> HIDE DEF host, dom2
    <3>5. ~(ServiceOK(running, other)
              /\ {s \in dir2.services : CanonicalHostname(dir2, s) = host} # {})
      BY <3>4
    <3> QED
      BY <3>3, <3>5 DEF Route, dom2
  <2> HIDE DEF host
  <2> QED
    BY <2>1, <2>6, <2>7, <2>8, <2>10, <2>11
<1> QED
  BY <1>1, SocketsAlways, NamesAlways, ContentsAlways, PTL
=============================================================================
