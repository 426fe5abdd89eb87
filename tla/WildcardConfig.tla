--------------------------- MODULE WildcardConfig ---------------------------
(***************************************************************************)
(* The Caddy configuration of the wildcard bridge: caddyconfig.Build, the   *)
(* pure function from the latest directory and certificate of every         *)
(* community to the JSON document that is POSTed to Caddy.                  *)
(*                                                                          *)
(* Simplifications:                                                         *)
(*  - communities are numbered in the order of cfg.Communities; Build sorts *)
(*    them by id and keys every map by id, so the order leaves no trace;    *)
(*  - a directory is a model value, ServicesOf gives its services.  Names   *)
(*    are unique in a validated directory and buildServer sorts by name, so *)
(*    a set of services stands for the sorted list of routes;               *)
(*  - fields that are the same in every document the process emits (admin   *)
(*    address, logging, auth keys, header names, ports) are left out.       *)
(***************************************************************************)
EXTENDS Naturals, FiniteSets

CONSTANTS
  N,            \* number of configured communities
  Dirs,         \* directory documents that pass directory.Validate
  ServicesOf,   \* the services each of them lists
  Certs,        \* wildcard certificate versions an operator may install
  NoDir,        \* no directory held (a nil CurrentDirectory), or no ETag
  NoCert,       \* no entry in Runner.certs
  HasFallback   \* FallbackCertPath and FallbackKeyPath are set

ASSUME ConfigAssumption ==
  /\ N \in Nat \ {0}
  /\ NoDir \notin Dirs
  /\ NoCert \notin Certs
  /\ HasFallback \in BOOLEAN

Communities == 1..N

DirOrNone == Dirs \cup {NoDir}
CertOrNone == Certs \cup {NoCert}

\* What regenerate hands to Build for every community.
DirMaps == [Communities -> DirOrNone]
CertMaps == [Communities -> CertOrNone]
-----------------------------------------------------------------------------
\* Names in the document.  Node names and certificate tags are prefixed ids.
PersonalNodeName(c) == <<"personal", c>>
DialerNodeName(c) == <<"community-dialer", c>>
certTag(c) == <<"cert", c>>
fallbackTag == <<"fallback", 0>>

HasCert(certs, c) == certs[c] # NoCert

\* A community without a certificate is only emitted under the fallback.
Included(certs) == {c \in Communities : HasCert(certs, c) \/ HasFallback}

\* Mutant of ServiceOK: services are routed under the fallback, too.
ServiceOKWithoutCert(dirs, certs, c) ==
  /\ dirs[c] # NoDir
  /\ ServicesOf[dirs[c]] # {}

ServiceOK(dirs, certs, c) ==
  /\ HasCert(certs, c)
  /\ dirs[c] # NoDir
  /\ ServicesOf[dirs[c]] # {}

\* One terminal route per service: the canonical host goes to the upstream
\* through the community's dialer node.
buildServiceRoute(c, svc) ==
  [host |-> <<svc, c>>, dialer |-> DialerNodeName(c), upstream |-> svc]

\* The catch-all route of "*.<domain>" (to the error page) is always there
\* and always last, so it is not a field of the record.
buildServer(dirs, certs, c) ==
  [listen |-> PersonalNodeName(c),
   anyTag |-> IF HasCert(certs, c) THEN certTag(c) ELSE fallbackTag,
   routes |-> IF ServiceOK(dirs, certs, c)
                THEN {buildServiceRoute(c, svc) : svc \in ServicesOf[dirs[c]]}
                ELSE {}]

\* load_files names certificate FILES by path: nothing of a certificate's
\* contents is in the document.
loadFiles(certs) ==
  {certTag(c) : c \in {k \in Included(certs) : HasCert(certs, k)}}
    \cup {fallbackTag : c \in {k \in Included(certs) : ~HasCert(certs, k)}}

Build(dirs, certs) ==
  [tsNodes   |-> {PersonalNodeName(c) : c \in Included(certs)}
                   \cup {DialerNodeName(c) :
                           c \in {k \in Included(certs) : ServiceOK(dirs, certs, k)}},
   loadFiles |-> loadFiles(certs),
   servers   |-> [c \in Included(certs) |-> buildServer(dirs, certs, c)],
   bridgedns |-> [c \in Included(certs) |-> PersonalNodeName(c)]]

\* Every document Build can return.
Documents == {Build(d, k) : d \in DirMaps, k \in CertMaps}
=============================================================================
