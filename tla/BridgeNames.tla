----------------------------- MODULE BridgeNames -----------------------------
(***************************************************************************)
(* The names of the wildcard bridge: which community a DNS name belongs to  *)
(* is decided five times, in the config loader, in the DNS responder, by    *)
(* the SANs of the certificate, by the routes of Caddy and by the health    *)
(* store that attributes error pages.                                       *)
(*                                                                          *)
(* A name is the sequence of its labels, in lower case and without the      *)
(* trailing dot, the form every one of them brings a name into.  The length *)
(* limits and the alphabet of labels are left out; the label "" is what a   *)
(* name with a leading dot starts with.                                     *)
(***************************************************************************)
EXTENDS Naturals, Sequences

\* name is below domain; one label below it.
IsBelow(name, domain) ==
  /\ Len(name) > Len(domain)
  /\ domain = SubSeq(name, Len(name) - Len(domain) + 1, Len(name))

IsChild(name, domain) ==
  Len(name) = Len(domain) + 1 /\ IsBelow(name, domain)
-----------------------------------------------------------------------------
(* Configuration.  An entry of the file is [id, domain].                    *)

ValidateBridgeDomain(domain) == Len(domain) >= 4 /\ domain[2] = "ts"

BaseDomain(domain) == Tail(domain)

\* Mutant of LoadOK: the base domains are not compared.
LoadOKAnyBase(file) ==
  /\ \A i, j \in DOMAIN file : file[i].id = file[j].id => i = j
  /\ \A i \in DOMAIN file : ValidateBridgeDomain(file[i].domain)

\* Load returns the communities of the file: ids are unique, every domain has
\* the shape <community>.ts.<base>, and all are under one base.
LoadOK(file) ==
  /\ \A i, j \in DOMAIN file : file[i].id = file[j].id => i = j
  /\ \A i \in DOMAIN file : ValidateBridgeDomain(file[i].domain)
  /\ \A i, j \in DOMAIN file :
       BaseDomain(file[i].domain) = BaseDomain(file[j].domain)
-----------------------------------------------------------------------------
(* Directories.  A directory is [domain, services]; a service is the name   *)
(* its publisher gave it, split at the dots.                                *)

CanonicalHostname(dir, svc) == svc \o dir.domain

\* Mutant of Validate: expectedDomain is not compared.
ValidateAnyDomain(dir, expectedDomain) ==
  /\ ValidateBridgeDomain(dir.domain)
  /\ \A svc \in dir.services : Len(svc) = 1 /\ svc[1] # ""

Validate(dir, expectedDomain) ==
  /\ ValidateBridgeDomain(dir.domain)
  /\ dir.domain = expectedDomain
  /\ \A svc \in dir.services : Len(svc) = 1 /\ svc[1] # ""
-----------------------------------------------------------------------------
(* Certificates.  SANs are names; the first label may be "*".               *)

sansCover(sans, expectedDomain) == <<"*">> \o expectedDomain \in sans

\* What a TLS client accepts: the wildcard stands for exactly one label.
Matches(san, name) ==
  san = name \/ (san[1] = "*" /\ Len(name) = Len(san) /\ Tail(name) = Tail(san))
-----------------------------------------------------------------------------
(* The DNS responder of one community.  addr is [family, node].             *)

\* localIP, and the records handle makes of it: HTTPS, SVCB and ANY get the
\* address record there is, another type gets none.
Records(addr, qtype) ==
  LET wanted == CASE qtype = "A" -> {4}
                  [] qtype = "AAAA" -> {6}
                  [] qtype \in {"ANY", "HTTPS", "SVCB"} -> {4, 6}
                  [] OTHER -> {}
  IN  IF addr.family \in wanted THEN {addr} ELSE {}

handle(domain, addr, qname, qtype) ==
  IF IsChild(qname, domain) /\ qname[1] # ""
    THEN [rcode |-> "NOERROR", answer |-> Records(addr, qtype)]
    ELSE [rcode |-> IF qname = domain \/ IsBelow(qname, domain)
                      THEN "NXDOMAIN" ELSE "REFUSED",
          answer |-> {}]
-----------------------------------------------------------------------------
(* The health store's domains: [domains, reverse], id -> domain and back.   *)

Without(f, x) == [y \in DOMAIN f \ {x} |-> f[y]]
With(f, x, v) == [y \in DOMAIN f \cup {x} |-> IF y = x THEN v ELSE f[y]]

\* Mutant of SetDomain: the reverse map is keyed by the id.
SetDomainById(store, communityID, domain) ==
  [domains |-> With(store.domains, communityID, domain),
   reverse |-> With(store.reverse, <<communityID>>, communityID)]

NewStore == [domains |-> << >>, reverse |-> << >>]

SetDomain(store, communityID, domain) ==
  LET moved == communityID \in DOMAIN store.domains
                 /\ store.domains[communityID] # domain
      reverse == IF moved THEN Without(store.reverse, store.domains[communityID])
                          ELSE store.reverse
  IN  [domains |-> With(store.domains, communityID, domain),
       reverse |-> With(reverse, domain, communityID)]

\* The community of an apex or of a name one label below it; "" for no match.
CommunityIDForHost(store, host) ==
  IF host \in DOMAIN store.reverse THEN store.reverse[host]
  ELSE IF Len(host) > 1 /\ Tail(host) \in DOMAIN store.reverse
    THEN store.reverse[Tail(host)]
    ELSE ""

\* Mutant of matchCommunityLocked: parents are not looked up.
matchCommunityExact(store, probed) ==
  IF probed \in DOMAIN store.reverse THEN store.reverse[probed] ELSE ""

\* The community whose domain is the longest suffix of probed.
matchCommunityLocked(store, probed) ==
  LET suffixes == {k \in 1..Len(probed) :
                     SubSeq(probed, k, Len(probed)) \in DOMAIN store.reverse}
      first == CHOOSE k \in suffixes : \A j \in suffixes : k <= j
  IN  IF suffixes = {} THEN "" ELSE store.reverse[SubSeq(probed, first, Len(probed))]
=============================================================================
