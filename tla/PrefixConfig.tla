---------------------------- MODULE PrefixConfig ----------------------------
(***************************************************************************)
(* The Caddy configuration of the prefix variant (caddy/): Build gives each *)
(* (community, service) pair a listener node and an HTTP server on the      *)
(* personal tailnet, named by the community's prefix.                       *)
(*                                                                          *)
(* Names are sequences of dash-free parts, so that joining two names with   *)
(* a dash is concatenation.  A prefix is one part and its trailing dash.    *)
(* Communities are numbered in the order of their ids, in which Build       *)
(* visits them; cfg.Communities is taken to list them in that order too.    *)
(* What rewrites headers and bodies of one service is part of its server    *)
(* and depends on nothing else, so it is left out.                          *)
(***************************************************************************)
EXTENDS Naturals, Sequences, FiniteSets

CONSTANTS
  N,          \* number of configured communities
  IdOf,       \* their ids
  Dirs,       \* directory documents that pass directory.Validate
  PrefixOf,   \* community.prefix of each
  NamesOf,    \* the service names of each
  NoDir,      \* no directory held, or no ETag
  Refused     \* Build returned an error

ASSUME PrefixConfigAssumption ==
  /\ N \in Nat \ {0}
  /\ NoDir \notin Dirs

Communities == 1..N

DirOrNone == Dirs \cup {NoDir}
DirMaps == [Communities -> DirOrNone]

\* The (community, service) pairs of the directories held.
Pairs(dirs) ==
  UNION {{<<c, n>> : n \in NamesOf[dirs[c]]} : c \in {k \in Communities : dirs[k] # NoDir}}

personalHost(dirs, s) == <<PrefixOf[dirs[s[1]]]>> \o s[2]
nodeName(s) == <<"personal">> \o IdOf[s[1]] \o s[2]
dialerName(c) == <<"community-dialer">> \o IdOf[c]

\* Mutant of Collision: the hostnames seen are forgotten between communities.
CollisionWithin(dirs) ==
  \E s, t \in Pairs(dirs) : s # t /\ s[1] = t[1] /\ personalHost(dirs, s) = personalHost(dirs, t)

Collision(dirs) ==
  \E s, t \in Pairs(dirs) : s # t /\ personalHost(dirs, s) = personalHost(dirs, t)

buildServer(dirs, s) ==
  [community |-> s[1], service |-> s[2], host |-> personalHost(dirs, s),
   dialer |-> dialerName(s[1])]

\* nodes and servers are maps: of two pairs with one node name, the pair
\* visited last overwrites the other.
LastPair(dirs, name) ==
  CHOOSE s \in Pairs(dirs) :
    nodeName(s) = name /\ \A t \in Pairs(dirs) : nodeName(t) = name => t[1] <= s[1]

BuiltDocument(dirs) ==
  [dialers |-> {dialerName(c) : c \in {k \in Communities : dirs[k] # NoDir}},
   servers |-> [name \in {nodeName(s) : s \in Pairs(dirs)} |->
                  buildServer(dirs, LastPair(dirs, name))]]

Build(dirs) == IF Collision(dirs) THEN Refused ELSE BuiltDocument(dirs)

Documents == {BuiltDocument(d) : d \in DirMaps}

\* The hosts that a document listens on, with the community each belongs to.
Served(doc) ==
  {<<doc.servers[name].host, doc.servers[name].community>> : name \in DOMAIN doc.servers}

DistinctPrefixes(dirs) ==
  \A c, k \in Communities :
    c # k /\ dirs[c] # NoDir /\ dirs[k] # NoDir => PrefixOf[dirs[c]] # PrefixOf[dirs[k]]

NoneEmpty(dirs) == \A c \in Communities : dirs[c] # NoDir => NamesOf[dirs[c]] # {}
=============================================================================
