---------------------------- MODULE MCPrefixPoller ----------------------------
(***************************************************************************)
(* Instances of PrefixPoller for TLC: directories, each with a prefix and   *)
(* the names of its services.                                               *)
(***************************************************************************)
EXTENDS PrefixPoller, TLC

CONSTANTS dirA, dirB, dirC, dirD

MCIds == (1 :> <<"smith">>) @@ (2 :> <<"jones">>)

\* Different prefixes with a service in common: two communities that publish
\* the same directory collide, others do not.
MCTwoDirs == {dirA, dirB}
MCPrefixOf == (dirA :> "p") @@ (dirB :> "q")
MCNamesOf == (dirA :> {<<"wiki">>}) @@ (dirB :> {<<"wiki">>})

\* Two directories without services besides.
MCFourDirs == {dirA, dirB, dirC, dirD}
MCPrefixOfFour == (dirA :> "p") @@ (dirB :> "q") @@ (dirC :> "p") @@ (dirD :> "q")
MCNamesOfFour ==
  (dirA :> {<<"wiki">>}) @@ (dirB :> {<<"wiki">>}) @@ (dirC :> {}) @@ (dirD :> {})

\* A bound: community 2 publishes an empty directory, may change its prefix and
\* then list a service; from then on community 1 changes its own freely.
Turn == (dirC :> 1) @@ (dirD :> 2) @@ (dirB :> 3)

PublishesInTurn ==
  /\ server'[1] \in {dirA, dirB}
  /\ server[2] # dirB => server'[1] = server[1]
  /\ server'[2] \in DOMAIN Turn
  /\ Turn[server[2]] <= Turn[server'[2]]

InitEmpty == Init /\ server[1] \in {dirA, dirB} /\ server[2] = dirC

SpecEmpty == InitEmpty /\ [][Next]_vars

MCBothTag == Communities
MCFirstTags == {1}
MCNoneTags == {}
=============================================================================
