----------------------------- MODULE MCBridgeDNS -----------------------------
(* Instances of BridgeDNS for TLC; the cfg files pick the constants.        *)
EXTENDS BridgeDNS

Smith == <<"smith", "ts", "e", "c">>
Jones == <<"jones", "ts", "e", "c">>
\* "ts" is a legal community label: its zone holds the base of the next one.
Ts == <<"ts", "ts", "e", "c">>
UnderTs == <<"wiki", "ts", "ts", "e", "c">>

Entry(i, d) == [id |-> i, domain |-> d]

\* Two siblings; one domain twice; nested domains; one id twice; too short.
MCFiles ==
  {<<Entry("x", Smith), Entry("y", Jones)>>,
   <<Entry("x", Smith), Entry("y", Smith)>>,
   <<Entry("x", Ts), Entry("y", UnderTs)>>,
   <<Entry("x", Smith), Entry("x", Jones)>>,
   <<Entry("x", <<"smith", "ts", "c">>)>>}

\* The second one is no directory of Smith's: its service name has a dot.
MCDirs ==
  {[domain |-> Smith, services |-> {<<"wiki">>, <<"ts">>}],
   [domain |-> Smith, services |-> {<<"a", "wiki">>}]}

\* A certificate for the apex alone, and a wildcard for both siblings.
MCSANs == {{Smith}, {<<"*">> \o Smith, <<"*">> \o Jones}}
=============================================================================
