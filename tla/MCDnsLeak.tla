------------------------------- MODULE MCDnsLeak -------------------------------
(***************************************************************************)
(* DnsLeak for TLC: one community, whose domain and canary name share a     *)
(* slot.  Communities only meet in locks that DnsLeak takes in one step, so  *)
(* a second one adds states and no behaviour.                               *)
(***************************************************************************)
EXTENDS DnsLeak

CONSTANT smith
=============================================================================
