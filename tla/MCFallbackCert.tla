---------------------------- MODULE MCFallbackCert ----------------------------
(***************************************************************************)
(* FallbackCert for TLC; the cfg files choose the events and MaxPairs, the  *)
(* number of interrupted starts that can follow one another.                *)
(***************************************************************************)
EXTENDS FallbackCert
=============================================================================
