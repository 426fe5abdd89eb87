----------------------------- MODULE MCLifecycle -----------------------------
(* Instances of Lifecycle for TLC; the cfg files pick the constants.        *)
EXTENDS Lifecycle
=============================================================================
