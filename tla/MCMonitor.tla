----------------------------- MODULE MCMonitor -----------------------------
(* A public node that is watched, forgotten and watched again.             *)
EXTENDS Monitor

CONSTANT pub
=============================================================================
