------------------------------ MODULE MCSetup ------------------------------
(* Two peers, which are both boot nodes; the monitor runs on the first.    *)
EXTENDS Setup

CONSTANTS p, q

Both == <<p, q>>
=============================================================================
