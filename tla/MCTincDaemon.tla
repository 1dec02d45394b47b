---------------------------- MODULE MCTincDaemon ----------------------------
(* One subnet around TincDaemon.                                           *)
EXTENDS TincDaemon, TLC

CONSTANTS net1, ip1

JustOne == net1 :> ip1
=============================================================================
