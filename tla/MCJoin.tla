------------------------------- MODULE MCJoin -------------------------------
(* Small networks: a star, a chain, and a pair of nodes.                   *)
EXTENDS Join, TLC

CONSTANTS a, b, c

Star == {<<b, a>>, <<c, a>>}
Chain == {<<b, a>>, <<c, b>>}
Pair == {<<b, a>>}
Once == a :> 1 @@ b :> 1 @@ c :> 1
HubTwice == a :> 2 @@ b :> 1 @@ c :> 1
BothTwice == a :> 2 @@ b :> 2
Unedited == [n \in Node |-> 0]
HubEdits == [n \in Node |-> IF n = a THEN 1 ELSE 0]
=============================================================================
