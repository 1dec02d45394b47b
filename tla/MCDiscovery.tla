---------------------------- MODULE MCDiscovery ----------------------------
(* Small networks for Discovery.                                           *)
EXTENDS Discovery, TLC

CONSTANTS a, b, c

\* Two nodes that poll each other and know each other's host files.
PairWatches == {<<a, b>>, <<b, a>>}
PairTicks == a :> 2 @@ b :> 2
PairEditions == a :> 1 @@ b :> 0

\* c hears of a from b alone.
ChainWatches == {<<b, a>>, <<c, b>>}
ChainTicks == a :> 2 @@ b :> 1 @@ c :> 1
NoEditions == [n \in Node |-> 0]

Strangers == {}
AllIntroduced == Node \X Node
\* b has been given a's host file, a has yet to hear of b.
OneWay == {<<b, a>>}
=============================================================================
