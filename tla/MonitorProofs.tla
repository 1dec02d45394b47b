--------------------------- MODULE MonitorProofs ---------------------------
(***************************************************************************)
(* Proofs about the monitor service, for any names, watches and failures.  *)
(* The wait group counts the goroutines that are there (Counted), so that  *)
(* the process ends after the last of them (Over); a host file is torn only*)
(* while somebody writes it (Tearing).                                     *)
(***************************************************************************)
EXTENDS Monitor, FiniteSetTheorems, TLAPS

Types == TypeOK /\ \A o \in Node : fetcher[o] # "none" => o \in 1..made

\* The goroutines in requestNode.
Fetchers == {o \in Node : fetcher[o] \notin {"none", "ended"}}

Indexers == IF indexer = "ended" THEN 0 ELSE 1
Servers == IF server = "ended" THEN 0 ELSE IF server = "closed" THEN 1 ELSE 2

Counted == pool = Cardinality(Fetchers) + Indexers + Servers

\* A write of a fetcher is under way, or has failed.
Tearing ==
    \A m \in Name \ pushed : disk[m] = "torn" =>
       failures > 0 \/ \E o \in Node : name[o] = m /\ fetcher[o] = "writing"

Working == Types /\ Counted /\ Tearing /\ NoLostIndex

\* Once the wait group has been at zero the service is cancelled, and of what is
\* started later nothing gets as far as a host file.
Over ==
    /\ server # "serving" => cancelled
    /\ released => /\ cancelled
                   /\ \A o \in Node : fetcher[o] \notin {"writing", "written"}

IInv == Working /\ Over /\ (finished => released)

\* There are finitely many of them.
LEMMA FetchersFinite == IsFiniteSet(Fetchers) /\ Cardinality(Fetchers) \in Nat
<1>1. IsFiniteSet(Node)
  BY FS_Interval, BoundAssumption DEF Node
<1>2. Fetchers \subseteq Node
  BY DEF Fetchers
<1> QED
  BY <1>1, <1>2, FS_Subset, FS_CardinalityType

\* A goroutine that starts is one more.
LEMMA FetcherStarts ==
    ASSUME fetcher \in [Node -> {"none", "trying", "writing", "written", "waiting", "ended"}],
           NEW o \in Node, fetcher[o] = "none",
           fetcher' = [fetcher EXCEPT ![o] = "trying"]
    PROVE  Cardinality(Fetchers') = Cardinality(Fetchers) + 1
<1>1. Fetchers' = Fetchers \cup {o} /\ o \notin Fetchers
  BY DEF Fetchers
<1> QED
  BY <1>1, FetchersFinite, FS_AddElement

\* One that goes on is none more.
LEMMA FetcherGoesOn ==
    ASSUME fetcher \in [Node -> {"none", "trying", "writing", "written", "waiting", "ended"}],
           NEW o \in Node, NEW label \in {"trying", "writing", "written", "waiting"},
           fetcher[o] \notin {"none", "ended"}, Goto(o, label)
    PROVE  Fetchers' = Fetchers
  BY DEF Fetchers, Goto

\* One that ends is one less, and was there.
LEMMA FetcherEnds ==
    ASSUME fetcher \in [Node -> {"none", "trying", "writing", "written", "waiting", "ended"}],
           NEW o \in Node, fetcher[o] \notin {"none", "ended"}, Goto(o, "ended")
    PROVE  Cardinality(Fetchers') = Cardinality(Fetchers) - 1 /\ Cardinality(Fetchers) > 0
<1>1. Fetchers' = Fetchers \ {o} /\ o \in Fetchers
  BY DEF Fetchers, Goto
<1>2. Cardinality(Fetchers) # 0
  BY <1>1, FetchersFinite, FS_EmptySet
<1> QED
  BY <1>1, <1>2, FetchersFinite, FS_RemoveElement

\* Failures are counted.
LEMMA FailsBound ==
    ASSUME failures \in 0..MaxFailures, Fails
    PROVE  failures' \in 0..MaxFailures /\ failures' > 0
  BY BoundAssumption DEF Fails

\* Who counts in the wait group keeps it above zero.
LEMMA PoolAtLeast == ASSUME Counted PROVE pool >= Indexers + Servers
  BY FetchersFinite DEF Counted, Indexers, Servers

\* Initially the loop and the two goroutines of the server are there.
LEMMA InvInit == Init => IInv
<1> SUFFICES ASSUME Init PROVE IInv
  OBVIOUS
<1>1. (CHOOSE m \in Name : TRUE) \in Name
  BY NameAssumption
<1>2. Types
  <2>1. name \in [Node -> Name] /\ disk \in [Name -> File] /\ 1..made = {}
    BY <1>1 DEF Init, File
  <2>2. \A o \in Node : fetcher[o] = "none"
    BY DEF Init
  <2>3. failures \in 0..MaxFailures /\ made \in 0..MaxWatches
    BY BoundAssumption DEF Init
  <2>4. fetcher \in [Node -> {"none", "trying", "writing", "written", "waiting", "ended"}]
    BY DEF Init
  <2>5. TypeOK
    BY <2>1, <2>3, <2>4 DEF Init, TypeOK
  <2> QED
    BY <2>2, <2>5 DEF Types
<1>3. Fetchers = {}
  BY DEF Init, Fetchers
<1>4. Counted
  BY <1>3, FS_EmptySet DEF Init, Counted, Indexers, Servers
<1>5. Tearing /\ NoLostIndex
  BY DEF Init, Tearing, NoLostIndex
<1> QED
  BY <1>2, <1>4, <1>5 DEF Init, IInv, Working, Over

\* What requests do to the list and to the host files.
LEMMA InvHandlers == ASSUME Working, Handlers \/ Handling PROVE Working'
<1> USE DEF Working, Types, TypeOK, Counted, Tearing, NoLostIndex, Coming,
        listVars, fetchVars, fileVars, indexVars, lifeVars, poolVars, Indexers, Servers
<1>1. ASSUME NEW m \in Name, Watch(m) PROVE Working'
  <2>1. made' \in Node /\ made' \notin 1..made /\ fetcher[made'] = "none" /\ fetcher' = fetcher
    BY <1>1, BoundAssumption DEF Watch, Node
  <2>2. Types'
    BY <1>1, <2>1 DEF Watch, Node
  <2>3. Counted'
    BY <1>1 DEF Watch, Fetchers
  <2>4. \A o \in Node : fetcher[o] # "none" => name'[o] = name[o]
    BY <1>1, <2>1 DEF Watch
  <2>5. Tearing'
    BY <1>1, <2>4 DEF Watch
  <2>6. NoLostIndex'
    BY <1>1, <2>4 DEF Watch
  <2> QED
    BY <2>2, <2>3, <2>5, <2>6
<1>2. ASSUME NEW o \in Node, Spawn(o) PROVE Working'
  <2>1. Types'
    BY <1>2 DEF Spawn
  <2>2. Cardinality(Fetchers') = Cardinality(Fetchers) + 1
    BY <1>2, FetcherStarts DEF Spawn
  <2>3. Counted'
    BY <1>2, <2>2, FetchersFinite DEF Spawn
  <2>4. Tearing' /\ NoLostIndex'
    BY <1>2 DEF Spawn
  <2> QED
    BY <2>1, <2>3, <2>4
<1>3. CASE \E o \in Node : Forget(o) \/ StopNode(o)
  <2>1. Types'
    <3>1. CASE \E o \in Node : Forget(o)
      BY <3>1 DEF Forget
    <3>2. CASE \E o \in Node : StopNode(o)
      BY <3>2 DEF StopNode
    <3> QED
      BY <1>3, <3>1, <3>2
  <2>2. Fetchers' = Fetchers /\ Counted'
    BY <1>3 DEF Forget, StopNode, Fetchers
  <2>3. Tearing'
    BY <1>3 DEF Forget, StopNode
  <2>4. NoLostIndex'
    BY <1>3 DEF Forget, StopNode
  <2> QED
    BY <2>1, <2>2, <2>3, <2>4
<1>4. CASE Kill
  BY <1>4 DEF Kill, Fetchers
<1>5. ASSUME NEW m \in Name, PushOpen(m) \/ StoreOpen(m) PROVE Working'
  <2>1. Types'
    <3>1. disk' \in [Name -> File]
      BY <1>5 DEF PushOpen, StoreOpen, File
    <3>2. /\ pushing' \subseteq pushed' /\ pushed' \subseteq Name
          /\ UNCHANGED <<listVars, fetchVars, indexVars, lifeVars, poolVars>>
          /\ failures' = failures
      BY <1>5 DEF PushOpen, StoreOpen
    <3> QED
      BY <3>1, <3>2
  <2>2. Fetchers' = Fetchers /\ Counted'
    BY <1>5, ZenonT(40) DEF PushOpen, StoreOpen, File, Fetchers
  <2>3. Tearing'
    BY <1>5 DEF PushOpen, StoreOpen, File
  <2>4. NoLostIndex'
    BY <1>5 DEF PushOpen, StoreOpen, File
  <2> QED
    BY <2>1, <2>2, <2>3, <2>4
<1>6. ASSUME NEW m \in Name, PushWrite(m) PROVE Working'
  <2>1. Types'
    BY <1>6 DEF PushWrite, Content, File
  <2>2. Fetchers' = Fetchers /\ Counted'
    BY <1>6 DEF PushWrite, Content, File, Fetchers
  <2>3. Tearing'
    BY <1>6 DEF PushWrite, Content, File
  <2>4. NoLostIndex'
    BY <1>6 DEF PushWrite, Content, File
  <2> QED
    BY <2>1, <2>2, <2>3, <2>4
<1>7. ASSUME NEW m \in Name, FailPush(m) PROVE Working'
  <2>1. Types'
    BY <1>7, FailsBound DEF FailPush
  <2>2. Fetchers' = Fetchers /\ Counted'
    BY <1>7, FailsBound DEF FailPush, Fetchers
  <2>3. Tearing'
    BY <1>7, FailsBound DEF FailPush
  <2>4. NoLostIndex'
    BY <1>7, FailsBound DEF FailPush
  <2> QED
    BY <2>1, <2>2, <2>3, <2>4
<1> QED
  BY <1>1, <1>2, <1>3, <1>4, <1>5, <1>6, <1>7 DEF Handlers, Handling

\* One step of a goroutine in requestNode.
LEMMA InvRequesting == ASSUME Working, NEW o \in Node, Requesting(o) PROVE Working'
<1> USE NameAssumption
    DEF Working, Types, TypeOK, Tearing, NoLostIndex, Coming, Goto,
        listVars, fetchVars, fileVars, indexVars, lifeVars, poolVars, PoolDone
<1> DEFINE Ends == fetcher'[o] = "ended" /\ pool' = pool - 1
           GoesOn == fetcher'[o] \in {"trying", "writing", "written", "waiting"} /\ pool' = pool
<1>1. /\ fetcher[o] \notin {"none", "ended"} /\ o \in 1..made /\ Goto(o, fetcher'[o])
      /\ Ends \/ GoesOn
      /\ UNCHANGED <<listVars, pushing, pushed, indexer, todo, found, connectTo, lifeVars>>
  <2> USE DEF Requesting
  <2>1. fetcher[o] \notin {"none", "ended"} /\ o \in 1..made
    BY DEF Fetch, FailFetch, Write, FailWrite, Report, Retry, Leave
  <2>2. Goto(o, fetcher'[o])
    BY DEF Fetch, FailFetch, Write, FailWrite, Report, Retry, Leave
  <2>3. Ends \/ GoesOn
    <3>1. CASE Report(o) \/ Leave(o)
      BY <3>1 DEF Report, Leave
    <3>2. CASE Fetch(o) \/ FailFetch(o) \/ Write(o) \/ FailWrite(o) \/ Retry(o)
      BY <3>2 DEF Fetch, FailFetch, Write, FailWrite, Retry
    <3> QED
      BY <3>1, <3>2
  <2>4. UNCHANGED <<listVars, pushing, pushed, indexer, todo, found, connectTo, lifeVars>>
    BY DEF Fetch, FailFetch, Write, FailWrite, Report, Retry, Leave
  <2> QED
    BY <2>1, <2>2, <2>3, <2>4
<1>2. CASE Ends
  <2>1. Cardinality(Fetchers') = Cardinality(Fetchers) - 1 /\ Cardinality(Fetchers) > 0
    BY <1>1, <1>2, FetcherEnds
  <2>2. Report(o) \/ Leave(o)
    BY <1>2 DEF Requesting, Fetch, FailFetch, Write, FailWrite, Retry
  <2>3. Counted' /\ pool' \in Nat
    BY <1>1, <1>2, <2>1, FetchersFinite DEF Counted, Indexers, Servers
  <2>4. Types'
    BY <1>1, <2>2, <2>3, ZenonT(40) DEF Report, Leave
  <2>7. /\ UNCHANGED <<listVars, fileVars, indexer, todo, found, connectTo, lifeVars, failures>>
        /\ \/ fetcher[o] = "written" /\ reindex' = 1
           \/ fetcher[o] = "waiting" /\ UNCHANGED <<fetched, reindex>>
    BY <2>2 DEF Report, Leave
  <2>8. fetcher' = [fetcher EXCEPT ![o] = "ended"]
    BY <1>1, <1>2
  <2> HIDE DEF PoolDone
  <2>5. Tearing'
    BY <2>7, <2>8
  <2>6. NoLostIndex'
    BY <2>7, <2>8, <1>1
  <2> QED
    BY <2>3, <2>4, <2>5, <2>6
<1>3. CASE GoesOn
  <2>1. Fetchers' = Fetchers
    BY <1>1, <1>3, FetcherGoesOn
  <2>2. Counted'
    BY <1>1, <1>3, <2>1 DEF Counted, Indexers, Servers
  <2>3. CASE Fetch(o)
    <3>1. Types'
      BY <2>3 DEF Fetch, File
    <3>2. Tearing'
      BY <2>3 DEF Fetch
    <3>3. NoLostIndex'
      BY <2>3 DEF Fetch
    <3> QED
      BY <2>2, <3>1, <3>2, <3>3
  <2>4. CASE Write(o)
    <3>1. Types'
      BY <2>4 DEF Write, Content, File
    <3>2. Tearing'
      BY <2>4 DEF Write, Content
    <3>3. NoLostIndex'
      BY <2>4 DEF Write
    <3> QED
      BY <2>2, <3>1, <3>2, <3>3
  <2>5. CASE FailFetch(o) \/ FailWrite(o)
    <3>1. Types'
      <4>1. failures' \in 0..MaxFailures
        BY <2>5, FailsBound DEF FailFetch, FailWrite
      <4>2. fetcher' = [fetcher EXCEPT ![o] = "waiting"]
        BY <2>5 DEF FailFetch, FailWrite
      <4>3. UNCHANGED <<listVars, fetched, fileVars, indexVars, lifeVars, poolVars>>
        BY <2>5 DEF FailFetch, FailWrite
      <4> QED
        BY <1>1, <4>1, <4>2, <4>3
    <3>2. Tearing'
      BY <2>5, FailsBound DEF FailFetch, FailWrite
    <3>3. NoLostIndex'
      BY <2>5, FailsBound DEF FailFetch, FailWrite
    <3> QED
      BY <2>2, <3>1, <3>2, <3>3
  <2>6. CASE Retry(o)
    BY <2>2, <2>6 DEF Retry
  <2> QED
    BY <1>3, <2>3, <2>4, <2>5, <2>6 DEF Requesting, Report, Leave
<1> QED
  BY <1>1, <1>2, <1>3

\* One step of the loop that indexes, or of the shutdown.
LEMMA InvLoops ==
    ASSUME Working, Indexing \/ EndIndexer \/ Ending PROVE Working'
<1> USE FetchersFinite, PoolAtLeast
    DEF Working, Types, TypeOK, Counted, Tearing, NoLostIndex, Coming,
        Indexers, Servers, listVars, fetchVars, fileVars, indexVars, lifeVars, poolVars
<1>1. CASE Forced \/ Scheduled
  <2>1. Types'
    BY <1>1 DEF Forced, Scheduled
  <2>2. Fetchers' = Fetchers /\ Counted'
    BY <1>1 DEF Forced, Scheduled, Fetchers
  <2>3. Tearing'
    BY <1>1 DEF Forced, Scheduled
  <2>4. NoLostIndex'
    BY <1>1 DEF Forced, Scheduled
  <2> QED
    BY <2>1, <2>2, <2>3, <2>4
<1>2. CASE ListHosts
  <2>1. Types'
    BY <1>2 DEF ListHosts
  <2>2. Fetchers' = Fetchers /\ Counted'
    BY <1>2 DEF ListHosts, Fetchers
  <2>3. Tearing'
    BY <1>2 DEF ListHosts
  <2>4. NoLostIndex'
    BY <1>2 DEF ListHosts
  <2> QED
    BY <2>1, <2>2, <2>3, <2>4
<1>3. ASSUME NEW m \in Name, ReadHost(m) PROVE Working'
  <2>1. Types'
    BY <1>3 DEF ReadHost
  <2>2. Fetchers' = Fetchers /\ Counted'
    BY <1>3 DEF ReadHost, Fetchers
  <2>3. Tearing'
    BY <1>3 DEF ReadHost
  <2>4. NoLostIndex'
    BY <1>3 DEF ReadHost
  <2> QED
    BY <2>1, <2>2, <2>3, <2>4
<1>4. CASE Rewrite
  <2>1. Types'
    BY <1>4 DEF Rewrite
  <2>2. Fetchers' = Fetchers /\ Counted'
    BY <1>4 DEF Rewrite, Fetchers
  <2>3. Tearing'
    BY <1>4 DEF Rewrite
  <2>4. NoLostIndex'
    BY <1>4 DEF Rewrite
  <2> QED
    BY <2>1, <2>2, <2>3, <2>4
<1>5. CASE FailIndex \/ FailRewrite
  <2>1. Types'
    BY <1>5, FailsBound DEF FailIndex, FailRewrite, PoolDone
  <2>2. Fetchers' = Fetchers /\ Counted'
    BY <1>5, FailsBound DEF FailIndex, FailRewrite, PoolDone, Fetchers
  <2>3. Tearing'
    BY <1>5, FailsBound DEF FailIndex, FailRewrite, PoolDone
  <2>4. NoLostIndex'
    BY <1>5, FailsBound DEF FailIndex, FailRewrite, PoolDone
  <2> QED
    BY <2>1, <2>2, <2>3, <2>4
<1>6. CASE EndIndexer
  <2>1. /\ indexer = "idle" /\ indexer' = "ended"
        /\ pool' = pool - 1 /\ released' \in BOOLEAN
        /\ UNCHANGED <<listVars, fetchVars, fileVars, reindex, todo, found, connectTo, lifeVars, failures>>
    BY <1>6 DEF EndIndexer, PoolDone
  <2>2. Types'
    BY <2>1
  <2>3. Fetchers' = Fetchers /\ Counted'
    BY <2>1 DEF Fetchers
  <2>4. Tearing'
    BY <2>1
  <2>5. NoLostIndex'
    BY <2>1
  <2> QED
    BY <2>2, <2>3, <2>4, <2>5
<1>7. CASE CloseListener \/ EndServe
  <2>1. /\ \/ server = "serving" /\ server' = "closed"
           \/ server = "closed" /\ server' = "ended"
        /\ pool' = pool - 1 /\ released' \in BOOLEAN
        /\ UNCHANGED <<listVars, fetchVars, fileVars, indexVars, cancelled, finished, failures>>
    BY <1>7 DEF CloseListener, EndServe, PoolDone
  <2>2. Types'
    BY <2>1
  <2>5. Fetchers' = Fetchers /\ Counted'
    BY <2>1 DEF Fetchers
  <2>3. Tearing'
    BY <2>1
  <2>4. NoLostIndex'
    BY <2>1
  <2> QED
    BY <2>2, <2>3, <2>4, <2>5
<1>8. CASE Finish
  BY <1>8 DEF Fetchers, Finish
<1> QED
  BY <1>1, <1>2, <1>3, <1>4, <1>5, <1>6, <1>7, <1>8 DEF Indexing, Ending

\* The wait group reaches zero when the last goroutine ends, after the server.
LEMMA OverNext == ASSUME Working, Working', Over, Next PROVE Over'
<1> USE DEF listVars, fetchVars, fileVars, indexVars, lifeVars, poolVars
<1>1. server' # "serving" => cancelled'
  BY DEF Over, Next, Handlers, Handling, Requesting, Indexing, Ending,
         Watch, PushOpen, StoreOpen, Forget, Kill, Spawn, StopNode, PushWrite, FailPush,
         Fetch, FailFetch, Write, FailWrite, Report, Retry, Leave, Forced, Scheduled,
         ListHosts, ReadHost, Rewrite, FailIndex, FailRewrite, EndIndexer,
         CloseListener, EndServe, Finish
<1>2. CASE released' = released
  <2>1. cancelled => cancelled'
    BY DEF Next, Handlers, Handling, Requesting, Indexing, Ending,
         Watch, PushOpen, StoreOpen, Forget, Kill, Spawn, StopNode, PushWrite, FailPush,
         Fetch, FailFetch, Write, FailWrite, Report, Retry, Leave, Forced, Scheduled,
         ListHosts, ReadHost, Rewrite, FailIndex, FailRewrite, EndIndexer,
         CloseListener, EndServe, Finish
  <2>2. ASSUME released, NEW o \in Node PROVE fetcher'[o] \notin {"writing", "written"}
    <3>1. fetcher[o] \notin {"writing", "written"} /\ cancelled
      BY <2>2 DEF Over
    <3>2. fetcher \in [Node -> {"none", "trying", "writing", "written", "waiting", "ended"}]
      BY DEF Working, Types, TypeOK
    <3>3. CASE \E q \in Node : Requesting(q)
      BY <2>2, <3>1, <3>2, <3>3 DEF Over, Requesting, Fetch, FailFetch, Write, FailWrite, Report,
         Retry, Leave, Goto, Done
    <3>4. CASE \E q \in Node : Spawn(q)
      BY <3>1, <3>2, <3>4 DEF Spawn
    <3>5. CASE fetcher' = fetcher
      BY <3>1, <3>5
    <3> QED
      BY <3>3, <3>4, <3>5 DEF Next, Handlers, Handling, Indexing, Ending,
         Watch, PushOpen, StoreOpen, Forget, Kill, StopNode, PushWrite, FailPush,
         Forced, Scheduled, ListHosts, ReadHost, Rewrite, FailIndex, FailRewrite, EndIndexer,
         CloseListener, EndServe, Finish
  <2> QED
    BY <1>1, <1>2, <2>1, <2>2 DEF Over
<1>3. CASE released' # released
  <2>1. pool' = 0
    BY <1>3 DEF Next, Handlers, Handling, Requesting, Indexing, Ending, PoolDone,
         Watch, PushOpen, StoreOpen, Forget, Kill, Spawn, StopNode, PushWrite, FailPush,
         Fetch, FailFetch, Write, FailWrite, Report, Retry, Leave, Forced, Scheduled,
         ListHosts, ReadHost, Rewrite, FailIndex, FailRewrite, EndIndexer,
         CloseListener, EndServe, Finish
  <2>2. IsFiniteSet(Fetchers') /\ Cardinality(Fetchers') \in Nat
    <3>1. IsFiniteSet(Node) /\ Fetchers' \subseteq Node
      BY FS_Interval, BoundAssumption DEF Node, Fetchers
    <3> QED
      BY <3>1, FS_Subset, FS_CardinalityType
  <2>3. Cardinality(Fetchers') = 0 /\ server' = "ended"
    BY <2>1, <2>2 DEF Working, Types, TypeOK, Counted, Indexers, Servers
  <2>4. Fetchers' = {}
    BY <2>2, <2>3, FS_EmptySet
  <2> QED
    BY <1>1, <2>3, <2>4 DEF Over, Fetchers
<1> QED
  BY <1>2, <1>3

\* Every step keeps the invariant.
LEMMA InvNext == ASSUME IInv, [Next]_vars PROVE IInv'
<1> USE DEF vars, listVars, fetchVars, fileVars, indexVars, lifeVars, poolVars
<1>1. CASE UNCHANGED vars
  <2>1. Types' /\ Tearing' /\ NoLostIndex'
    BY <1>1 DEF IInv, Working, Types, TypeOK, Tearing, NoLostIndex, Coming
  <2>2. Counted'
    BY <1>1 DEF IInv, Working, Counted, Fetchers, Indexers, Servers
  <2> QED
    BY <1>1, <2>1, <2>2 DEF IInv, Working, Over
<1>2. CASE Next
  <2>1. Working'
    BY <1>2, InvHandlers, InvRequesting, InvLoops DEF Next, IInv
  <2>4. Over'
    BY <1>2, <2>1, OverNext DEF IInv
  <2>2. CASE Finish
    BY <2>1, <2>2, <2>4 DEF IInv, Finish
  <2>3. CASE ~ Finish
    <3>1. finished' = finished
      BY <1>2, <2>3 DEF Next, Handlers, Handling, Requesting, Indexing, Ending,
         Watch, PushOpen, StoreOpen, Forget, Kill, Spawn, StopNode, PushWrite, FailPush,
         Fetch, FailFetch, Write, FailWrite, Report, Retry, Leave, Forced, Scheduled,
         ListHosts, ReadHost, Rewrite, FailIndex, FailRewrite, EndIndexer,
         CloseListener, EndServe
    <3> QED
      BY <1>2, <2>1, <2>4, <3>1 DEF IInv, Next
  <2> QED
    BY <2>2, <2>3
<1> QED
  BY <1>1, <1>2

\* Every reachable state of Monitor has its types; in particular the wait group
\* is never below zero.
THEOREM MonitorTypes == Spec => []TypeOK
<1>1. IInv => TypeOK
  BY DEF IInv, Working, Types
<1> QED
  BY <1>1, InvInit, InvNext, PTL DEF Spec

\* A fetched public node is in tinc.conf or an index that will see it is due
\* (askForIndex, reindexLoop), for any number of nodes fetched at a time.
THEOREM NoIndexLost == Spec => []NoLostIndex
<1>1. IInv => NoLostIndex
  BY DEF IInv, Working
<1> QED
  BY <1>1, InvInit, InvNext, PTL DEF Spec

\* The process does not end in the middle of a fetch (WaitForFinish).
THEOREM ExitAlwaysClean == Spec => []ExitClean
<1>1. ASSUME IInv, finished, NEW m \in Name \ pushed, disk[m] = "torn" PROVE failures > 0
  <2>1. \A o \in Node : fetcher[o] # "writing"
    BY <1>1 DEF IInv, Over
  <2> QED
    BY <1>1, <2>1 DEF IInv, Working, Tearing
<1>2. IInv => ExitClean
  BY <1>1 DEF ExitClean
<1> QED
  BY <1>2, InvInit, InvNext, PTL DEF Spec
=============================================================================
