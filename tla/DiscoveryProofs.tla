-------------------------- MODULE DiscoveryProofs --------------------------
(***************************************************************************)
(* Proofs about Discovery for any set of nodes, any watches and any        *)
(* bounds.  All but the type invariant, Durable and Connected need the     *)
(* clock files to be whole (TornClock = FALSE): DiscoveryTornClock.cfg     *)
(* shows what becomes of the versions when they are not.                   *)
(***************************************************************************)
EXTENDS Discovery, TLAPS

-----------------------------------------------------------------------------
(* The inductive invariant, part by part.                                  *)

\* Nobody has heard of a version that its source has not issued: not in a map,
\* a file, a list of headers or an answer on its way.
VersionBound ==
    /\ \A m \in Node : clock[m] >= 0
    /\ \A n, m \in Node : entities[n][m] <= clock[m] /\ saved[n][m] <= clock[m]
    /\ \A w \in Watches : \A m \in Node : headers[w][m] <= clock[m]
    /\ \A w \in Watches : call[w].version <= clock[call[w].name]

\* The history has an edition for every tick, later ticks have later editions,
\* and the owner's own file is the latest.
History ==
    \A m \in Node :
        /\ Len(published[m]) = clock[m]
        /\ \A v \in 1..clock[m] : 0 <= published[m][v] /\ published[m][v] <= hosts[m][m]
        /\ \A u, v \in 1..clock[m] : u <= v => published[m][u] <= published[m][v]
        /\ 0 <= hosts[m][m]

\* Only a running process has a map and rounds; the map has the node's own
\* version, and every entry of the ssd file or a newer one.
Running ==
    /\ \A n \in Node : ~ Up(n) => entities[n] = Empty(Node)
    /\ \A n \in Node : Up(n) => /\ entities[n][n] = clock[n]
                                /\ \A m \in Node : saved[n][m] <= entities[n][m]
    /\ \A n \in Node : phase[n] = "ticked" => saved[n][n] < clock[n]
    /\ \A w \in Watches : pc[w] # "idle" => Up(Me(w))

\* Every entry has a host file, whole or torn.
HasFile == \A n, m \in Node :
              entities[n][m] # Absent \/ saved[n][m] # Absent => hosts[n][m] # NoFile

\* An answer on its way: the version is known to the peer that is asked for the
\* content, and the content that came with it backs it.
Answers ==
    \A w \in Watches :
        /\ pc[w] = "asked" => /\ Up(Peer(w))
                              /\ call[w].version <= entities[Peer(w)][call[w].name]
        /\ pc[w] = "fetched" => Backs(call[w].content, call[w].name, call[w].version)

\* The inductive invariant.  Backed alone is not inductive: a merge is backed
\* because the answer was, the answer because the peer's file was, and the
\* peer's own file because its history only grows.
IInv == /\ TypeOK
        /\ VersionBound
        /\ History
        /\ Running
        /\ HasFile
        /\ Answers
        /\ Backed
-----------------------------------------------------------------------------
(* Types.                                                                  *)

\* A requester runs on a node and polls a node.
LEMMA Endpoints == ASSUME NEW w \in Watches
                   PROVE  Me(w) \in Node /\ Peer(w) \in Node /\ Me(w) # Peer(w)
BY WatchesAssumption DEF Me, Peer

\* What a requester without a call in flight holds is a call.
LEMMA NoCallType == NoCall \in Call
<1>1. (CHOOSE n \in Node : TRUE) \in Node
  BY NodeAssumption
<1> QED
  BY <1>1 DEF NoCall, Call, Version

\* Start-up restores a map of names to entries.
LEMMA RestoredType == ASSUME TypeOK, NEW n \in Node
                      PROVE  Restored(n) \in [Node -> Entry]
<1> DEFINE Scanned == PutAllUnversioned(saved[n], FilesOf(n))
<1>1. saved[n] \in [Node -> Entry] /\ clock[n] \in Entry /\ 0 \in Entry
  BY DEF TypeOK, Entry, Version, Absent, Broken
<1>2. Scanned \in [Node -> Entry]
  BY <1>1 DEF PutAllUnversioned
<1> QED
  BY <1>1, <1>2 DEF Restored, ReadSSD, Put

\* A rewrite of tinc.conf that is whole or torn leaves lists of names, and what
\* was to be written or was lost before is in the list or counted as lost.
LEMMA RewriteList ==
    ASSUME TypeOK, NEW n \in Node, NEW names \in SUBSET Node,
           SaveWhole(n, names) \/ Tear(n, names)
    PROVE  /\ connectTo' \in [Node -> SUBSET Node] /\ lost' \in [Node -> SUBSET Node]
           /\ \A o \in Node \ {n} : connectTo'[o] = connectTo[o] /\ lost'[o] = lost[o]
           /\ names \cup lost[n] \subseteq connectTo'[n] \cup lost'[n]
<1>1. PICK left \in SUBSET names : Rewrite(n, names, left)
  BY DEF SaveWhole, Tear
<1>2. /\ connectTo' = [connectTo EXCEPT ![n] = left]
      /\ lost' = [lost EXCEPT ![n] = (lost[n] \cup names) \ left]
  BY <1>1 DEF Rewrite
<1> QED
  BY <1>2 DEF TypeOK

\* A failure is counted.
LEMMA FailCount == ASSUME TypeOK, Fail PROVE failures' \in Nat /\ failures' # 0
BY BoundsAssumption DEF TypeOK, Fail

\* AddHost lists the name, or a tear takes it with others; it lists no fewer.
LEMMA AddHostList ==
    ASSUME TypeOK, NEW n \in Node, NEW m \in Node, NEW content, AddHost(n, m, content)
    PROVE  /\ connectTo' \in [Node -> SUBSET Node] /\ lost' \in [Node -> SUBSET Node]
           /\ unreadable' \subseteq Node /\ failures' \in Nat
           /\ \A o \in Node : connectTo[o] \cup lost[o] \subseteq connectTo'[o] \cup lost'[o]
           /\ m \in connectTo'[n] \cup lost'[n]
           /\ failures' = failures \/ failures' # 0
<1>1. connectTo[n] \cup {m} \in SUBSET Node
  BY DEF TypeOK
<1>2. CASE UNCHANGED <<confVars, failures>> /\ m \in connectTo[n]
  BY <1>2 DEF confVars, TypeOK
<1>3. CASE SaveWhole(n, connectTo[n] \cup {m}) /\ UNCHANGED failures
  <2>1. unreadable' \subseteq Node /\ failures' \in Nat
    BY <1>3 DEF SaveWhole, TypeOK
  <2> QED
    BY <1>1, <1>3, <2>1, RewriteList
<1>4. CASE Fail /\ SaveTorn(n, connectTo[n] \cup {m})
  <2>1. unreadable' \subseteq Node /\ Tear(n, connectTo[n] \cup {m})
    BY <1>4 DEF SaveTorn, TypeOK
  <2> QED
    BY <1>1, <1>4, <2>1, RewriteList, FailCount
<1> QED
  BY <1>2, <1>3, <1>4 DEF AddHost

\* A failed AddHost lists no fewer either, but for what a tear took.
LEMMA FailMergeList ==
    ASSUME TypeOK, NEW w \in Watches, FailMerge(w)
    PROVE  /\ connectTo' \in [Node -> SUBSET Node] /\ lost' \in [Node -> SUBSET Node]
           /\ unreadable' \subseteq Node /\ failures' \in Nat
           /\ \A o \in Node : connectTo[o] \cup lost[o] \subseteq connectTo'[o] \cup lost'[o]
<1> DEFINE n == Me(w)
           m == call[w].name
<1>1. n \in Node /\ m \in Node /\ connectTo[n] \cup {m} \in SUBSET Node /\ failures' \in Nat
  BY Endpoints, FailCount DEF FailMerge, TypeOK, Call
<1>2. CASE UNCHANGED confVars
  BY <1>1, <1>2 DEF confVars, TypeOK
<1>3. CASE SaveTorn(n, connectTo[n] \cup {m})
  <2>1. unreadable' \subseteq Node /\ Tear(n, connectTo[n] \cup {m})
    BY <1>1, <1>3 DEF SaveTorn, TypeOK
  <2> HIDE DEF n, m
  <2> QED
    BY <1>1, <2>1, RewriteList
<1> QED
  BY <1>2, <1>3 DEF FailMerge

\* Start-up lists the host files, or a tear takes some of them.
LEMMA StartList ==
    ASSUME TypeOK, NEW n \in Node, Start(n) \/ FailStart(n)
    PROVE  /\ connectTo' \in [Node -> SUBSET Node] /\ lost' \in [Node -> SUBSET Node]
           /\ unreadable' \subseteq Node /\ failures' \in Nat
           /\ \A o \in Node \ {n} : connectTo'[o] = connectTo[o] /\ lost'[o] = lost[o]
           /\ FilesOf(n) \subseteq connectTo'[n] \cup lost'[n]
<1>1. FilesOf(n) \in SUBSET Node
  BY DEF FilesOf
<1>2. SaveWhole(n, FilesOf(n)) \/ Tear(n, FilesOf(n))
  BY DEF Start, FailStart, IndexHosts, SaveTorn
<1>3. unreadable' \subseteq Node /\ failures' \in Nat
  BY FailCount DEF Start, FailStart, IndexHosts, SaveWhole, SaveTorn, TypeOK
<1> QED
  BY <1>1, <1>2, <1>3, RewriteList

\* Before the first start every variable is of its type.
LEMMA TypeInit == Init => TypeOK
<1>1. \A n \in Node : <<>> \in Seq(File)
  OBVIOUS
<1>2. Empty(Node) \in [Node -> Entry]
  BY DEF Empty, Entry
<1>3. {0, NoFile} \subseteq File
  BY DEF File, Edition
<1> SUFFICES ASSUME Init PROVE TypeOK
  OBVIOUS
<1>4. hosts \in [Node -> [Node -> File]]
  BY <1>3 DEF Init
<1>5. /\ entities \in [Node -> [Node -> Entry]] /\ saved \in [Node -> [Node -> Entry]]
      /\ headers \in [Watches -> [Node -> Entry]]
  BY <1>2 DEF Init
<1>6. /\ phase \in [Node -> {"down", "ticked", "up"}] /\ clock \in [Node -> Nat \cup {Broken}]
      /\ connectTo \in [Node -> SUBSET Node] /\ published \in [Node -> Seq(File)]
      /\ unreadable \subseteq Node /\ lost \in [Node -> SUBSET Node]
  BY <1>1 DEF Init
<1>7. /\ pc \in [Watches -> PC] /\ call \in [Watches -> Call]
      /\ changed \in [Watches -> BOOLEAN] /\ failures \in Nat
  BY NoCallType DEF Init, PC
<1> QED
  BY <1>4, <1>5, <1>6, <1>7 DEF TypeOK

\* Every step of a node, a requester or a server keeps the types.
LEMMA TypeNext == TypeOK /\ [Next]_vars => TypeOK'
<1> SUFFICES ASSUME TypeOK, [Next]_vars PROVE TypeOK'
  OBVIOUS
<1> USE DEF TypeOK, nodeVars, fileVars, confVars, roundVars, Entry, Version, Edition
<1>1. ASSUME NEW n \in Node, EditHost(n) PROVE TypeOK'
  <2>1. hosts[n][n] + 1 \in File
    <3>1. hosts[n][n] \in File
      OBVIOUS
    <3> QED
      BY <3>1 DEF File, Torn, NoFile
  <2>2. [hosts[n] EXCEPT ![n] = hosts[n][n] + 1] \in [Node -> File]
    BY <2>1
  <2>3. hosts' = [hosts EXCEPT ![n] = [hosts[n] EXCEPT ![n] = hosts[n][n] + 1]]
    BY <1>1 DEF EditHost
  <2> QED
    BY <1>1, <2>2, <2>3 DEF EditHost
<1>2. ASSUME NEW n \in Node, Tick(n) PROVE TypeOK'
  <2>1. NextTick(clock[n]) \in Nat
    BY DEF NextTick, Broken
  <2>2. Append(published[n], hosts[n][n]) \in Seq(File)
    OBVIOUS
  <2> QED
    BY <1>2, <2>1, <2>2 DEF Tick
<1>3. ASSUME NEW n \in Node, TearClock(n) PROVE TypeOK'
  <2>1. <<>> \in Seq(File)
    OBVIOUS
  <2> QED
    BY <1>3, <2>1 DEF TearClock
<1>4. ASSUME NEW n \in Node, Start(n) PROVE TypeOK'
  <2>1. Restored(n) \in [Node -> Entry]
    BY RestoredType
  <2>2. saved' \in [Node -> [Node -> Entry]]
    BY <1>4, <2>1 DEF Start
  <2>3. entities' \in [Node -> [Node -> Entry]] /\ phase' \in [Node -> {"down", "ticked", "up"}]
    BY <1>4, <2>1 DEF Start
  <2>4. UNCHANGED <<clock, hosts, published, pc, headers, call, changed>>
    BY <1>4 DEF Start
  <2> QED
    BY <1>4, <2>2, <2>3, <2>4, StartList
<1>19. ASSUME NEW n \in Node, FailStart(n) PROVE TypeOK'
  <2>1. saved' \in [Node -> [Node -> Entry]]
    BY <1>19, RestoredType DEF FailStart
  <2>2. phase' \in [Node -> {"down", "ticked", "up"}]
    BY <1>19 DEF FailStart
  <2>3. UNCHANGED <<clock, entities, hosts, published, pc, headers, call, changed>>
    BY <1>19 DEF FailStart
  <2> QED
    BY <1>19, <2>1, <2>2, <2>3, StartList
<1>5. ASSUME NEW n \in Node, Crash(n) PROVE TypeOK'
  BY <1>5, NoCallType DEF Crash, Empty, Absent, PC
<1>6. ASSUME NEW w \in Watches, FetchHeaders(w) PROVE TypeOK'
  BY <1>6, Endpoints DEF FetchHeaders, Goto, PC
<1>7. ASSUME NEW w \in Watches, NEW m \in Node, Skip(w, m) PROVE TypeOK'
  BY <1>7 DEF Skip, Done, Absent
<1>8. ASSUME NEW w \in Watches, NEW m \in Node, Ask(w, m) PROVE TypeOK'
  <2>1. [NoCall EXCEPT !.name = m] \in Call
    BY NoCallType DEF Call
  <2> QED
    BY <1>8, <2>1 DEF Ask, Done, Goto, Absent, PC
<1>9. ASSUME NEW w \in Watches, ReadVersion(w) PROVE TypeOK'
  <2>1. entities[Peer(w)][call[w].name] \in Nat
    BY <1>9, Endpoints DEF ReadVersion, After, Absent, Call
  <2>2. [call[w] EXCEPT !.version = entities[Peer(w)][call[w].name]] \in Call
    BY <2>1 DEF Call
  <2>3. call' = [call EXCEPT ![w] = [call[w] EXCEPT !.version = entities[Peer(w)][call[w].name]]]
    BY <1>9 DEF ReadVersion
  <2> QED
    BY <1>9, <2>2, <2>3 DEF ReadVersion, Goto, PC
<1>10. ASSUME NEW w \in Watches, ReadContent(w) PROVE TypeOK'
  <2>1. hosts[Peer(w)][call[w].name] \in Edition \cup {Torn}
    BY <1>10, Endpoints DEF ReadContent, Call, File
  <2>2. [call[w] EXCEPT !.content = hosts[Peer(w)][call[w].name]] \in Call
    BY <2>1, ZenonT(40) DEF Call
  <2>3. call' = [call EXCEPT ![w] = [call[w] EXCEPT !.content = hosts[Peer(w)][call[w].name]]]
    BY <1>10 DEF ReadContent
  <2> QED
    BY <1>10, <2>2, <2>3 DEF ReadContent, Goto, PC
<1>11. ASSUME NEW w \in Watches, FailFetch(w) PROVE TypeOK'
  BY <1>11, NoCallType, FailCount DEF FailFetch, Goto, PC
<1>12. ASSUME NEW w \in Watches, Merge(w) PROVE TypeOK'
  <2>1. call[w].name \in Node /\ call[w].version \in Nat /\ call[w].content \in File
    BY DEF Call, File
  <2>2. /\ connectTo' \in [Node -> SUBSET Node] /\ lost' \in [Node -> SUBSET Node]
        /\ unreadable' \subseteq Node /\ failures' \in Nat
    BY <1>12, <2>1, Endpoints, AddHostList DEF Merge
  <2>3. hosts' \in [Node -> [Node -> File]]
    BY <1>12, <2>1, Endpoints DEF Merge, AddHost, WriteHost
  <2>4. entities' \in [Node -> [Node -> Entry]]
    BY <1>12, <2>1, Endpoints DEF Merge, Put
  <2>5. /\ call' \in [Watches -> Call] /\ pc' \in [Watches -> PC]
        /\ changed' \in [Watches -> BOOLEAN]
        /\ UNCHANGED <<phase, clock, saved, published, headers>>
    BY <1>12, NoCallType DEF Merge, EndCall, Goto, PC
  <2> QED
    BY <2>2, <2>3, <2>4, <2>5
<1>20. ASSUME NEW w \in Watches, RefuseMerge(w) PROVE TypeOK'
  <2>1. call[w].name \in Node /\ call[w].content \in File
    BY DEF Call, File
  <2> QED
    BY <1>20, <2>1, Endpoints, NoCallType DEF RefuseMerge, WriteHost, EndCall, Goto, PC
<1>13. ASSUME NEW w \in Watches, FailMerge(w) PROVE TypeOK'
  <2>1. call[w].name \in Node /\ {Torn, call[w].content} \subseteq File
    BY DEF Call, File
  <2>2. hosts' \in [Node -> [Node -> File]]
    <3>1. \E file \in File : hosts' = [hosts EXCEPT ![Me(w)][call[w].name] = file]
      <4>1. hosts[Me(w)][call[w].name] \in File
        BY <2>1, Endpoints
      <4> QED
        BY <1>13, <2>1, <4>1, Zenon DEF FailMerge, WriteHost
    <3> QED
      BY <2>1, <3>1, Endpoints
  <2>3. /\ call' \in [Watches -> Call] /\ pc' \in [Watches -> PC]
        /\ UNCHANGED <<phase, clock, saved, entities, published, headers, changed>>
    BY <1>13, NoCallType DEF FailMerge, EndCall, Goto, PC
  <2> QED
    BY <1>13, <2>2, <2>3, FailMergeList
<1>14. ASSUME NEW w \in Watches, Discard(w) PROVE TypeOK'
  BY <1>14, NoCallType DEF Discard, EndCall, Goto, PC
<1>15. ASSUME NEW w \in Watches, EndRound(w) PROVE TypeOK'
  BY <1>15 DEF EndRound, Goto, PC
<1>16. ASSUME NEW w \in Watches, SaveRound(w) PROVE TypeOK'
  BY <1>16, Endpoints DEF SaveRound, Goto, PC
<1>17. ASSUME NEW w \in Watches, FailSave(w) PROVE TypeOK'
  BY <1>17, FailCount DEF FailSave, Goto, PC
<1>18. CASE UNCHANGED vars
  BY <1>18 DEF vars
<1> QED
  BY <1>1, <1>2, <1>3, <1>4, <1>5, <1>6, <1>7, <1>8, <1>9, <1>10, <1>11, <1>12,
     <1>13, <1>14, <1>15, <1>16, <1>17, <1>18, <1>19, <1>20
     DEF Next, Operator, Process, Progress

\* Every variable of the network keeps to its type, whatever the bounds and
\* with or without torn clock files: the state of Execute, gatherInfo and the
\* server is always one that the code's maps, files and requests can be in.
THEOREM TypeCorrect == Spec => []TypeOK
<1>1. Init => TypeOK
  BY TypeInit
<1>2. TypeOK /\ [Next]_vars => TypeOK'
  BY TypeNext
<1> QED
  BY <1>1, <1>2, PTL DEF Spec

-----------------------------------------------------------------------------
(* The invariant, for whole clock files.                                   *)

\* Versions, clocks and editions are integers, for the arithmetic below.
LEMMA Numbers ==
    ASSUME TypeOK
    PROVE  /\ \A n \in Node : clock[n] \in Int
           /\ \A n, m \in Node : /\ entities[n][m] \in Int /\ entities[n][m] >= -1
                                 /\ saved[n][m] \in Int /\ saved[n][m] >= -1
                                 /\ hosts[n][m] \in Int
           /\ \A w \in Watches : \A m \in Node : headers[w][m] \in Int
           /\ \A w \in Watches : /\ call[w].name \in Node
                                 /\ call[w].version \in Nat
                                 /\ call[w].content \in Int
                                 /\ call[w].content # NoFile
BY DEF TypeOK, Entry, Version, Absent, Broken, File, Edition, Torn, NoFile, Call

\* A history of editions, read at one of its ticks, gives a file.
LEMMA Editions ==
    ASSUME TypeOK, History, NEW m \in Node, NEW v \in 1..clock[m]
    PROVE  published[m][v] \in Int
<1>1. published[m] \in Seq(File) /\ Len(published[m]) = clock[m]
  BY DEF TypeOK, History
<1>2. published[m][v] \in File
  BY <1>1
<1> QED
  BY <1>2 DEF File, Edition, Torn, NoFile

\* A file that backs a version backs every older one.
LEMMA BacksOlder ==
    ASSUME TypeOK, History, NEW m \in Node, NEW file \in Int, NEW u \in Int, NEW v \in Int,
           v <= u, u <= clock[m], Backs(file, m, u)
    PROVE  Backs(file, m, v)
<1>1. CASE v <= 0
  BY <1>1 DEF Backs
<1>2. CASE 0 < v
  <2>1. /\ clock[m] \in Int
        /\ u \in 1..clock[m] /\ v \in 1..clock[m]
    BY <1>2, Numbers
  <2>2. published[m][v] <= published[m][u]
    BY <2>1 DEF History
  <2>3. published[m][v] \in Int /\ published[m][u] \in Int
    BY <2>1, Editions
  <2> QED
    BY <1>2, <2>1, <2>2, <2>3 DEF Backs
<1> QED
  BY <1>1, <1>2

\* The owner's own file backs every version the owner has issued.
LEMMA OwnBacks ==
    ASSUME TypeOK, History, NEW m \in Node, NEW v \in Int, v <= clock[m]
    PROVE  Backs(hosts[m][m], m, v)
BY Numbers DEF Backs, History

\* Nothing is claimed before the first start.
LEMMA InvInit == ASSUME Init PROVE IInv
<1>1. TypeOK
  BY TypeInit
<1>2. VersionBound /\ Running /\ Answers
  BY Endpoints DEF Init, VersionBound, Running, Answers, Empty, Absent, Up, NoCall
<1>3. History
  BY DEF Init, History
<1>4. HasFile /\ Backed
  BY DEF Init, HasFile, Backed, Empty, Absent, Backs
<1> QED
  BY <1>1, <1>2, <1>3, <1>4 DEF IInv

\* Steps of a round that touch nothing but the round.
LEMMA InvRound ==
    ASSUME IInv, TypeOK', NEW w \in Watches,
           UNCHANGED <<nodeVars, entities, fileVars, published>>,
           \/ FetchHeaders(w)
           \/ \E m \in Node : Skip(w, m) \/ Ask(w, m)
           \/ FailFetch(w)
           \/ Discard(w)
           \/ EndRound(w)
           \/ FailSave(w)
    PROVE  IInv'
<1> USE DEF IInv, nodeVars, fileVars, confVars
<1>1. History' /\ HasFile' /\ Backed'
  BY DEF History, HasFile, Backed, Backs
<1>2. /\ \A x \in Watches : \A m \in Node : headers'[x][m] <= clock[m]
      /\ \A x \in Watches : call'[x].version <= clock[call'[x].name]
      /\ \A x \in Watches : pc'[x] # "idle" => Up(Me(x))
      /\ \A x \in Watches : pc'[x] \in {"asked", "fetched"} =>
                               pc'[x] = pc[x] /\ call'[x] = call[x]
  <2> USE Endpoints, Numbers, NoCallType DEF VersionBound, Running, TypeOK
  <2>1. NoCall.version = 0 /\ NoCall.name \in Node
    BY DEF NoCall, Call
  <2>2. CASE FetchHeaders(w)
    BY <2>2 DEF FetchHeaders, Goto, PC
  <2>3. ASSUME NEW m \in Node, Skip(w, m) \/ Ask(w, m)
        PROVE  <1>2!1 /\ <1>2!2 /\ <1>2!3 /\ <1>2!4
    <3>1. headers' = [headers EXCEPT ![w] = [headers[w] EXCEPT ![m] = -1]]
      BY <2>3 DEF Skip, Ask, Done, Absent
    <3>2. <1>2!1
      BY <3>1
    <3>3. CASE Skip(w, m)
      BY <3>2, <3>3 DEF Skip
    <3>4. CASE Ask(w, m)
      <4>1. /\ call' = [call EXCEPT ![w] = [NoCall EXCEPT !.name = m]]
            /\ pc' = [pc EXCEPT ![w] = "asking"]
            /\ pc[w] = "merging"
        BY <3>4 DEF Ask, Goto
      <4>2. [NoCall EXCEPT !.name = m].version = 0 /\ [NoCall EXCEPT !.name = m].name = m
        BY DEF NoCall
      <4> QED
        BY <3>2, <4>1, <4>2
    <3> QED
      BY <2>3, <3>3, <3>4
  <2>4. CASE FailFetch(w)
    BY <2>1, <2>4, ZenonT(40) DEF FailFetch, Goto, PC
  <2>5. CASE Discard(w)
    BY <2>1, <2>5, ZenonT(40) DEF Discard, EndCall, Goto, PC
  <2>6. CASE EndRound(w) \/ FailSave(w)
    BY <2>6 DEF EndRound, FailSave, RoundDone, Goto, PC
  <2> QED
    BY <2>2, <2>3, <2>4, <2>5, <2>6
<1>3. VersionBound'
  BY <1>2 DEF VersionBound
<1>4. Running'
  BY <1>2 DEF Running, Up
<1>5. Answers'
  BY <1>2 DEF Answers, Up, Backs
<1> QED
  BY <1>1, <1>3, <1>4, <1>5

\* The server's read of the version: the peer will not forget it while it is up.
LEMMA InvReadVersion ==
    ASSUME IInv, TypeOK', NEW w \in Watches, ReadVersion(w)
    PROVE  IInv'
<1> USE DEF IInv, nodeVars, fileVars, confVars
<1> DEFINE p == Peer(w)
           m == call[w].name
<1>1. p \in Node /\ m \in Node
  BY Endpoints, Numbers
<1>2. /\ UNCHANGED <<nodeVars, entities, fileVars, published, headers>>
      /\ call' = [call EXCEPT ![w] = [call[w] EXCEPT !.version = entities[p][m]]]
      /\ pc' = [pc EXCEPT ![w] = "asked"]
      /\ pc[w] = "asking" /\ Up(p)
  BY DEF ReadVersion, Goto
<1>3. /\ \A x \in Watches \ {w} : call'[x] = call[x] /\ pc'[x] = pc[x]
      /\ pc'[w] = "asked" /\ call'[w].name = m /\ call'[w].version = entities[p][m]
  BY <1>2 DEF TypeOK, Call
<1>4. History' /\ HasFile' /\ Backed'
  BY <1>2 DEF History, HasFile, Backed, Backs
<1>5. VersionBound'
  BY <1>1, <1>2, <1>3 DEF VersionBound
<1>6. Running'
  BY <1>2, <1>3 DEF Running, Up
<1>7. Answers'
  <2>1. entities[p][m] <= entities[p][m]
    BY <1>1, Numbers
  <2> QED
    BY <1>2, <1>3, <2>1 DEF Answers, Up, Backs
<1> QED
  BY <1>4, <1>5, <1>6, <1>7

\* The server's read of the content: since the version was read the file can
\* only have become newer, or torn under a newer version.
LEMMA InvReadContent ==
    ASSUME IInv, TypeOK', NEW w \in Watches, ReadContent(w)
    PROVE  IInv'
<1> USE DEF IInv, nodeVars, fileVars, confVars
<1> DEFINE p == Peer(w)
           m == call[w].name
<1>1. p \in Node /\ m \in Node
  BY Endpoints, Numbers
<1>2. /\ UNCHANGED <<nodeVars, entities, fileVars, published, headers>>
      /\ call' = [call EXCEPT ![w] = [call[w] EXCEPT !.content = hosts[p][m]]]
      /\ pc' = [pc EXCEPT ![w] = "fetched"]
      /\ pc[w] = "asked"
  BY DEF ReadContent, Goto
<1>3. /\ \A x \in Watches \ {w} : call'[x] = call[x] /\ pc'[x] = pc[x]
      /\ pc'[w] = "fetched" /\ call'[w].name = m
      /\ call'[w].version = call[w].version /\ call'[w].content = hosts[p][m]
  BY <1>2 DEF TypeOK, Call
<1>4. History' /\ HasFile' /\ Backed'
  BY <1>2 DEF History, HasFile, Backed, Backs
<1>5. VersionBound'
  BY <1>2, <1>3 DEF VersionBound
<1>6. Running'
  BY <1>2, <1>3 DEF Running, Up
<1>7. Backs(hosts[p][m], m, call[w].version)
  <2>1. call[w].version <= entities[p][m] /\ entities[p][m] <= clock[m]
    BY <1>1, <1>2 DEF Answers, VersionBound
  <2>2. Backs(hosts[p][m], m, entities[p][m])
    BY <1>1 DEF Backed
  <2> QED
    BY <1>1, <2>1, <2>2, Numbers, BacksOlder
<1>8. Answers'
  BY <1>2, <1>3, <1>7 DEF Answers, Up, Backs
<1> QED
  BY <1>4, <1>5, <1>6, <1>8

\* A save claims on disk what the map claims, and the map is backed.
LEMMA InvSave ==
    ASSUME IInv, TypeOK', NEW w \in Watches, SaveRound(w)
    PROVE  IInv'
<1> USE DEF IInv, fileVars, confVars
<1> DEFINE n == Me(w)
<1>1. n \in Node
  BY Endpoints
<1>2. /\ UNCHANGED <<phase, clock, entities, hosts, published, headers, call>>
      /\ saved' = [saved EXCEPT ![n] = entities[n]]
      /\ pc' = [pc EXCEPT ![w] = "idle"]
      /\ Up(n)
  BY DEF SaveRound, RoundDone, Goto, Running
<1>3. saved'[n] = entities[n] /\ \A o \in Node \ {n} : saved'[o] = saved[o]
  BY <1>1, <1>2 DEF TypeOK
<1>4. History'
  BY <1>2 DEF History
<1>5. VersionBound'
  BY <1>2, <1>3 DEF VersionBound
<1>6. HasFile' /\ Backed'
  BY <1>2, <1>3 DEF HasFile, Backed, Backs
<1>7. Running'
  <2>1. \A m \in Node : entities[n][m] <= entities[n][m]
    BY <1>1, Numbers
  <2> QED
    BY <1>1, <1>2, <1>3, <2>1 DEF Running, Up, TypeOK
<1>8. Answers'
  BY <1>2 DEF Answers, Up, Backs, TypeOK
<1> QED
  BY <1>4, <1>5, <1>6, <1>7, <1>8

\* A merge: another node's name (its own version is the latest there is), and
\* a content that backs the new entry and with it every older one.
LEMMA InvMerge ==
    ASSUME IInv, TypeOK', NEW w \in Watches, Merge(w)
    PROVE  IInv'
<1> USE DEF IInv, nodeVars
<1> DEFINE n == Me(w)
           m == call[w].name
           v == call[w].version
           file == call[w].content
<1>1. n \in Node /\ m \in Node /\ v \in Nat /\ file \in Int /\ file # NoFile
  BY Endpoints, Numbers
<1>2. /\ UNCHANGED <<nodeVars, published, headers>>
      /\ hosts' = [hosts EXCEPT ![n] = [hosts[n] EXCEPT ![m] = file]]
      /\ entities' = [entities EXCEPT ![n] = [entities[n] EXCEPT ![m] = v]]
      /\ call' = [call EXCEPT ![w] = NoCall]
      /\ pc' = [pc EXCEPT ![w] = "merging"]
      /\ pc[w] = "fetched" /\ Up(n)
  BY DEF Merge, AddHost, WriteHost, Put, EndCall, Goto, Running
<1>3. /\ entities[n][m] < v
      /\ v <= clock[m]
      /\ n # m
  <2>1. entities[n][m] < v
    BY <1>1, Numbers DEF Merge, Replaces, IsNewer, Absent
  <2>2. v <= clock[m]
    BY DEF VersionBound
  <2>3. n # m
    <3>1. entities[n][n] = clock[n] /\ clock[n] \in Int
      BY <1>1, <1>2, Numbers DEF Running
    <3> QED
      BY <1>1, <2>1, <2>2, <3>1
  <2> QED
    BY <2>1, <2>2, <2>3
<1>4. /\ \A o \in Node, x \in Node : <<o, x>> # <<n, m>> =>
             hosts'[o][x] = hosts[o][x] /\ entities'[o][x] = entities[o][x]
      /\ hosts'[n][m] = file /\ entities'[n][m] = v
      /\ \A x \in Watches \ {w} : call'[x] = call[x] /\ pc'[x] = pc[x]
      /\ pc'[w] = "merging"
      /\ call'[w].version = 0 /\ call'[w].name \in Node
  BY <1>1, <1>2, NoCallType DEF TypeOK, NoCall, Call
<1>5. VersionBound'
  BY <1>1, <1>2, <1>3, <1>4 DEF VersionBound
<1>6. History'
  BY <1>1, <1>2, <1>3, <1>4 DEF History
<1>7. Running'
  <2>1. \A o \in Node : ~ Up(o) => entities'[o] = entities[o]
    BY <1>1, <1>2 DEF TypeOK
  <2>2. \A o, x \in Node : entities[o][x] <= entities'[o][x]
    BY <1>1, <1>3, <1>4, Numbers
  <2>3. \A o, x \in Node : Up(o) => saved[o][x] <= entities'[o][x]
    <3> SUFFICES ASSUME NEW o \in Node, NEW x \in Node, Up(o) PROVE saved[o][x] <= entities'[o][x]
      OBVIOUS
    <3>1. saved[o][x] <= entities[o][x] /\ entities[o][x] <= entities'[o][x]
      BY <2>2 DEF Running
    <3>2. saved[o][x] \in Int /\ entities[o][x] \in Int /\ entities'[o][x] \in Int
      BY <1>1, <1>4, Numbers
    <3> QED
      BY <3>1, <3>2
  <2> QED
    BY <1>1, <1>2, <1>3, <1>4, <2>1, <2>3 DEF Running, Up
<1>8. HasFile'
  BY <1>1, <1>2, <1>4 DEF HasFile
<1>9. Backs(file, m, v) /\ Backs(file, m, saved[n][m])
  <2>1. Backs(file, m, v)
    BY <1>2 DEF Answers
  <2>2. saved[n][m] <= entities[n][m]
    BY <1>1, <1>2 DEF Running
  <2>3. saved[n][m] <= v /\ saved[n][m] \in Int
    BY <1>1, <1>3, <2>2, Numbers
  <2> QED
    BY <1>1, <1>3, <2>1, <2>3, BacksOlder
<1>10. Backed'
  BY <1>1, <1>2, <1>4, <1>9 DEF Backed, Backs
<1>12. Answers'
  <2> SUFFICES ASSUME NEW x \in Watches
               PROVE  /\ pc'[x] = "asked" => /\ Up(Peer(x))
                                             /\ call'[x].version <= entities'[Peer(x)][call'[x].name]
                      /\ pc'[x] = "fetched" => Backs(call'[x].content, call'[x].name, call'[x].version)
    BY <1>2 DEF Answers, Up, Backs
  <2>1. CASE x = w
    BY <1>4, <2>1
  <2>2. CASE x # w
    <3>1. call'[x] = call[x] /\ pc'[x] = pc[x]
      BY <1>4, <2>2
    <3>2. pc[x] = "asked" => call[x].version <= entities'[Peer(x)][call[x].name]
      <4> SUFFICES ASSUME pc[x] = "asked" PROVE call[x].version <= entities'[Peer(x)][call[x].name]
        OBVIOUS
      <4>1. Peer(x) \in Node /\ call[x].name \in Node /\ call[x].version \in Int
        BY Endpoints, Numbers
      <4>2. /\ call[x].version <= entities[Peer(x)][call[x].name]
            /\ entities[Peer(x)][call[x].name] <= entities'[Peer(x)][call[x].name]
        BY <1>1, <1>3, <1>4, <4>1, Numbers DEF Answers
      <4>3. entities[Peer(x)][call[x].name] \in Int /\ entities'[Peer(x)][call[x].name] \in Int
        BY <1>1, <1>4, <4>1, Numbers
      <4> QED
        BY <4>1, <4>2, <4>3
    <3> QED
      BY <3>1, <3>2 DEF Answers
  <2> QED
    BY <2>1, <2>2
<1> QED
  BY <1>5, <1>6, <1>7, <1>8, <1>10, <1>12

\* A merge that fails half-way, or at a tinc.conf that it cannot read: the file is what it was, torn, or the new one,
\* and each of them backs the entry that stays, which is older.
LEMMA InvFailMerge ==
    ASSUME IInv, TypeOK', NEW w \in Watches, FailMerge(w) \/ RefuseMerge(w)
    PROVE  IInv'
<1> USE DEF IInv, nodeVars
<1> DEFINE n == Me(w)
           m == call[w].name
           v == call[w].version
<1>1. n \in Node /\ m \in Node /\ v \in Nat
  BY Endpoints, Numbers
<1>2. PICK file \in {hosts[n][m], Torn, call[w].content} :
         hosts' = [hosts EXCEPT ![n] = [hosts[n] EXCEPT ![m] = file]]
  BY DEF FailMerge, RefuseMerge, WriteHost
<1>3. /\ UNCHANGED <<nodeVars, entities, published, headers>>
      /\ call' = [call EXCEPT ![w] = NoCall]
      /\ pc' = [pc EXCEPT ![w] = "merging"]
      /\ pc[w] = "fetched" /\ Up(n)
  BY DEF FailMerge, RefuseMerge, EndCall, Goto, Running
<1>4. /\ entities[n][m] < v
      /\ v <= clock[m]
      /\ n # m
  <2>1. entities[n][m] < v
    BY <1>1, Numbers DEF FailMerge, RefuseMerge, Replaces, IsNewer, Absent
  <2>2. v <= clock[m]
    BY DEF VersionBound
  <2>3. n # m
    <3>1. entities[n][n] = clock[n] /\ clock[n] \in Int
      BY <1>1, <1>3, Numbers DEF Running
    <3> QED
      BY <1>1, <2>1, <2>2, <3>1
  <2> QED
    BY <2>1, <2>2, <2>3
<1>5. /\ \A o \in Node, x \in Node : <<o, x>> # <<n, m>> => hosts'[o][x] = hosts[o][x]
      /\ hosts'[n][m] = file
      /\ \A x \in Watches \ {w} : call'[x] = call[x] /\ pc'[x] = pc[x]
      /\ pc'[w] = "merging"
      /\ call'[w].version = 0 /\ call'[w].name \in Node
  BY <1>1, <1>2, <1>3, NoCallType DEF TypeOK, NoCall, Call
<1>6. VersionBound'
  BY <1>1, <1>3, <1>5 DEF VersionBound
<1>7. History'
  BY <1>1, <1>3, <1>4, <1>5 DEF History
<1>8. Running'
  BY <1>3, <1>5 DEF Running, Up
<1>9. HasFile'
  <2>1. (entities[n][m] # Absent \/ saved[n][m] # Absent) => file # NoFile
    BY <1>1, Numbers DEF HasFile, Torn, NoFile
  <2> QED
    BY <1>1, <1>3, <1>5, <2>1 DEF HasFile
<1>10. \A u \in {entities[n][m], saved[n][m]} : Backs(file, m, u)
  <2>1. entities[n][m] \in Int /\ saved[n][m] \in Int /\ clock[m] \in Int /\ hosts[n][m] \in Int
    BY <1>1, Numbers
  <2>2. saved[n][m] <= entities[n][m]
    BY <1>1, <1>3 DEF Running
  <2> SUFFICES ASSUME NEW u \in {entities[n][m], saved[n][m]} PROVE Backs(file, m, u)
    OBVIOUS
  <2>3. u \in Int /\ u < v /\ u < clock[m]
    BY <1>1, <1>4, <2>1, <2>2
  <2>4. CASE file = hosts[n][m]
    BY <1>1, <2>4 DEF Backed
  <2>5. CASE file = Torn
    BY <2>3, <2>5 DEF Backs
  <2>6. CASE file = call[w].content
    <3>1. Backs(file, m, v) /\ file \in Int
      BY <1>3, <2>6, Numbers DEF Answers
    <3>2. u <= v
      BY <1>1, <2>3
    <3> QED
      BY <1>1, <1>4, <2>3, <3>1, <3>2, BacksOlder
  <2> QED
    BY <1>2, <2>4, <2>5, <2>6
<1>11. Backed'
  BY <1>1, <1>3, <1>5, <1>10 DEF Backed, Backs
<1>13. Answers'
  BY <1>3, <1>5 DEF Answers, Up, Backs
<1> QED
  BY <1>6, <1>7, <1>8, <1>9, <1>11, <1>13

\* The owner edits its file: what backed a version still does.
LEMMA InvEditHost ==
    ASSUME IInv, TypeOK', NEW n \in Node, EditHost(n)
    PROVE  IInv'
<1> USE DEF IInv, nodeVars, roundVars
<1>1. /\ UNCHANGED <<phase, clock, saved, entities, published, pc, headers, call>>
      /\ \A o \in Node, x \in Node : <<o, x>> # <<n, n>> => hosts'[o][x] = hosts[o][x]
      /\ hosts'[n][n] = hosts[n][n] + 1
  BY DEF EditHost, TypeOK
<1>2. hosts[n][n] \in Int /\ clock[n] \in Int /\ 0 <= hosts[n][n]
  BY Numbers DEF History
<1>3. VersionBound' /\ Running' /\ Answers'
  BY <1>1 DEF VersionBound, Running, Answers, Up, Backs
<1>4. HasFile'
  BY <1>1, <1>2 DEF HasFile, NoFile
<1>5. History'
  <2> SUFFICES ASSUME NEW m \in Node
               PROVE  /\ Len(published[m]) = clock[m]
                      /\ \A v \in 1..clock[m] : 0 <= published[m][v] /\ published[m][v] <= hosts'[m][m]
                      /\ \A u, v \in 1..clock[m] : u <= v => published[m][u] <= published[m][v]
                      /\ 0 <= hosts'[m][m]
    BY <1>1 DEF History
  <2>1. /\ hosts'[m][m] \in Int /\ hosts[m][m] \in Int /\ hosts[m][m] <= hosts'[m][m]
    BY <1>1, <1>2, Numbers
  <2>2. \A v \in 1..clock[m] : published[m][v] \in Int
    BY Editions
  <2> QED
    BY <2>1, <2>2 DEF History
<1>6. Backed'
  <2>1. ASSUME NEW v \in {entities[n][n], saved[n][n]} PROVE Backs(hosts'[n][n], n, v)
    <3>1. v \in Int /\ v <= clock[n]
      BY Numbers DEF VersionBound
    <3>2. CASE v <= 0
      BY <3>2 DEF Backs
    <3>3. CASE v > 0
      <4>1. v \in 1..clock[n]
        BY <1>2, <3>1, <3>3
      <4>2. published[n][v] <= hosts'[n][n]
        BY <1>1, <1>5, <4>1 DEF History
      <4>3. published[n][v] \in Int
        BY <4>1, Editions
      <4> QED
        BY <1>1, <1>2, <4>2, <4>3 DEF Backs
    <3> QED
      BY <3>1, <3>2, <3>3
  <2> QED
    BY <1>1, <2>1 DEF Backed, Backs
<1> QED
  BY <1>3, <1>4, <1>5, <1>6

\* A tick: the history gets the edition of the day, no claim changes.
LEMMA InvTick ==
    ASSUME IInv, TypeOK', NEW n \in Node, Tick(n)
    PROVE  IInv'
<1> USE DEF IInv, fileVars, confVars, roundVars
<1>1. /\ UNCHANGED <<entities, saved, hosts, pc, headers, call>>
      /\ phase[n] = "down"
      /\ \A m \in Node : m # n =>
            clock'[m] = clock[m] /\ phase'[m] = phase[m] /\ published'[m] = published[m]
      /\ phase'[n] = "ticked"
      /\ published'[n] = Append(published[n], hosts[n][n])
  BY DEF Tick, TypeOK
<1>2. clock'[n] = clock[n] + 1 /\ clock[n] \in Nat
  BY Numbers DEF Tick, TypeOK, NextTick, VersionBound, Broken
<1>3. \A m \in Node : clock[m] \in Int /\ clock'[m] \in Int /\ clock[m] <= clock'[m] /\ 0 <= clock'[m]
  BY <1>1, <1>2, Numbers DEF VersionBound
<1>4. \A m \in Node, v \in Int : v <= clock[m] => v <= clock'[m]
  BY <1>3
<1>5. VersionBound'
  <2>1. \A o, m \in Node : entities[o][m] <= clock'[m] /\ saved[o][m] <= clock'[m]
    BY <1>4, Numbers DEF VersionBound
  <2>2. \A w \in Watches : \A m \in Node : headers[w][m] <= clock'[m]
    BY <1>4, Numbers DEF VersionBound
  <2>3. \A w \in Watches : call[w].version <= clock'[call[w].name]
    BY <1>4, Numbers DEF VersionBound
  <2> QED
    BY <1>1, <1>3, <2>1, <2>2, <2>3 DEF VersionBound
<1>6. published[n] \in Seq(File) /\ Len(published[n]) = clock[n] /\ hosts[n][n] \in File
  BY DEF History, TypeOK
<1>7. /\ Len(published'[n]) = clock'[n]
      /\ \A v \in 1..clock[n] : published'[n][v] = published[n][v]
      /\ published'[n][clock'[n]] = hosts[n][n]
  BY <1>1, <1>2, <1>6
<1>8. History'
  <2> SUFFICES ASSUME NEW m \in Node
               PROVE  /\ Len(published'[m]) = clock'[m]
                      /\ \A v \in 1..clock'[m] : 0 <= published'[m][v] /\ published'[m][v] <= hosts[m][m]
                      /\ \A u, v \in 1..clock'[m] : u <= v => published'[m][u] <= published'[m][v]
                      /\ 0 <= hosts[m][m]
    BY <1>1 DEF History
  <2>1. CASE m # n
    BY <1>1, <2>1 DEF History
  <2>2. CASE m = n
    <3>1. hosts[n][n] \in Int /\ 0 <= hosts[n][n] /\ hosts[n][n] <= hosts[n][n]
      BY Numbers DEF History
    <3>2. \A v \in 1..clock'[n] : v \in 1..clock[n] \/ v = clock'[n]
      BY <1>2
    <3>3. \A v \in 1..clock'[n] : 0 <= published'[n][v] /\ published'[n][v] <= hosts[n][n]
      BY <1>7, <3>1, <3>2 DEF History
    <3>4. \A u, v \in 1..clock'[n] : u <= v => published'[n][u] <= published'[n][v]
      <4> SUFFICES ASSUME NEW u \in 1..clock'[n], NEW v \in 1..clock'[n], u <= v
                   PROVE  published'[n][u] <= published'[n][v]
        OBVIOUS
      <4>1. CASE v = clock'[n]
        BY <1>7, <3>3, <4>1
      <4>2. CASE v \in 1..clock[n]
        <5>1. u \in 1..clock[n]
          BY <1>2, <4>2
        <5> QED
          BY <1>7, <4>2, <5>1 DEF History
      <4> QED
        BY <3>2, <4>1, <4>2
    <3> QED
      BY <1>7, <2>2, <3>1, <3>3, <3>4
  <2> QED
    BY <2>1, <2>2
<1>9. \A m \in Node, file \in Int, v \in Int :
         v <= clock[m] /\ Backs(file, m, v) => Backs(file, m, v)'
  <2> SUFFICES ASSUME NEW m \in Node, NEW file \in Int, NEW v \in Int,
                      v <= clock[m], Backs(file, m, v)
               PROVE  v <= 0 \/ file >= published'[m][v] \/ (file = Torn /\ v < clock'[m])
    BY DEF Backs
  <2>1. CASE v <= 0
    BY <2>1
  <2>2. CASE v > 0
    <3>1. v \in 1..clock[m]
      BY <1>3, <2>2
    <3>2. published'[m][v] = published[m][v]
      BY <1>1, <1>7, <3>1
    <3>3. v < clock[m] => v < clock'[m]
      BY <1>3
    <3> QED
      BY <2>2, <3>2, <3>3 DEF Backs
  <2> QED
    BY <2>1, <2>2
<1>10. HasFile'
  BY <1>1 DEF HasFile
<1>11. Backed'
  <2> SUFFICES ASSUME NEW o \in Node, NEW m \in Node
               PROVE  Backs(hosts[o][m], m, entities[o][m])' /\ Backs(hosts[o][m], m, saved[o][m])'
    BY DEF Backed
  <2>1. /\ hosts[o][m] \in Int /\ entities[o][m] \in Int /\ saved[o][m] \in Int
        /\ entities[o][m] <= clock[m] /\ saved[o][m] <= clock[m]
    BY Numbers DEF VersionBound
  <2>2. Backs(hosts[o][m], m, entities[o][m]) /\ Backs(hosts[o][m], m, saved[o][m])
    BY DEF Backed
  <2> QED
    BY <1>1, <1>9, <2>1, <2>2 DEF Backs
<1>12. Running'
  <2>1. saved[n][n] < clock'[n]
    BY <1>2, Numbers DEF VersionBound
  <2>2. \A w \in Watches : pc[w] # "idle" => Up(Me(w)) /\ Me(w) # n
    BY <1>1 DEF Running, Up
  <2> QED
    BY <1>1, <2>1, <2>2, Endpoints DEF Running, Up
<1>13. Answers'
  <2> SUFFICES ASSUME NEW w \in Watches
               PROVE  /\ pc[w] = "asked" => /\ phase'[Peer(w)] = "up"
                                            /\ call[w].version <= entities[Peer(w)][call[w].name]
                      /\ pc[w] = "fetched" => Backs(call[w].content, call[w].name, call[w].version)'
    BY <1>1 DEF Answers, Up
  <2>1. call[w].name \in Node /\ call[w].version \in Int /\ call[w].content \in Int
    BY Numbers
  <2>2. call[w].version <= clock[call[w].name]
    BY DEF VersionBound
  <2>3. pc[w] = "fetched" => Backs(call[w].content, call[w].name, call[w].version)'
    <3> HAVE pc[w] = "fetched"
    <3>1. Backs(call[w].content, call[w].name, call[w].version)
      BY DEF Answers
    <3> QED
      BY <1>1, <1>9, <2>1, <2>2, <3>1 DEF Backs
  <2>4. pc[w] = "asked" => phase'[Peer(w)] = "up"
    BY <1>1, Endpoints DEF Answers, Up
  <2> QED
    BY <2>3, <2>4 DEF Answers
<1> QED
  BY <1>5, <1>8, <1>10, <1>11, <1>12, <1>13

\* What start-up restores: the node's own tick, and of every other name the
\* saved entry, or version 0 where there is a file and no entry.
LEMMA RestoredFacts ==
    ASSUME TypeOK, NEW n \in Node
    PROVE  /\ Restored(n)[n] = clock[n]
           /\ \A m \in Node : m # n =>
                 \/ Restored(n)[m] = saved[n][m]
                 \/ Restored(n)[m] = 0 /\ saved[n][m] = -1 /\ hosts[n][m] # NoFile
<1> DEFINE Scanned == PutAllUnversioned(saved[n], FilesOf(n))
<1>1. saved[n] \in [Node -> Entry]
  BY DEF TypeOK
<1>2. Scanned = [m \in Node |-> IF m \in FilesOf(n) /\ IsNewer(saved[n], m, 0)
                                THEN 0 ELSE saved[n][m]]
  BY <1>1 DEF PutAllUnversioned
<1>3. Restored(n) = [Scanned EXCEPT ![n] = clock[n]]
  BY DEF Restored, ReadSSD, Put
<1>4. \A m \in Node : IsNewer(saved[n], m, 0) <=> saved[n][m] = -1
  <2> TAKE m \in Node
  <2>1. saved[n][m] \in Nat \/ saved[n][m] = -1
    BY <1>1 DEF Entry, Version, Absent
  <2> QED
    BY <2>1 DEF IsNewer, Absent
<1> HIDE DEF Scanned
<1> QED
  BY <1>2, <1>3, <1>4 DEF FilesOf

\* What start-up restores is backed: the saved entries were, while the node was
\* down, and the own version is the tick that was written for it.
LEMMA RestoredBacked ==
    ASSUME IInv, NEW n \in Node, phase[n] = "ticked"
    PROVE  \A m \in Node : /\ Restored(n)[m] \in Int /\ saved[n][m] \in Int
                           /\ saved[n][m] <= Restored(n)[m]
                           /\ Restored(n)[m] <= clock[m]
                           /\ Backs(hosts[n][m], m, Restored(n)[m])
                           /\ Restored(n)[m] # Absent => hosts[n][m] # NoFile
<1> USE DEF IInv
<1> TAKE m \in Node
<1>1. /\ saved[n][m] \in Int /\ clock[m] \in Int /\ clock[m] >= 0
      /\ saved[n][m] <= clock[m] /\ hosts[n][m] \in Int
  BY Numbers DEF VersionBound
<1>2. CASE m = n
  <2>1. Restored(n)[m] = clock[m] /\ saved[n][m] < clock[m]
    BY <1>2, RestoredFacts DEF Running
  <2>2. Backs(hosts[n][m], m, clock[m])
    BY <1>1, <1>2, OwnBacks
  <2>3. 0 <= hosts[n][m]
    BY <1>2 DEF History
  <2> QED
    BY <1>1, <2>1, <2>2, <2>3 DEF NoFile
<1>3. CASE m # n /\ Restored(n)[m] = saved[n][m]
  BY <1>1, <1>3 DEF Backed, HasFile
<1>4. CASE m # n /\ Restored(n)[m] = 0 /\ saved[n][m] = -1 /\ hosts[n][m] # NoFile
  BY <1>1, <1>4 DEF Backs
<1> QED
  BY <1>2, <1>3, <1>4, RestoredFacts

\* Start-up: the map and the ssd file get what is restored.
LEMMA InvStart ==
    ASSUME IInv, TypeOK', NEW n \in Node, Start(n)
    PROVE  IInv'
<1> USE DEF IInv, roundVars
<1>1. /\ UNCHANGED <<clock, hosts, published, pc, headers, call>>
      /\ phase[n] = "ticked"
      /\ phase' = [phase EXCEPT ![n] = "up"]
      /\ entities' = [entities EXCEPT ![n] = Restored(n)]
      /\ saved' = saved \/ saved' = [saved EXCEPT ![n] = Restored(n)]
  BY DEF Start
<1>2. /\ \A o \in Node : o # n => /\ entities'[o] = entities[o] /\ saved'[o] = saved[o]
                                  /\ phase'[o] = phase[o]
      /\ entities'[n] = Restored(n) /\ phase'[n] = "up"
      /\ saved'[n] \in {saved[n], Restored(n)}
  BY <1>1 DEF TypeOK
<1>3. \A m \in Node : /\ Restored(n)[m] \in Int /\ saved[n][m] \in Int
                      /\ saved[n][m] <= Restored(n)[m]
                      /\ Restored(n)[m] <= clock[m]
                      /\ Backs(hosts[n][m], m, Restored(n)[m])
                      /\ Restored(n)[m] # Absent => hosts[n][m] # NoFile
  BY <1>1, RestoredBacked
<1>4. VersionBound'
  BY <1>1, <1>2, <1>3 DEF VersionBound
<1>5. History'
  BY <1>1 DEF History
<1>6. Running'
  <2>1. \A m \in Node : saved'[n][m] <= Restored(n)[m]
    BY <1>2, <1>3
  <2>2. Restored(n)[n] = clock[n]
    BY RestoredFacts
  <2> QED
    BY <1>1, <1>2, <2>1, <2>2, Endpoints DEF Running, Up
<1>7. HasFile' /\ Backed'
  BY <1>1, <1>2, <1>3 DEF HasFile, Backed, Backs
<1>8. Answers'
  <2>1. \A w \in Watches : pc[w] = "asked" => Peer(w) # n
    BY <1>1 DEF Answers, Up
  <2> QED
    BY <1>1, <1>2, <2>1, Endpoints DEF Answers, Up, Backs
<1> QED
  BY <1>4, <1>5, <1>6, <1>7, <1>8

\* A start-up that fails behind Save: the ssd file has what is restored.
LEMMA InvFailStart ==
    ASSUME IInv, TypeOK', NEW n \in Node, FailStart(n)
    PROVE  IInv'
<1> USE DEF IInv, roundVars
<1>1. /\ UNCHANGED <<clock, entities, hosts, published, pc, headers, call>>
      /\ phase[n] = "ticked"
      /\ \A o \in Node : o # n => saved'[o] = saved[o] /\ phase'[o] = phase[o]
      /\ phase'[n] = "down" /\ saved'[n] = Restored(n)
  BY DEF FailStart, TypeOK
<1>2. \A m \in Node : /\ Restored(n)[m] <= clock[m]
                      /\ Backs(hosts[n][m], m, Restored(n)[m])
                      /\ Restored(n)[m] # Absent => hosts[n][m] # NoFile
  BY <1>1, RestoredBacked
<1>3. VersionBound' /\ History'
  BY <1>1, <1>2 DEF VersionBound, History
<1>4. \A o \in Node : Up(o)' <=> Up(o)
  BY <1>1 DEF Up
<1>5. Running'
  BY <1>1, <1>4, Endpoints DEF Running, Up
<1>6. HasFile' /\ Backed'
  BY <1>1, <1>2 DEF HasFile, Backed, Backs
<1>7. Answers'
  BY <1>1, <1>4, Endpoints DEF Answers, Backs
<1> QED
  BY <1>3, <1>5, <1>6, <1>7

\* A crash loses the map and the rounds; what is on disk stays backed.
LEMMA InvCrash ==
    ASSUME IInv, TypeOK', NEW n \in Node, Crash(n)
    PROVE  IInv'
<1> USE DEF IInv, fileVars, confVars
<1>1. /\ UNCHANGED <<clock, saved, hosts, published>>
      /\ \A o \in Node : o # n => entities'[o] = entities[o] /\ phase'[o] = phase[o]
      /\ entities'[n] = Empty(Node) /\ phase'[n] = "down"
      /\ \A m \in Node : Empty(Node)[m] = -1
      /\ \A w \in Watches :
            /\ pc'[w] = IF Me(w) = n THEN "idle"
                        ELSE IF Peer(w) = n /\ pc[w] = "asked" THEN "merging" ELSE pc[w]
            /\ headers'[w] \in {Empty(Node), headers[w]}
            /\ call'[w] = IF Me(w) = n \/ (Peer(w) = n /\ pc[w] = "asked") THEN NoCall ELSE call[w]
  BY Endpoints DEF Crash, TypeOK, Empty, Absent
<1>2. \A m \in Node : -1 <= clock[m] /\ 0 <= clock[m] /\ clock[m] \in Int
  BY Numbers DEF VersionBound
<1>3. NoCall.version = 0 /\ NoCall.name \in Node
  BY NoCallType DEF NoCall, Call
<1>4. VersionBound'
  <2>1. \A o, m \in Node : entities'[o][m] <= clock[m]
    BY <1>1, <1>2 DEF VersionBound
  <2>2. \A w \in Watches : \A m \in Node : headers'[w][m] <= clock[m]
    BY <1>1, <1>2 DEF VersionBound
  <2>3. \A w \in Watches : call'[w].version <= clock[call'[w].name]
    BY <1>1, <1>2, <1>3 DEF VersionBound
  <2> QED
    BY <1>1, <2>1, <2>2, <2>3 DEF VersionBound
<1>5. History'
  BY <1>1 DEF History
<1>6. HasFile'
  BY <1>1 DEF HasFile, Absent
<1>7. Backed'
  BY <1>1 DEF Backed, Backs
<1>8. Running'
  BY <1>1, Endpoints DEF Running, Up
<1>9. Answers'
  <2>1. \A w \in Watches : pc'[w] \in {"asked", "fetched"} => pc'[w] = pc[w] /\ call'[w] = call[w]
    BY <1>1
  <2>2. \A w \in Watches : pc'[w] = "asked" => Peer(w) # n
    BY <1>1
  <2> QED
    BY <1>1, <2>1, <2>2, Endpoints DEF Answers, Up, Backs
<1> QED
  BY <1>4, <1>5, <1>6, <1>7, <1>8, <1>9

\* Every step of the network keeps the invariant.
LEMMA InvNext == ASSUME TornClock = FALSE, IInv, [Next]_vars PROVE IInv'
<1>1. TypeOK'
  BY TypeNext DEF IInv
<1>2. ASSUME NEW n \in Node, Operator(n) \/ Process(n) PROVE IInv'
  <2>1. ~ TearClock(n)
    BY DEF TearClock
  <2> QED
    BY <1>1, <1>2, <2>1, InvEditHost, InvTick, InvStart, InvFailStart, InvCrash DEF Operator, Process
<1>3. ASSUME NEW w \in Watches, Progress(w) \/ FailFetch(w) \/ FailMerge(w) \/ FailSave(w)
      PROVE  IInv'
  <2>1. CASE \/ FetchHeaders(w) \/ \E m \in Node : Skip(w, m) \/ Ask(w, m)
             \/ FailFetch(w) \/ Discard(w) \/ EndRound(w) \/ FailSave(w)
    <3>1. UNCHANGED <<nodeVars, entities, fileVars, published>>
      BY <2>1 DEF FetchHeaders, Skip, Ask, FailFetch, Discard, EndRound, FailSave
    <3> QED
      BY <1>1, <2>1, <3>1, InvRound
  <2>2. CASE \/ ReadVersion(w) \/ ReadContent(w) \/ Merge(w) \/ RefuseMerge(w)
             \/ FailMerge(w) \/ SaveRound(w)
    BY <1>1, <2>2, InvReadVersion, InvReadContent, InvMerge, InvFailMerge, InvSave
  <2> QED
    BY <1>3, <2>1, <2>2 DEF Progress
<1>4. CASE UNCHANGED vars
  BY <1>1, <1>4
     DEF vars, nodeVars, fileVars, roundVars, IInv, VersionBound, History, Running, HasFile,
         Answers, Backed, Backs, Up
<1> QED
  BY <1>2, <1>3, <1>4 DEF Next

\* The inductive invariant holds throughout: gatherInfo, getOne, Save, start-up
\* and crashes never let a claim run ahead of its source or of the host files.
THEOREM Invariance == ASSUME TornClock = FALSE PROVE Spec => []IInv
<1>1. Init => IInv
  BY InvInit
<1>2. IInv /\ [Next]_vars => IInv'
  BY InvNext
<1> QED
  BY <1>1, <1>2, PTL DEF Spec

\* Whatever version of a name a node serves or has saved, the host file it
\* keeps of the name is at least the owner's edition at that version, or was
\* torn by a write of a later one: for gatherInfo, getOne, AddHost and Save
\* interleaved in any way, with crashes and failures at any point.
THEOREM BackedAlways == ASSUME TornClock = FALSE PROVE Spec => []Backed
<1>1. IInv => Backed
  BY DEF IInv
<1> QED
  BY <1>1, Invariance, PTL

-----------------------------------------------------------------------------
(* What a step may never do.                                               *)

\* How far each step moves the ssd file, the own host file and the own version.
LEMMA Steps ==
    ASSUME TornClock = FALSE, IInv, [Next]_vars
    PROVE  /\ \A n \in Node : hosts'[n][n] >= hosts[n][n]
           /\ \A n, m \in Node : saved'[n][m] >= saved[n][m]
           /\ \A n \in Node : ~ Up(n) /\ Up(n)' => entities'[n][n] > saved[n][n]
<1> DEFINE Goal == /\ \A n \in Node : hosts'[n][n] >= hosts[n][n]
                   /\ \A n, m \in Node : saved'[n][m] >= saved[n][m]
                   /\ \A n \in Node : ~ Up(n) /\ Up(n)' => entities'[n][n] > saved[n][n]
<1> USE DEF IInv, nodeVars, fileVars, confVars, roundVars
<1>1. TypeOK /\ TypeOK'
  BY TypeNext
<1>2. \A n, m \in Node : saved[n][m] >= saved[n][m] /\ hosts[n][m] >= hosts[n][m]
  BY Numbers
<1>3. ASSUME UNCHANGED <<hosts, saved, phase>> PROVE Goal
  BY <1>2, <1>3 DEF Up
<1>4. ASSUME NEW n \in Node, Operator(n) PROVE Goal
  <2>1. /\ saved' = saved /\ phase' = phase
        /\ hosts' = [hosts EXCEPT ![n] = [hosts[n] EXCEPT ![n] = hosts[n][n] + 1]]
    BY <1>4 DEF Operator, EditHost
  <2>2. hosts[n][n] + 1 >= hosts[n][n]
    BY Numbers
  <2>3. \A m \in Node : hosts'[m][m] = IF m = n THEN hosts[n][n] + 1 ELSE hosts[m][m]
    BY <2>1 DEF TypeOK
  <2> QED
    BY <1>2, <2>1, <2>2, <2>3 DEF Up
<1>5. ASSUME NEW n \in Node, Process(n) PROVE Goal
  <2>1. CASE Tick(n) \/ Crash(n)
    <3>1. hosts' = hosts /\ saved' = saved /\ \A m \in Node : Up(m)' => Up(m)
      BY <2>1 DEF Tick, Crash, TypeOK, Up
    <3> QED
      BY <1>2, <3>1
  <2>2. CASE Start(n)
    <3>1. /\ hosts' = hosts /\ phase' = [phase EXCEPT ![n] = "up"] /\ phase[n] = "ticked"
          /\ entities' = [entities EXCEPT ![n] = Restored(n)]
          /\ saved' = saved \/ saved' = [saved EXCEPT ![n] = Restored(n)]
      BY <2>2 DEF Start
    <3>2. \A m \in Node : /\ saved[n][m] \in Int /\ Restored(n)[m] \in Int
                          /\ Restored(n)[m] >= saved[n][m]
          /\ Restored(n)[n] > saved[n][n]
      BY <3>1, RestoredFacts, Numbers DEF Running
    <3>3. \A o, m \in Node : saved'[o][m] >= saved[o][m]
      BY <1>2, <3>1, <3>2 DEF TypeOK
    <3>4. \A o \in Node : ~ Up(o) /\ Up(o)' => o = n
      BY <3>1 DEF Up, TypeOK
    <3>5. entities'[n][n] = Restored(n)[n]
      BY <3>1 DEF TypeOK
    <3> QED
      BY <1>2, <3>1, <3>2, <3>3, <3>4, <3>5
  <2>3. CASE FailStart(n)
    <3>1. /\ hosts' = hosts /\ phase[n] = "ticked"
          /\ saved' = [saved EXCEPT ![n] = Restored(n)]
          /\ \A m \in Node : Up(m)' => Up(m)
      BY <2>3 DEF FailStart, TypeOK, Up
    <3>2. \A m \in Node : Restored(n)[m] >= saved[n][m]
      BY <3>1, RestoredBacked
    <3> QED
      BY <1>2, <3>1, <3>2 DEF TypeOK
  <2> QED
    BY <1>5, <2>1, <2>2, <2>3 DEF Process, TearClock
<1>6. ASSUME NEW w \in Watches, Merge(w) \/ RefuseMerge(w) \/ FailMerge(w) PROVE Goal
  <2> DEFINE n == Me(w)
             m == call[w].name
  <2>1. n \in Node /\ m \in Node
    BY Endpoints, Numbers
  <2>2. /\ pc[w] = "fetched" /\ IsNewer(entities[n], m, call[w].version)
        /\ saved' = saved /\ phase' = phase
        /\ \A o \in Node : o # m => hosts'[n][o] = hosts[n][o]
        /\ \A o \in Node : o # n => hosts'[o] = hosts[o]
    BY <1>6, <2>1 DEF Merge, RefuseMerge, FailMerge, Replaces, AddHost, WriteHost, TypeOK
  <2>3. n # m
    <3>1. entities[n][n] = clock[n] /\ clock[n] >= 0 /\ clock[n] \in Int
      BY <2>1, <2>2, Numbers DEF Running, VersionBound
    <3>2. call[w].version <= clock[m] /\ call[w].version \in Int
      BY Numbers DEF VersionBound
    <3> QED
      BY <2>1, <2>2, <3>1, <3>2 DEF IsNewer, Absent
  <2>4. \A o \in Node : hosts'[o][o] = hosts[o][o]
    BY <2>2, <2>3
  <2> QED
    BY <1>2, <2>2, <2>4 DEF Up
<1>7. ASSUME NEW w \in Watches, SaveRound(w) PROVE Goal
  <2> DEFINE n == Me(w)
  <2>1. n \in Node /\ Up(n)
    BY <1>7, Endpoints DEF SaveRound, RoundDone, Running
  <2>2. hosts' = hosts /\ phase' = phase /\ saved' = [saved EXCEPT ![n] = entities[n]]
    BY <1>7 DEF SaveRound
  <2>3. \A m \in Node : entities[n][m] >= saved[n][m]
    BY <2>1, Numbers DEF Running
  <2>4. \A o, m \in Node : saved'[o][m] >= saved[o][m]
    BY <1>2, <2>1, <2>2, <2>3 DEF TypeOK
  <2> QED
    BY <1>2, <2>2, <2>4 DEF Up
<1>8. ASSUME NEW w \in Watches,
             \/ FetchHeaders(w) \/ \E m \in Node : Skip(w, m) \/ Ask(w, m)
             \/ ReadVersion(w) \/ ReadContent(w) \/ Discard(w) \/ EndRound(w)
             \/ FailFetch(w) \/ FailSave(w)
      PROVE  Goal
  BY <1>3, <1>8
     DEF FetchHeaders, Skip, Ask, ReadVersion, ReadContent, Discard, EndRound, FailFetch, FailSave
<1>9. CASE UNCHANGED vars
  BY <1>3, <1>9 DEF vars
<1> QED
  BY <1>4, <1>5, <1>6, <1>7, <1>8, <1>9 DEF Next, Progress

\* No step of discovery replaces a node's own host file by what a peer has kept
\* of it: nobody can offer a version of the name that the node has not issued.
THEOREM OwnFileAlwaysKept == ASSUME TornClock = FALSE PROVE Spec => OwnFileKept
<1>1. IInv /\ [Next]_vars => [\A n \in Node : hosts'[n][n] >= hosts[n][n]]_vars
  BY Steps
<1> QED
  BY <1>1, Invariance, PTL DEF Spec, OwnFileKept

\* The ssd file never goes back to an older version of a name, whichever
\* requester saves last, and across restarts.
THEOREM SavedAlwaysGrows == ASSUME TornClock = FALSE PROVE Spec => SavedGrows
<1>1. IInv /\ [Next]_vars => [\A n, m \in Node : saved'[n][m] >= saved[n][m]]_vars
  BY Steps
<1> QED
  BY <1>1, Invariance, PTL DEF Spec, SavedGrows

\* A node that starts claims a version newer than any it has claimed before.
THEOREM VersionAlwaysGrows == ASSUME TornClock = FALSE PROVE Spec => VersionGrows
<1>1. IInv /\ [Next]_vars =>
        [\A n \in Node : ~ Up(n) /\ Up(n)' => entities'[n][n] > saved[n][n]]_vars
  BY Steps
<1> QED
  BY <1>1, Invariance, PTL DEF Spec, VersionGrows

-----------------------------------------------------------------------------
(* Durable holds with torn clocks too: it relates the map to the ssd file. *)

\* A merge marks its round as changed, and only a save or a crash ends the mark.
LEMMA DurableNext == ASSUME TypeOK, Durable, [Next]_vars PROVE Durable'
<1> USE DEF nodeVars, fileVars, confVars, roundVars
<1>1. TypeOK'
  BY TypeNext
<1> SUFFICES ASSUME NEW n \in Node, Up(n)', failures' = 0
             PROVE  \/ saved'[n] = entities'[n]
                    \/ \E w \in Watches : Me(w) = n /\ changed'[w]
  BY DEF Durable
<1>2. ASSUME UNCHANGED <<phase, saved, entities, changed, failures>>
      PROVE  saved'[n] = entities'[n] \/ \E w \in Watches : Me(w) = n /\ changed'[w]
  BY <1>2 DEF Durable, Up
<1>3. ASSUME NEW o \in Node, Tick(o) \/ TearClock(o) \/ Crash(o)
      PROVE  saved'[n] = entities'[n] \/ \E w \in Watches : Me(w) = n /\ changed'[w]
  <2>1. /\ failures' = failures /\ saved' = saved /\ Up(n)
        /\ entities'[n] = entities[n]
        /\ \A w \in Watches : Me(w) = n => changed'[w] = changed[w]
    <3>1. CASE Tick(o) \/ TearClock(o)
      BY <3>1 DEF Tick, TearClock, TypeOK, Up
    <3>2. CASE Crash(o)
      <4>1. n # o
        BY <3>2 DEF Crash, TypeOK, Up
      <4> QED
        BY <3>2, <4>1 DEF Crash, TypeOK, Up
    <3> QED
      BY <1>3, <3>1, <3>2
  <2> QED
    BY <2>1 DEF Durable
<1>4. ASSUME NEW o \in Node, Start(o)
      PROVE  saved'[n] = entities'[n] \/ \E w \in Watches : Me(w) = n /\ changed'[w]
  <2>1. ~ Fail /\ failures = 0
    <3>1. ~ Fail
      BY FailCount
    <3> QED
      BY <1>4, <3>1 DEF Start, IndexHosts
  <2>2. /\ saved' = [saved EXCEPT ![o] = Restored(o)]
        /\ entities' = [entities EXCEPT ![o] = Restored(o)]
        /\ changed' = changed
        /\ phase' = [phase EXCEPT ![o] = "up"]
    BY <1>4, <2>1 DEF Start
  <2>3. CASE n = o
    BY <2>2, <2>3 DEF TypeOK
  <2>4. CASE n # o
    BY <2>1, <2>2, <2>4 DEF TypeOK, Durable, Up
  <2> QED
    BY <2>3, <2>4
<1>5. ASSUME NEW w \in Watches, Merge(w)
      PROVE  saved'[n] = entities'[n] \/ \E x \in Watches : Me(x) = n /\ changed'[x]
  <2>1. /\ failures' = failures /\ saved' = saved /\ phase' = phase
        /\ entities' = [entities EXCEPT ![Me(w)] = Put(@, call[w].name, call[w].version)]
        /\ changed' = [changed EXCEPT ![w] = TRUE]
    <3>1. failures' = failures
      BY <1>5, FailCount DEF Merge, AddHost
    <3> QED
      BY <1>5, <3>1 DEF Merge
  <2>2. CASE n = Me(w)
    BY <2>1, <2>2 DEF TypeOK
  <2>3. CASE n # Me(w)
    BY <2>1, <2>3 DEF TypeOK, Durable, Up
  <2> QED
    BY <2>2, <2>3
<1>6. ASSUME NEW w \in Watches, SaveRound(w)
      PROVE  saved'[n] = entities'[n] \/ \E x \in Watches : Me(x) = n /\ changed'[x]
  <2>1. /\ failures' = failures /\ phase' = phase /\ entities' = entities
        /\ saved' = [saved EXCEPT ![Me(w)] = entities[Me(w)]]
        /\ changed' = [changed EXCEPT ![w] = FALSE]
    BY <1>6 DEF SaveRound
  <2>2. CASE n = Me(w)
    BY <2>1, <2>2 DEF TypeOK
  <2>3. CASE n # Me(w)
    BY <2>1, <2>3 DEF TypeOK, Durable, Up
  <2> QED
    BY <2>2, <2>3
<1>7. ASSUME NEW w \in Watches, FailMerge(w) \/ FailSave(w)
      PROVE  FALSE
  BY <1>7, FailCount DEF FailMerge, FailSave
<1>12. ASSUME NEW o \in Node, FailStart(o)
       PROVE  FALSE
  BY <1>12, FailCount DEF FailStart
<1>8. ASSUME NEW w \in Watches,
             \/ FetchHeaders(w) \/ \E m \in Node : Skip(w, m) \/ Ask(w, m)
             \/ ReadVersion(w) \/ ReadContent(w) \/ RefuseMerge(w) \/ Discard(w) \/ EndRound(w)
      PROVE  UNCHANGED <<phase, saved, entities, changed, failures>>
  BY <1>8 DEF FetchHeaders, Skip, Ask, ReadVersion, ReadContent, RefuseMerge, Discard, EndRound
<1>9. ASSUME NEW w \in Watches, FailFetch(w)
      PROVE  UNCHANGED <<phase, saved, entities, changed, failures>>
  BY <1>9, FailCount DEF FailFetch
<1>10. ASSUME NEW o \in Node, EditHost(o)
       PROVE  UNCHANGED <<phase, saved, entities, changed, failures>>
  BY <1>10 DEF EditHost
<1>11. CASE UNCHANGED vars
  BY <1>2, <1>11 DEF vars
<1> QED
  BY <1>2, <1>3, <1>4, <1>5, <1>6, <1>7, <1>8, <1>9, <1>10, <1>11, <1>12
     DEF Next, Operator, Process, Progress

\* A merge is never lost between gatherInfo and the ssd file: as long as no
\* write has failed, the file of a running node has all of the map, or the
\* round that merged last is on its way to Save.
THEOREM DurableAlways == Spec => []Durable
<1>1. Init => Durable
  BY DEF Init, Durable, Up
<1>2. TypeOK /\ Durable /\ [Next]_vars => Durable'
  BY DurableNext
<1> QED
  BY <1>1, <1>2, TypeCorrect, PTL DEF Spec

-----------------------------------------------------------------------------
(* Connected holds with torn clocks too: it rests on the host directory.    *)

\* A node's own host file is there, be it torn, and so is that of every entry.
Listed == TypeOK /\ HasFile /\ Connected /\ \A n \in Node : hosts[n][n] # NoFile

\* No step takes a host file away, or brings an entry or a name into the map
\* of a running node without its file and its place in ConnectTo.
LEMMA ListedNext == ASSUME Listed, [Next]_vars PROVE Listed'
<1> USE DEF Listed, nodeVars, fileVars, confVars, roundVars
<1>1. TypeOK'
  BY TypeNext
<1>2. \A n, m \in Node : hosts[n][m] \in Int /\ hosts'[n][m] \in Int
  BY <1>1 DEF TypeOK, File, Edition, Torn, NoFile
<1>3. ASSUME UNCHANGED <<phase, entities, saved, hosts, connectTo, lost>> PROVE Listed'
  BY <1>1, <1>3 DEF HasFile, Connected, Up
<1>4. ASSUME NEW o \in Node, EditHost(o) PROVE Listed'
  <2>1. /\ UNCHANGED <<phase, entities, saved, connectTo, lost>>
        /\ hosts' = [hosts EXCEPT ![o][o] = @ + 1]
    BY <1>4 DEF EditHost
  <2>2. hosts[o][o] + 1 # NoFile
    <3>1. hosts[o][o] \in File
      BY DEF TypeOK
    <3>2. \A f \in File : f + 1 # NoFile
      BY DEF File, Edition, Torn, NoFile
    <3> QED
      BY <3>1, <3>2
  <2>3. \A n, m \in Node : hosts[n][m] # NoFile => hosts'[n][m] # NoFile
    BY <2>1, <2>2 DEF TypeOK
  <2> QED
    BY <1>1, <2>1, <2>3 DEF HasFile, Connected, Up
<1>5. ASSUME NEW o \in Node, Tick(o) \/ TearClock(o) \/ Crash(o) PROVE Listed'
  <2>1. /\ UNCHANGED <<saved, hosts, connectTo, lost>>
        /\ \A n \in Node : entities'[n] = entities[n] \/ entities'[n] = Empty(Node)
        /\ \A n \in Node : Up(n)' => Up(n) /\ entities'[n] = entities[n]
    BY <1>5 DEF Tick, TearClock, Crash, TypeOK, Up
  <2>2. \A n, m \in Node : entities'[n][m] # Absent => entities[n][m] # Absent
    BY <2>1 DEF Empty, Absent
  <2> QED
    BY <1>1, <2>1, <2>2 DEF HasFile, Connected
<1>6. ASSUME NEW o \in Node, Start(o) PROVE Listed'
  <2>1. /\ UNCHANGED hosts
        /\ phase' = [phase EXCEPT ![o] = "up"]
        /\ entities' = [entities EXCEPT ![o] = Restored(o)]
        /\ saved' = saved \/ saved' = [saved EXCEPT ![o] = Restored(o)]
    BY <1>6 DEF Start
  <2>2. /\ \A n \in Node \ {o} : /\ entities'[n] = entities[n] /\ saved'[n] = saved[n]
                                 /\ connectTo'[n] = connectTo[n] /\ lost'[n] = lost[n]
                                 /\ phase'[n] = phase[n]
        /\ entities'[o] = Restored(o) /\ FilesOf(o) \subseteq connectTo'[o] \cup lost'[o]
        /\ saved'[o] \in {saved[o], Restored(o)}
    BY <1>6, <2>1, StartList DEF TypeOK
  <2>3. \A m \in Node : Restored(o)[m] # Absent => hosts[o][m] # NoFile
    BY RestoredFacts DEF HasFile
  <2>4. Header(Restored(o)) \subseteq FilesOf(o)
    BY <2>3, RestoredType DEF Header, FilesOf
  <2>5. HasFile'
    BY <2>1, <2>2, <2>3 DEF HasFile
  <2>6. Connected'
    BY <2>2, <2>4 DEF Connected, Up
  <2> QED
    BY <1>1, <2>1, <2>5, <2>6
<1>12. ASSUME NEW o \in Node, FailStart(o) PROVE Listed'
  <2>1. /\ UNCHANGED <<hosts, entities>>
        /\ phase' = [phase EXCEPT ![o] = "down"]
        /\ saved' = [saved EXCEPT ![o] = Restored(o)]
    BY <1>12 DEF FailStart
  <2>2. \A n \in Node \ {o} : /\ connectTo'[n] = connectTo[n] /\ lost'[n] = lost[n]
                              /\ phase'[n] = phase[n] /\ saved'[n] = saved[n]
    BY <1>12, <2>1, StartList DEF TypeOK
  <2>3. \A m \in Node : Restored(o)[m] # Absent => hosts[o][m] # NoFile
    BY RestoredFacts DEF HasFile
  <2>4. HasFile'
    BY <2>1, <2>2, <2>3 DEF HasFile, TypeOK
  <2>5. Connected'
    BY <2>1, <2>2 DEF Connected, Up, TypeOK
  <2> QED
    BY <1>1, <2>1, <2>4, <2>5
<1>7. ASSUME NEW w \in Watches, Merge(w) PROVE Listed'
  <2> DEFINE n == Me(w)
             m == call[w].name
  <2>1. /\ UNCHANGED <<phase, saved>>
        /\ hosts' = [hosts EXCEPT ![n][m] = call[w].content]
        /\ entities' = [entities EXCEPT ![n] = Put(@, m, call[w].version)]
        /\ AddHost(n, m, call[w].content)
    BY <1>7 DEF Merge, AddHost, WriteHost
  <2>2. n \in Node /\ m \in Node /\ call[w].content # NoFile
    BY Endpoints, Numbers
  <2>3. \A o, x \in Node : <<o, x>> # <<n, m>> => /\ entities'[o][x] = entities[o][x]
                                                  /\ hosts'[o][x] = hosts[o][x]
    BY <2>1, <2>2 DEF TypeOK, Put
  <2>4. hosts'[n][m] # NoFile
    BY <2>1, <2>2 DEF TypeOK
  <2>5. HasFile' /\ \A o \in Node : hosts'[o][o] # NoFile
    BY <2>1, <2>3, <2>4 DEF HasFile
  <2>6. /\ m \in connectTo'[n] \cup lost'[n]
        /\ \A o \in Node : connectTo[o] \cup lost[o] \subseteq connectTo'[o] \cup lost'[o]
    BY <2>1, <2>2, AddHostList
  <2>7. \A o \in Node : DOMAIN entities'[o] = Node /\ DOMAIN entities[o] = Node
    BY <1>1 DEF TypeOK
  <2>8. ASSUME NEW o \in Node, Up(o), NEW x \in Header(entities'[o])
        PROVE  x \in connectTo'[o] \cup lost'[o]
    <3>1. CASE o = n /\ x = m
      BY <2>6, <3>1
    <3>2. CASE <<o, x>> # <<n, m>>
      BY <2>3, <2>6, <2>7, <2>8, <3>2 DEF Connected, Header
    <3> QED
      BY <3>1, <3>2
  <2> HIDE DEF n, m
  <2> QED
    BY <1>1, <2>1, <2>5, <2>8 DEF Connected, Up
<1>8. ASSUME NEW w \in Watches, FailMerge(w) \/ RefuseMerge(w) PROVE Listed'
  <2>1. /\ UNCHANGED <<phase, saved, entities>>
        /\ \E file \in {hosts[Me(w)][call[w].name], Torn, call[w].content} :
              hosts' = [hosts EXCEPT ![Me(w)][call[w].name] = file]
        /\ \A n \in Node : connectTo[n] \cup lost[n] \subseteq connectTo'[n] \cup lost'[n]
    <3>1. \A n \in Node : connectTo[n] \cup lost[n] \subseteq connectTo'[n] \cup lost'[n]
      BY <1>8, FailMergeList DEF RefuseMerge
    <3> QED
      BY <1>8, <3>1 DEF FailMerge, RefuseMerge, WriteHost
  <2>2. call[w].content # NoFile /\ Torn # NoFile
    BY Numbers DEF Torn, NoFile
  <2>3. \A n, m \in Node : hosts[n][m] # NoFile => hosts'[n][m] # NoFile
    BY <2>1, <2>2 DEF TypeOK
  <2> QED
    BY <1>1, <2>1, <2>3 DEF HasFile, Connected, Up
<1>9. ASSUME NEW w \in Watches, SaveRound(w) PROVE Listed'
  <2>1. /\ UNCHANGED <<phase, entities, hosts, connectTo, lost>>
        /\ saved' = [saved EXCEPT ![Me(w)] = entities[Me(w)]]
    BY <1>9 DEF SaveRound
  <2>2. \A n \in Node : saved'[n] \in {saved[n], entities[n]}
    BY <2>1 DEF TypeOK
  <2> QED
    BY <1>1, <2>1, <2>2 DEF HasFile, Connected, Up
<1>10. ASSUME NEW w \in Watches,
              \/ FetchHeaders(w) \/ \E m \in Node : Skip(w, m) \/ Ask(w, m)
              \/ ReadVersion(w) \/ ReadContent(w) \/ Discard(w) \/ EndRound(w)
              \/ FailFetch(w) \/ FailSave(w)
       PROVE  UNCHANGED <<phase, entities, saved, hosts, connectTo, lost>>
  BY <1>10 DEF FetchHeaders, Skip, Ask, ReadVersion, ReadContent, Discard, EndRound,
               FailFetch, FailSave
<1>11. CASE UNCHANGED vars
  BY <1>3, <1>11 DEF vars
<1> QED
  BY <1>3, <1>4, <1>5, <1>6, <1>7, <1>8, <1>9, <1>10, <1>11, <1>12
     DEF Next, Operator, Process, Progress

\* Every name a running node serves is one its tincd is told to connect to, but for
\* the names that a torn write of tinc.conf took since the node started: AddHost and
\* IndexHosts keep up with the map through crashes, torn files and torn clocks.
THEOREM ConnectedAlways == Spec => []Connected
<1>1. Init => Listed
  BY TypeInit DEF Init, Listed, HasFile, Connected, Empty, Absent, NoFile, Up
<1>2. Listed /\ [Next]_vars => Listed'
  BY ListedNext
<1>3. Listed => Connected
  BY DEF Listed
<1> QED
  BY <1>1, <1>2, <1>3, PTL DEF Spec

-----------------------------------------------------------------------------
(* The refinement.                                                         *)

\* What a step of the network is in SingleSource.
LEMMA StepRefines ==
    ASSUME TornClock = FALSE, IInv, [Next]_vars
    PROVE  [Promise!Next]_(Promise!vars)
<1> USE DEF IInv, nodeVars, fileVars, confVars, roundVars
<1>1. TypeOK /\ TypeOK'
  BY TypeNext
<1>2. ASSUME UNCHANGED <<clock, entities>> PROVE [Promise!Next]_(Promise!vars)
  BY <1>2 DEF Promise!vars
<1>3. ASSUME NEW n \in Node, Tick(n) PROVE Promise!Issue(n)
  <2>1. entities[n] = Empty(Node)
    BY <1>3 DEF Tick, Running, Up
  <2>2. clock' = [clock EXCEPT ![n] = clock[n] + 1]
    <3>1. NextTick(clock[n]) = clock[n] + 1
      BY Numbers DEF NextTick, Broken, VersionBound
    <3> QED
      BY <1>3, <3>1 DEF Tick
  <2>3. entities' = entities
    BY <1>3 DEF Tick
  <2> QED
    BY <2>1, <2>2, <2>3 DEF Promise!Issue, Promise!Empty, Empty, Promise!Absent, Absent
<1>4. ASSUME NEW n \in Node, Start(n) PROVE Promise!Announce(n)
  <2>1. /\ entities[n] = Empty(Node) /\ clock' = clock
        /\ entities' = [entities EXCEPT ![n] = Restored(n)]
    BY <1>4 DEF Start, Running, Up
  <2>2. entities'[n] = Restored(n) /\ Restored(n) \in [Node -> Entry]
    BY <2>1, RestoredType DEF TypeOK
  <2>3. Restored(n)[n] = clock[n] /\ \A m \in Node : Restored(n)[m] <= clock[m]
    <3>1. \A m \in Node : saved[n][m] <= clock[m] /\ 0 <= clock[m] /\ clock[m] <= clock[m]
      BY Numbers DEF VersionBound
    <3> QED
      BY <3>1, RestoredFacts
  <2> QED
    BY <2>1, <2>2, <2>3
       DEF Promise!Announce, Promise!Empty, Empty, Promise!Absent, Absent, Promise!Entry, Entry,
           Promise!Version, Version
<1>5. ASSUME NEW n \in Node, Crash(n) PROVE Promise!Lose(n)
  BY <1>5 DEF Crash, Promise!Lose, Promise!Empty, Empty, Promise!Absent, Absent
<1>6. ASSUME NEW w \in Watches, Merge(w) PROVE Promise!Learn(Me(w), call[w].name)
  <2> DEFINE n == Me(w)
             m == call[w].name
             v == call[w].version
  <2>1. n \in Node /\ m \in Node /\ v \in Nat
    BY Endpoints, Numbers
  <2>2. /\ pc[w] = "fetched" /\ IsNewer(entities[n], m, v) /\ clock' = clock
        /\ entities' = [entities EXCEPT ![n] = Put(entities[n], m, v)]
    BY <1>6 DEF Merge, Replaces
  <2>3. v <= clock[m] /\ v \in 0..clock[m]
    BY <2>1, Numbers DEF VersionBound
  <2>4. n # m
    <3>1. entities[n][n] = clock[n] /\ clock[n] >= 0 /\ clock[n] \in Int
      BY <2>1, <2>2, Numbers DEF Running, VersionBound
    <3> QED
      BY <2>1, <2>2, <2>3, <3>1 DEF IsNewer, Absent
  <2> QED
    BY <2>1, <2>2, <2>3, <2>4
       DEF Promise!Learn, Promise!IsNewer, IsNewer, Promise!Put, Put, Promise!Absent, Absent
<1>7. ASSUME NEW w \in Watches,
             \/ FetchHeaders(w) \/ \E m \in Node : Skip(w, m) \/ Ask(w, m)
             \/ ReadVersion(w) \/ ReadContent(w) \/ Discard(w) \/ EndRound(w) \/ SaveRound(w)
             \/ FailFetch(w) \/ RefuseMerge(w) \/ FailMerge(w) \/ FailSave(w)
      PROVE  UNCHANGED <<clock, entities>>
  BY <1>7 DEF FetchHeaders, Skip, Ask, ReadVersion, ReadContent, Discard, EndRound, SaveRound,
              FailFetch, RefuseMerge, FailMerge, FailSave
<1>8. ASSUME NEW n \in Node, EditHost(n) \/ FailStart(n) PROVE UNCHANGED <<clock, entities>>
  BY <1>8 DEF EditHost, FailStart
<1>9. CASE UNCHANGED vars
  BY <1>2, <1>9 DEF vars
<1>10. ASSUME NEW n \in Node, Operator(n) \/ Process(n) PROVE [Promise!Next]_(Promise!vars)
  BY <1>2, <1>3, <1>4, <1>5, <1>8, <1>10 DEF Operator, Process, TearClock, Promise!Next
<1>11. ASSUME NEW w \in Watches, Progress(w) \/ FailFetch(w) \/ FailMerge(w) \/ FailSave(w)
       PROVE  [Promise!Next]_(Promise!vars)
  <2>1. Me(w) \in Node /\ call[w].name \in Node
    BY Endpoints, Numbers
  <2> QED
    BY <1>2, <1>6, <1>7, <1>11, <2>1 DEF Progress, Promise!Next
<1> QED
  BY <1>9, <1>10, <1>11 DEF Next

\* Discovery implements SingleSource: every version has one source, no map is
\* ahead of a source, and a running node's map only grows and always has the
\* node's own latest version.
THEOREM Refinement == ASSUME TornClock = FALSE PROVE Spec => ImplementsSingleSource
<1>1. Init => Promise!Init
  BY DEF Init, Promise!Init, Promise!Empty, Empty, Promise!Absent, Absent
<1>2. IInv /\ [Next]_vars => [Promise!Next]_(Promise!vars)
  BY StepRefines
<1> QED
  BY <1>1, <1>2, Invariance, PTL DEF Spec, ImplementsSingleSource, Promise!Spec
=============================================================================
