------------------------------ MODULE Monitor ------------------------------
(***************************************************************************)
(* The monitor service of one node (domain/monitor): the list of nodes     *)
(* that tinc's subnet scripts add and remove, the goroutine that fetches   *)
(* each node's host file, the loop that brings public nodes into tinc.conf,*)
(* and the shutdown that waits for them all; the command bootnode writes   *)
(* into the same host directory.                                           *)
(*                                                                         *)
(* A host file is public when it has an Address.  Handlers of HTTP         *)
(* requests run beside all this and are not waited for.                    *)
(***************************************************************************)
EXTENDS Naturals, FiniteSets

CONSTANTS
    Name,         \* the other nodes
    Public,       \* those with an Address in their host file
    MaxWatches,   \* bound: nodes that are added to the list
    MaxFailures   \* bound: requests, file writes and reindexings that fail

ASSUME NameAssumption == Name # {} /\ Public \subseteq Name
ASSUME BoundAssumption == MaxWatches \in Nat /\ MaxFailures \in Nat

Node == 1..MaxWatches

VARIABLES
    made,       \* how many Node objects TryAdd has made
    name,       \* name[o]
    nodes,      \* NodeArray: the listed objects
    leaving,    \* removed from the list, Stop not called yet
    stopped,    \* Stop has been called
    fetcher,    \* fetcher[o]: the goroutine in requestNode
    fetched,    \* objects with Fetched set
    disk,       \* disk[m]: the host file of m
    pushing,    \* names whose file a handler or bootnode is writing
    pushed,     \* history: names whose file a handler or bootnode ever wrote
    reindex,    \* how many events are in reindexEvent, a channel of one
    indexer,    \* the goroutine in reindexLoop
    todo,       \* host files that indexConnectTo has listed and not read
    found,      \* publicNodes
    connectTo,  \* the ConnectTo names in tinc.conf
    cancelled,  \* globalContext
    server,     \* the goroutines that close the listener and serve
    pool,       \* the wait group
    released,   \* it has been at zero, and who waits for it goes on
    finished,   \* WaitForFinish has returned and the process is gone
    failures    \* how many failures have been spent

listVars == <<made, name, nodes, leaving, stopped>>
fetchVars == <<fetcher, fetched>>
fileVars == <<disk, pushing, pushed>>
indexVars == <<reindex, indexer, todo, found, connectTo>>
lifeVars == <<cancelled, server, finished>>
poolVars == <<pool, released>>
vars == <<listVars, fetchVars, fileVars, indexVars, lifeVars, poolVars, failures>>

File == {"none", "torn", "private", "public"}

TypeOK ==
    /\ made \in 0..MaxWatches
    /\ name \in [Node -> Name]
    /\ nodes \subseteq 1..made /\ leaving \subseteq 1..made /\ stopped \subseteq 1..made
    /\ fetcher \in [Node -> {"none", "trying", "writing", "written", "waiting", "ended"}]
    /\ fetched \subseteq 1..made
    /\ disk \in [Name -> File]
    /\ pushing \subseteq pushed /\ pushed \subseteq Name
    /\ indexer \in {"idle", "listing", "scanning", "ended"}
    /\ todo \subseteq Name /\ found \subseteq Name /\ connectTo \subseteq Name
    /\ server \in {"serving", "closed", "ended"}
    /\ reindex \in {0, 1}
    /\ cancelled \in BOOLEAN /\ finished \in BOOLEAN /\ released \in BOOLEAN
    /\ pool \in Nat    \* a wait group below zero panics
    /\ failures \in 0..MaxFailures

\* CreateAndRun, with the listener open and the first askForIndex made.
Init ==
    /\ made = 0
    /\ name = [o \in Node |-> CHOOSE m \in Name : TRUE]
    /\ nodes = {} /\ leaving = {} /\ stopped = {}
    /\ fetcher = [o \in Node |-> "none"] /\ fetched = {}
    /\ disk = [m \in Name |-> "none"] /\ pushing = {} /\ pushed = {}
    /\ reindex = 1 /\ indexer = "idle"
    /\ todo = {} /\ found = {} /\ connectTo = {}
    /\ cancelled = FALSE /\ server = "serving" /\ finished = FALSE
    /\ pool = 3 /\ released = FALSE
    /\ failures = 0

Content(m) == IF m \in Public THEN "public" ELSE "private"

Fails == /\ failures < MaxFailures
         /\ failures' = failures + 1

\* pool.Done: when nobody is left, Wait is released for good, whoever comes later.
PoolDone == /\ pool' = pool - 1
            /\ released' = IF pool' = 0 THEN TRUE ELSE released

-----------------------------------------------------------------------------
(* The handlers.                                                           *)

\* apiWatchNode: TryAdd refuses a name that is listed.
Watch(m) ==
    /\ made < MaxWatches
    /\ \A o \in nodes : name[o] # m
    /\ made' = made + 1
    /\ name' = [name EXCEPT ![made'] = m]
    /\ nodes' = nodes \cup {made'}
    /\ UNCHANGED <<leaving, stopped, fetchVars, fileVars, indexVars, lifeVars, poolVars, failures>>

\* Mutant of Spawn: the wait group does not hear of the goroutine.
SpawnUncounted(o) ==
    /\ o \in 1..made /\ fetcher[o] = "none"
    /\ fetcher' = [fetcher EXCEPT ![o] = "trying"]
    /\ UNCHANGED <<listVars, fetched, fileVars, indexVars, lifeVars, poolVars, failures>>

\* ... and after the event Connected it starts the goroutine.
Spawn(o) ==
    /\ o \in 1..made /\ fetcher[o] = "none"
    /\ fetcher' = [fetcher EXCEPT ![o] = "trying"]
    /\ pool' = pool + 1
    /\ UNCHANGED <<listVars, fetched, fileVars, indexVars, lifeVars, released, failures>>

\* apiForgetNode: TryRemove, ...
Forget(o) ==
    /\ o \in nodes
    /\ nodes' = nodes \ {o}
    /\ leaving' = leaving \cup {o}
    /\ UNCHANGED <<made, name, stopped, fetchVars, fileVars, indexVars, lifeVars, poolVars, failures>>

\* ... and after the event Disconnected, Stop.
StopNode(o) ==
    /\ o \in leaving
    /\ leaving' = leaving \ {o}
    /\ stopped' = stopped \cup {o}
    /\ UNCHANGED <<made, name, nodes, fetchVars, fileVars, indexVars, lifeVars, poolVars, failures>>

\* apiPushNodeFile opens the file, which truncates it, and writes it out.
PushOpen(m) ==
    /\ m \notin pushing
    /\ pushing' = pushing \cup {m}
    /\ pushed' = pushed \cup {m}
    /\ disk' = [disk EXCEPT ![m] = "torn"]
    /\ UNCHANGED <<listVars, fetchVars, indexVars, lifeVars, poolVars, failures>>

\* The command bootnode, another process, stores the file of a node that joins
\* in the same directory, unless there is one.
StoreOpen(m) ==
    /\ disk[m] = "none"
    /\ pushing' = pushing \cup {m}
    /\ pushed' = pushed \cup {m}
    /\ disk' = [disk EXCEPT ![m] = "torn"]
    /\ UNCHANGED <<listVars, fetchVars, indexVars, lifeVars, poolVars, failures>>

\* Either is written out, or not.
PushWrite(m) ==
    /\ m \in pushing
    /\ pushing' = pushing \ {m}
    /\ disk' = [disk EXCEPT ![m] = Content(m)]
    /\ UNCHANGED <<pushed, listVars, fetchVars, indexVars, lifeVars, poolVars, failures>>

FailPush(m) ==
    /\ m \in pushing
    /\ Fails
    /\ pushing' = pushing \ {m}
    /\ UNCHANGED <<listVars, fetchVars, disk, pushed, indexVars, lifeVars, poolVars>>

\* apiKillNode, or a signal.
Kill ==
    /\ ~ cancelled
    /\ cancelled' = TRUE
    /\ UNCHANGED <<listVars, fetchVars, fileVars, indexVars, server, finished, poolVars, failures>>

-----------------------------------------------------------------------------
(* requestNode.                                                            *)

Done(o) == o \in stopped \/ cancelled
Goto(o, label) == fetcher' = [fetcher EXCEPT ![o] = label]

\* The peer's answer is read to its end, and the host file opened.
Fetch(o) ==
    /\ fetcher[o] = "trying" /\ ~ Done(o)
    /\ disk' = [disk EXCEPT ![name[o]] = "torn"]
    /\ Goto(o, "writing")
    /\ UNCHANGED <<listVars, fetched, pushing, pushed, indexVars, lifeVars, poolVars, failures>>

\* Mutant of FailFetch: the first failure ends the goroutine.
FailFetchOnce(o) ==
    /\ fetcher[o] = "trying"
    /\ (Done(o) /\ UNCHANGED failures) \/ Fails
    /\ Goto(o, "ended")
    /\ PoolDone
    /\ UNCHANGED <<listVars, fetched, fileVars, indexVars, lifeVars>>

\* The request fails, at the latest because its context is cancelled.
FailFetch(o) ==
    /\ fetcher[o] = "trying"
    /\ (Done(o) /\ UNCHANGED failures) \/ Fails
    /\ Goto(o, "waiting")
    /\ UNCHANGED <<listVars, fetched, fileVars, indexVars, lifeVars, poolVars>>

Write(o) ==
    /\ fetcher[o] = "writing"
    /\ disk' = [disk EXCEPT ![name[o]] = Content(name[o])]
    /\ Goto(o, "written")
    /\ UNCHANGED <<listVars, fetched, pushing, pushed, indexVars, lifeVars, poolVars, failures>>

FailWrite(o) ==
    /\ fetcher[o] = "writing"
    /\ Fails
    /\ Goto(o, "waiting")
    /\ UNCHANGED <<listVars, fetched, fileVars, indexVars, lifeVars, poolVars>>

\* Mutant of Report: the index is asked for only when the loop is idle.
ReportIfIdle(o) ==
    /\ fetcher[o] = "written"
    /\ fetched' = fetched \cup {o}
    /\ reindex' = IF indexer = "idle" THEN 1 ELSE reindex
    /\ Goto(o, "ended")
    /\ PoolDone
    /\ UNCHANGED <<listVars, fileVars, indexer, todo, found, connectTo, lifeVars, failures>>

\* Fetched is set, an index asked for (nothing is sent when one is asked for
\* already), and after the event Fetched the goroutine ends.
Report(o) ==
    /\ fetcher[o] = "written"
    /\ fetched' = fetched \cup {o}
    /\ reindex' = 1
    /\ Goto(o, "ended")
    /\ PoolDone
    /\ UNCHANGED <<listVars, fileVars, indexer, todo, found, connectTo, lifeVars, failures>>

\* The select after a failure: the timer, or the node's context.
Retry(o) ==
    /\ fetcher[o] = "waiting" /\ ~ Done(o)
    /\ Goto(o, "trying")
    /\ UNCHANGED <<listVars, fetched, fileVars, indexVars, lifeVars, poolVars, failures>>

\* Mutant of Leave: the goroutine counts itself out as its caller does.
LeaveTwice(o) ==
    /\ fetcher[o] = "waiting" /\ Done(o)
    /\ Goto(o, "ended")
    /\ pool' = pool - 2
    /\ UNCHANGED <<listVars, fetched, fileVars, indexVars, lifeVars, released, failures>>

\* Mutant of Leave: the wait does not see that the service is stopped.
LeaveIfForgotten(o) ==
    /\ fetcher[o] = "waiting" /\ o \in stopped
    /\ Goto(o, "ended")
    /\ PoolDone
    /\ UNCHANGED <<listVars, fetched, fileVars, indexVars, lifeVars, failures>>

\* The select takes the case of the node's context.
Leave(o) ==
    /\ fetcher[o] = "waiting" /\ Done(o)
    /\ Goto(o, "ended")
    /\ PoolDone
    /\ UNCHANGED <<listVars, fetched, fileVars, indexVars, lifeVars, failures>>

-----------------------------------------------------------------------------
(* reindexLoop and indexConnectTo.                                         *)

Forced ==
    /\ indexer = "idle" /\ reindex = 1
    /\ reindex' = 0
    /\ indexer' = "listing"
    /\ UNCHANGED <<listVars, fetchVars, fileVars, todo, found, connectTo, lifeVars, poolVars, failures>>

Scheduled ==
    /\ indexer = "idle"
    /\ indexer' = "listing"
    /\ UNCHANGED <<listVars, fetchVars, fileVars, reindex, todo, found, connectTo, lifeVars, poolVars, failures>>

ListHosts ==
    /\ indexer = "listing"
    /\ todo' = {m \in Name : disk[m] # "none"}
    /\ found' = {}
    /\ indexer' = "scanning"
    /\ UNCHANGED <<listVars, fetchVars, fileVars, reindex, connectTo, lifeVars, poolVars, failures>>

ReadHost(m) ==
    /\ indexer = "scanning" /\ m \in todo
    /\ todo' = todo \ {m}
    /\ found' = IF disk[m] = "public" THEN found \cup {m} ELSE found
    /\ UNCHANGED <<listVars, fetchVars, fileVars, reindex, indexer, connectTo, lifeVars, poolVars, failures>>

\* tinc.conf is read, extended by what it lacks, and written: this goroutine
\* is the only one that writes it.
Rewrite ==
    /\ indexer = "scanning" /\ todo = {}
    /\ connectTo' = connectTo \cup found
    /\ indexer' = "idle"
    /\ UNCHANGED <<listVars, fetchVars, fileVars, reindex, todo, found, lifeVars, poolVars, failures>>

\* Mutant of FailIndex: an error ends the loop.
FailIndexOnce ==
    /\ indexer \in {"listing", "scanning"}
    /\ Fails
    /\ indexer' = "ended" /\ PoolDone
    /\ UNCHANGED <<listVars, fetchVars, fileVars, reindex, todo, found, connectTo, lifeVars>>

\* A file or the directory cannot be read.
FailIndex ==
    /\ indexer \in {"listing", "scanning"}
    /\ Fails
    /\ indexer' = "idle"
    /\ UNCHANGED <<listVars, fetchVars, fileVars, reindex, todo, found, connectTo, lifeVars, poolVars>>

\* tinc.conf cannot be written: it was truncated by then.
FailRewrite ==
    /\ indexer = "scanning" /\ todo = {}
    /\ Fails
    /\ connectTo' = {}
    /\ indexer' = "idle"
    /\ UNCHANGED <<listVars, fetchVars, fileVars, reindex, todo, found, lifeVars, poolVars>>

EndIndexer ==
    /\ indexer = "idle" /\ cancelled
    /\ indexer' = "ended"
    /\ PoolDone
    /\ UNCHANGED <<listVars, fetchVars, fileVars, reindex, todo, found, connectTo, lifeVars, failures>>

-----------------------------------------------------------------------------
(* The shutdown.                                                           *)

\* The listener is closed, and then http.Serve returns.
CloseListener ==
    /\ server = "serving" /\ cancelled
    /\ server' = "closed"
    /\ PoolDone
    /\ UNCHANGED <<listVars, fetchVars, fileVars, indexVars, cancelled, finished, failures>>

EndServe ==
    /\ server = "closed"
    /\ server' = "ended"
    /\ PoolDone
    /\ UNCHANGED <<listVars, fetchVars, fileVars, indexVars, cancelled, finished, failures>>

\* WaitForFinish returns, or panics because a goroutine has been added since.
Finish ==
    /\ released
    /\ finished' = TRUE
    /\ UNCHANGED <<listVars, fetchVars, fileVars, indexVars, cancelled, server, poolVars, failures>>

-----------------------------------------------------------------------------
Handlers == \/ \E m \in Name : Watch(m) \/ PushOpen(m) \/ StoreOpen(m)
            \/ \E o \in Node : Forget(o)
            \/ Kill
Handling == \/ \E o \in Node : Spawn(o) \/ StopNode(o)
            \/ \E m \in Name : PushWrite(m) \/ FailPush(m)
Requesting(o) == \/ Fetch(o) \/ FailFetch(o) \/ Write(o) \/ FailWrite(o)
                 \/ Report(o) \/ Retry(o) \/ Leave(o)
Indexing == \/ Forced \/ Scheduled
            \/ ListHosts \/ (\E m \in Name : ReadHost(m)) \/ Rewrite
            \/ FailIndex \/ FailRewrite
Ending == CloseListener \/ EndServe \/ Finish

Next == /\ ~ finished
        /\ \/ Handlers \/ Handling
           \/ \E o \in Node : Requesting(o)
           \/ Indexing \/ EndIndexer
           \/ Ending

Spec == Init /\ [][Next]_vars

\* Goroutines are scheduled, requests end by their timeout, the tickers tick.
\* A select whose context is done takes that case sooner or later, because it
\* chooses at random among the cases that are ready.
Fairness == /\ \A o \in Node : WF_vars(~ finished /\ Requesting(o))
            /\ WF_vars(~ finished /\ \E o \in Node : Spawn(o) \/ StopNode(o))
            /\ \A m \in Name : WF_vars(~ finished /\ PushWrite(m))
            /\ WF_vars(~ finished /\ Indexing)
            /\ SF_vars(~ finished /\ EndIndexer)
            /\ WF_vars(~ finished /\ Ending)

FairSpec == Spec /\ Fairness

-----------------------------------------------------------------------------
\* The index that is to see this name's file has yet to read it.
Coming(m) == \/ reindex = 1
             \/ indexer = "listing"
             \/ indexer = "scanning" /\ m \in todo \cup found
             \/ \E o \in Node : name[o] = m /\ fetcher[o] \in {"writing", "written"}

\* A public node that was fetched is in tinc.conf, or an index that will see
\* its file is due: a request for an index that is not sent because the
\* channel is full, or that comes while an index is under way, is not lost.
NoLostIndex ==
    \A m \in Name \ pushed :
       disk[m] = "public" /\ failures = 0 => m \in connectTo \/ Coming(m)

\* The process does not end in the middle of a host file that it fetches:
\* whatever is torn then was torn by a write that failed.
ExitClean ==
    finished => \A m \in Name \ pushed : disk[m] = "torn" => failures > 0

\* A node that is watched is fetched in the end, after any failures.
Fetching == \A o \in Node :
               o \in nodes ~> (o \in fetched \/ o \notin nodes \/ cancelled)

\* A public host file that stays gets its node into tinc.conf, pushed ones by
\* the next scheduled index, and what a rewrite that fails has lost of tinc.conf
\* comes back: in the end its node is there and stays.
PublicConnected == \A m \in Name :
    <>[](disk[m] = "public") => <>[](m \in connectTo \/ cancelled)

\* A monitor that is told to stop stops, whatever it is fetching.
StopFinishes == cancelled ~> finished
=============================================================================
