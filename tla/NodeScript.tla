----------------------------- MODULE NodeScript -----------------------------
(***************************************************************************)
(* A node made at the web page of a monitor: apiUiAddNode has the generator*)
(* draw an identity and write a script, pushes the public key to the nodes *)
(* that it watches, and hands the script out if a public one took it; the  *)
(* script runs gen and adds the keys and the public nodes' host files.     *)
(*                                                                         *)
(* Requests for the same name run side by side, each its own identity k,   *)
(* while the monitor fetches host files.  A script that fails or is cut    *)
(* off is run again.  The monitor may still have the public host file of an*)
(* earlier node of the same name, Foreign.                                 *)
(***************************************************************************)
EXTENDS Gen

CONSTANTS
    Here,         \* the node whose monitor it is
    Public,       \* the peers with an Address in their host file
    MaxRequests   \* bound: requests for the name

ASSUME NodeScriptAssumption == Here \in Peer /\ Public \subseteq Peer /\ MaxRequests \in Nat

Watched == Peer \ {Here}
Named == Peer \cup {Self}

VARIABLES
    copies,     \* copies[m]: the host file of m in the monitor's directory
    fetched,    \* the peers whose host file the monitor has
    request,    \* request[k]: the handler that has drawn identity k
    connect,    \* connect[k]: ConnectTo of the script, a host file for each public node
    todo,       \* todo[k]: the nodes it has not pushed the key to yet
    took,       \* took[k]: atLeastOnePublic
    keyAt,      \* keyAt[p]: whose public key p has under the name, or Zero
    install,    \* where the script is
    script,     \* the identity in it
    left,       \* the host files that it has not added yet
    spoiled     \* history: names with an append that was cut off, or of a copy that was

fetchVars == <<copies, fetched>>
uiVars == <<fetchVars, request, connect, todo, took, keyAt>>
installVars == <<install, script, left, spoiled>>
scriptVars == <<uiVars, installVars>>

\* The names in the script of k.
Listed(k) == {m \in Named : connect[k][m] # NoFile}

ScriptTypeOK ==
    /\ copies \in [Named -> File \cup {NoFile}]
    /\ fetched \subseteq Peer /\ Here \in fetched
    /\ request \in [Identity -> {"none", "generating", "pushing", "handed", "undelivered"}]
    /\ connect \in [Identity -> [Named -> File \cup {NoFile}]]
    /\ todo \in [Identity -> SUBSET Watched]
    /\ took \in [Identity -> BOOLEAN]
    /\ keyAt \in [Peer -> Identity \cup {Zero}] /\ keyAt[Here] = Zero
    /\ install \in {"off", "gen", "key", "priv", "peers", "done", "failed"}
    /\ script \in Identity
    /\ install # "off" => request[script] = "handed"
    /\ left \subseteq Listed(script)
    /\ spoiled \subseteq Named

ScriptInit ==
    /\ copies \in {[m \in Named |-> IF m = Here THEN PeerFile(Here)
                                    ELSE IF m = Self THEN own ELSE NoFile] :
                   own \in {NoFile, Foreign}}
    /\ fetched = {Here}
    /\ request = [k \in Identity |-> "none"]
    /\ connect = [k \in Identity |-> [m \in Named |-> NoFile]]
    /\ todo = [k \in Identity |-> {}]
    /\ took = [k \in Identity |-> FALSE]
    /\ keyAt = [p \in Peer |-> Zero]
    /\ install = "off"
    /\ script = Self
    /\ left = {}
    /\ spoiled = {}

-----------------------------------------------------------------------------
(* The monitor.                                                            *)

\* tryFetchHost: WriteFile truncates the copy, is under way, or fails and is
\* repeated, or is through.
WriteCopy(p) ==
    /\ p \in Watched \ fetched
    /\ \E file \in Torn(PeerFile(p)) \cup {PeerFile(p)} : copies' = [copies EXCEPT ![p] = file]
    /\ UNCHANGED <<nodeVars, genVars, fetched, request, connect, todo, took, keyAt, installVars>>

\* requestNode, when WriteFile is through: Public is set.
Fetch(p) ==
    /\ p \in Watched \ fetched
    /\ copies[p] = PeerFile(p)
    /\ fetched' = fetched \cup {p}
    /\ UNCHANGED <<nodeVars, genVars, copies, request, connect, todo, took, keyAt, installVars>>

\* findAllPublicNodes takes a file by the word Address in it, which follows the
\* Subnet; the new node's own name is one like any other.
Addressed(m) == IF m = Self THEN copies[m] # NoFile
                ELSE /\ m \in Public /\ copies[m] # NoFile
                     /\ Line("Subnet", m) \in Range(copies[m])

\* Generate reads the host directory, then makes the keys, which takes its time.
Generate ==
    /\ drawn < MaxIdentity /\ drawn < MaxRequests
    /\ drawn' = drawn + 1
    /\ request' = [request EXCEPT ![drawn'] = "generating"]
    /\ connect' = [connect EXCEPT ![drawn'] =
                      [m \in Named |-> IF Addressed(m) THEN copies[m] ELSE NoFile]]
    /\ UNCHANGED <<dirVars, faults, genVars, fetchVars, todo, took, keyAt, installVars>>

\* The list of nodes is copied after that; it has those that are watched just then.
Distribute(k) ==
    /\ request[k] = "generating"
    /\ request' = [request EXCEPT ![k] = "pushing"]
    /\ \E nodes \in SUBSET Watched : todo' = [todo EXCEPT ![k] = nodes]
    /\ UNCHANGED <<nodeVars, genVars, fetchVars, connect, took, keyAt, installVars>>

\* PushNodeFile and the node's apiPushNodeFile, which overwrites.
Push(k, p) ==
    /\ p \in todo[k]
    /\ keyAt' = [keyAt EXCEPT ![p] = k]
    /\ todo' = [todo EXCEPT ![k] = @ \ {p}]
    /\ took' = [took EXCEPT ![k] = @ \/ p \in fetched \cap Public]
    /\ UNCHANGED <<nodeVars, genVars, fetchVars, request, connect, installVars>>

\* Mutant of FailPush: that the node is public is enough.
FailPushCounted(k, p) ==
    /\ p \in todo[k]
    /\ Fault
    /\ keyAt' \in {keyAt, [keyAt EXCEPT ![p] = k], [keyAt EXCEPT ![p] = Zero]}
    /\ todo' = [todo EXCEPT ![k] = @ \ {p}]
    /\ took' = [took EXCEPT ![k] = @ \/ p \in fetched \cap Public]
    /\ UNCHANGED <<dirVars, drawn, genVars, fetchVars, request, connect, installVars>>

\* The request, the write at p or the answer fails.
FailPush(k, p) ==
    /\ p \in todo[k]
    /\ Fault
    /\ keyAt' \in {keyAt, [keyAt EXCEPT ![p] = k], [keyAt EXCEPT ![p] = Zero]}
    /\ todo' = [todo EXCEPT ![k] = @ \ {p}]
    /\ UNCHANGED <<dirVars, drawn, genVars, fetchVars, request, connect, took, installVars>>

HandOut(k) ==
    /\ request[k] = "pushing"
    /\ todo[k] = {}
    /\ request' = [request EXCEPT ![k] = IF took[k] THEN "handed" ELSE "undelivered"]
    /\ UNCHANGED <<nodeVars, genVars, fetchVars, connect, todo, took, keyAt, installVars>>

-----------------------------------------------------------------------------
(* The script.                                                             *)

Options(k) == [identity |-> k, prefixOK |-> Listed(k) # {}, standalone |-> TRUE,
               genKey |-> FALSE, connectTo |-> SetToSeq(Listed(k))]

\* Mutant of RunScript: a node that has a host file is not made again.
RunScriptOnce(k) ==
    /\ request[k] = "handed"
    /\ install \in {"off", "failed"}
    /\ script' = k
    /\ left' = Listed(k)
    /\ IF hosts[Self] = NoFile
       THEN install' = "gen" /\ RunGen(Options(k))
       ELSE install' = "key" /\ UNCHANGED <<dirVars, faults, genVars>>
    /\ UNCHANGED <<drawn, uiVars, spoiled>>

\* It runs gen.  In a script without ConnectTo the command ends before its
\* --prefix, so that gen meets the default.
RunScript(k) ==
    /\ request[k] = "handed"
    /\ install \in {"off", "failed"}
    /\ install' = "gen"
    /\ script' = k
    /\ left' = Listed(k)
    /\ RunGen(Options(k))
    /\ UNCHANGED <<drawn, uiVars, spoiled>>

\* set -e: the script goes on only if gen has succeeded.
GenEnds ==
    /\ install = "gen"
    /\ gen \in {"done", "failed"}
    /\ install' = IF gen = "done" THEN "key" ELSE "failed"
    /\ UNCHANGED <<nodeVars, genVars, uiVars, script, left, spoiled>>

\* A write of the script, which ends there if it fails.
Step(next) == install' = next /\ UNCHANGED faults
FailStep == install' = "failed" /\ Fault

AppendKey ==
    /\ install = "key"
    /\ \/ hosts' = [hosts EXCEPT ![Self] = Append(@, KeyLine(script))] /\ Step("priv")
       \/ UNCHANGED hosts /\ FailStep
    /\ UNCHANGED <<conf, priv, drawn, genVars, uiVars, script, left, spoiled>>

WritePriv ==
    /\ install = "priv"
    /\ \/ priv' = script /\ Step("peers")
       \/ priv' = Zero /\ FailStep
    /\ UNCHANGED <<conf, hosts, drawn, genVars, uiVars, script, left, spoiled>>

\* A host file is appended to what is there, with a newline behind it.
AppendPeer(m) ==
    /\ install = "peers"
    /\ m \in left
    /\ LET old == IF hosts[m] = NoFile THEN <<>> ELSE hosts[m]
           lines == Ended(connect[script][m])
       IN \/ hosts' = [hosts EXCEPT ![m] = Behind(old, lines)] /\ Step("peers")
          \/ /\ \E part \in Torn(lines) : hosts' = [hosts EXCEPT ![m] = Behind(old, part)]
             /\ FailStep
    /\ left' = left \ {m}
    /\ spoiled' = IF connect[script][m] = PeerFile(m) /\ ~ Ragged(hosts'[m])
                  THEN spoiled ELSE spoiled \cup {m}
    /\ UNCHANGED <<conf, priv, drawn, genVars, uiVars, script>>

Finish ==
    /\ install = "peers"
    /\ left = {}
    /\ install' = "done"
    /\ UNCHANGED <<nodeVars, genVars, uiVars, script, left, spoiled>>

ScriptNext ==
    \/ \E p \in Peer : WriteCopy(p) \/ Fetch(p)
    \/ Generate
    \/ \E k \in Identity : \/ Distribute(k) \/ HandOut(k) \/ RunScript(k)
                           \/ \E p \in Peer : Push(k, p) \/ FailPush(k, p)
    \/ /\ WriteConf \/ WriteHost \/ RunKeyGen \/ Interrupt
       /\ UNCHANGED scriptVars
    \/ GenEnds \/ AppendKey \/ WritePriv \/ Finish
    \/ \E m \in Named : AppendPeer(m)

-----------------------------------------------------------------------------
(* Properties.                                                             *)

\* A script that is handed out is expected: a public node has the key that is in
\* it, unless another request for the same name has pushed one of its own
\* (http_api.go:116-128).  A push whose answer is lost does not count.
Introduced ==
    \A k \in Identity : request[k] = "handed" =>
        \/ \E p \in Public : keyAt[p] = k
        \/ \E j \in Identity \ {k} : request[j] \notin {"none", "generating"}

\* A script that has run to its end, after however many that did not, leaves a
\* directory that belongs together: the name, the private key of this script and
\* its public nodes in ConnectTo; the own host file with the public key, unless the
\* monitor has put the name's earlier file behind it; and of each public node a host
\* file that reads as its own does, unless the monitor's copy or an earlier append
\* to it was cut off within a line.  (Its Address lines, which are not in the model,
\* are there once for each append.)
Installed ==
    install = "done" =>
        /\ Main # NoFile /\ Main.Name = Self /\ Range(Main.ConnectTo) = Listed(script)
        /\ priv = script /\ (Self \notin Listed(script) => KeyOf(hosts[Self]) = script)
        /\ \A p \in Listed(script) \ (spoiled \cup {Self}) :
              ReadFile(hosts[p], NoNode) = ReadFile(PeerFile(p), NoNode)
=============================================================================
