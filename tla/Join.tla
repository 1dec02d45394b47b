-------------------------------- MODULE Join --------------------------------
(***************************************************************************)
(* How a network grows: the boot protocol (tincd/boot) by which a node that*)
(* is started with --join exchanges host files with a running node, what   *)
(* the run command does when an exchange has happened, tincd loading the   *)
(* host files it is told of, and discovery over the links that come of it. *)
(*                                                                         *)
(* Discovery.tla opens what is one step here: a merge of one name (Gossip),*)
(* start-up (Boot).  AddHost writes a host file and lists it in ConnectTo, *)
(* so that FilesOf(n) is also what ConnectTo has.  A link exists when both *)
(* ends have loaded each other's host file.                                *)
(***************************************************************************)
EXTENDS SSD

CONSTANTS
    Node,         \* the nodes
    Joins,        \* <<j, s>>: j is started with --join and the URL of s
    MaxTick,      \* bound: MaxTick[n] is how often n may be started
    MaxEdition,   \* bound: MaxEdition[n] is how often n's operator edits its file
    MaxFailures   \* bound: exchanges that fail although both nodes are up

ASSUME JoinsAssumption == Joins \subseteq {w \in Node \X Node : w[1] # w[2]}
ASSUME LimitsAssumption == /\ MaxTick \in [Node -> Nat]
                           /\ MaxEdition \in [Node -> Nat] /\ MaxFailures \in Nat

NoFile == -1
File == Nat \cup {NoFile}   \* the edition of a host file

VARIABLES
    up,         \* the nodes whose run command runs
    clock,      \* clock[n]: the tick of n's last start
    hosts,      \* hosts[n][m]: the file of m in the host directory of n
    entities,   \* entities[n]: SSD.entities
    saved,      \* saved[n]: the ssd file
    loaded,     \* loaded[n]: the hosts that n's tincd has loaded
    reload,     \* reload[n]: a signal is in reloadSignal
    client,     \* client[w]: the boot client of w[1] for the URL of w[2]
    sent,       \* sent[w]: the host file in its envelope
    archive,    \* archive[w]: what the answer has and is not imported yet
    current,    \* current[w]: the name that is being imported
    serving,    \* serving[w]: the handler of its request at w[2]
    failures    \* how many failures have been spent

discVars == <<hosts, entities, saved>>
tincVars == <<loaded, reload>>
clientVars == <<client, sent, archive, current>>
vars == <<up, clock, discVars, tincVars, clientVars, serving, failures>>

Joiner(w) == w[1]
Server(w) == w[2]
Nothing == [m \in Node |-> NoFile]

\* What a process has ends with it.
EndsWithProcess ==
    /\ \A n \in Node \ up : ~ reload[n] /\ loaded[n] = {}
    /\ \A w \in Joins : /\ client[w] = "off" <=> Joiner(w) \notin up
                        /\ archive[w] # Nothing => client[w] \in {"importing", "imported"}
                        /\ serving[w] # "none" => Server(w) \in up

TypeOK ==
    /\ up \subseteq Node
    /\ clock \in [Node -> Nat]
    /\ hosts \in [Node -> [Node -> File]]
    /\ entities \in [Node -> [Node -> Entry]]
    /\ saved \in [Node -> [Node -> Entry]]
    /\ loaded \in [Node -> SUBSET Node]
    /\ reload \in [Node -> BOOLEAN]
    /\ client \in [Joins -> {"off", "ready", "asking", "importing", "imported", "done"}]
    /\ sent \in [Joins -> File]
    /\ archive \in [Joins -> [Node -> File]]
    /\ current \in [Joins -> Node]
    /\ serving \in [Joins -> {"none", "asked", "added", "answered"}]
    /\ failures \in 0..MaxFailures
    /\ EndsWithProcess

Init ==
    /\ up = {}
    /\ clock = [n \in Node |-> 0]
    /\ hosts = [n \in Node |-> [Nothing EXCEPT ![n] = 0]]
    /\ entities = [n \in Node |-> Empty(Node)]
    /\ saved = [n \in Node |-> Empty(Node)]
    /\ loaded = [n \in Node |-> {}]
    /\ reload = [n \in Node |-> FALSE]
    /\ client = [w \in Joins |-> "off"]
    /\ sent = [w \in Joins |-> NoFile]
    /\ archive = [w \in Joins |-> Nothing]
    /\ current = [w \in Joins |-> Joiner(w)]
    /\ serving = [w \in Joins |-> "none"]
    /\ failures = 0

Hosts(n) == hosts[n]
FilesOf(n) == {m \in Node : hosts[n][m] # NoFile}

-----------------------------------------------------------------------------
(* Nodes.                                                                  *)

\* Mutant of Restored: start-up does not look into the host directory.
RestoredFromSaved(n) == Put(saved[n], n, clock[n] + 1)

\* The map after start-up: the ssd file, the host files, the own version.
Restored(n) == Put(PutAllUnversioned(saved[n], FilesOf(n)), n, clock[n] + 1)

\* Execute, up to the boot clients; tincd starts with all host files.
Boot(n) ==
    /\ n \notin up
    /\ clock[n] < MaxTick[n]
    /\ up' = up \cup {n}
    /\ clock' = [clock EXCEPT ![n] = @ + 1]
    /\ entities' = [entities EXCEPT ![n] = Restored(n)]
    /\ saved' = [saved EXCEPT ![n] = Restored(n)]
    /\ loaded' = [loaded EXCEPT ![n] = FilesOf(n)]
    /\ client' = [w \in Joins |-> IF Joiner(w) = n THEN "ready" ELSE client[w]]
    /\ UNCHANGED <<hosts, reload, sent, archive, current, serving, failures>>

\* The process ends with its clients and handlers; who waits for an answer of
\* such a handler gets an error.
Crash(n) ==
    /\ n \in up
    /\ up' = up \ {n}
    /\ entities' = [entities EXCEPT ![n] = Empty(Node)]
    /\ loaded' = [loaded EXCEPT ![n] = {}]
    /\ reload' = [reload EXCEPT ![n] = FALSE]
    /\ client' = [w \in Joins |->
                     CASE Joiner(w) = n -> "off"
                       [] Server(w) = n /\ client[w] = "asking" -> "ready"
                       [] OTHER -> client[w]]
    /\ archive' = [w \in Joins |-> IF Joiner(w) = n THEN Nothing ELSE archive[w]]
    /\ serving' = [w \in Joins |-> IF Server(w) = n THEN "none" ELSE serving[w]]
    /\ UNCHANGED <<clock, hosts, saved, sent, current, failures>>

\* The operator edits the node's own host file before a start.
Edit(n) ==
    /\ n \notin up /\ clock[n] < MaxTick[n]
    /\ hosts[n][n] < MaxEdition[n]
    /\ hosts' = [hosts EXCEPT ![n][n] = @ + 1]
    /\ UNCHANGED <<up, clock, entities, saved, tincVars, clientVars, serving, failures>>

\* The SIGHUP that follows a Reload.
Hup(n) ==
    /\ n \in up /\ reload[n]
    /\ loaded' = [loaded EXCEPT ![n] = FilesOf(n)]
    /\ reload' = [reload EXCEPT ![n] = FALSE]
    /\ UNCHANGED <<up, clock, discVars, clientVars, serving, failures>>

Link(n, p) == /\ {n, p} \subseteq up
              /\ p \in loaded[n] /\ n \in loaded[p]

\* tinc routes between nodes that a chain of links connects.
Reaches(n, p) == /\ {n, p} \subseteq up
                 /\ \A S \in SUBSET up :
                       n \in S /\ (\A s \in S, t \in up : Link(s, t) => t \in S) => p \in S

\* A round of n's requester for p merges the name m and saves it.
Gossip(n, p, m) ==
    /\ n # p /\ Reaches(n, p)
    /\ IsNewer(entities[n], m, entities[p][m])
    /\ entities[p][m] # Absent
    /\ hosts' = [hosts EXCEPT ![n][m] = hosts[p][m]]
    /\ entities' = [entities EXCEPT ![n] = Put(@, m, entities[p][m])]
    /\ saved' = [saved EXCEPT ![n] = entities'[n]]
    /\ UNCHANGED <<up, clock, tincVars, clientVars, serving, failures>>

-----------------------------------------------------------------------------
(* The boot server.                                                        *)

\* Mutant of Know: Replace({name, 0}), which asks for nothing.
KnowAnyway(n, m) ==
    /\ entities' = [entities EXCEPT ![n] = Put(@, m, 0)]
    /\ saved' = [saved EXCEPT ![n] = entities'[n]]

\* A host that is known by its file only: ReplaceIfNewer({name, 0}) and Save.
Know(n, m) ==
    /\ entities' = [entities EXCEPT ![n] = PutAllUnversioned(@, {m})]
    /\ saved' = [saved EXCEPT ![n] = entities'[n]]

\* ServeHTTP: AddHost for the joiner ...
Serve(w) ==
    /\ serving[w] = "asked"
    /\ hosts' = [hosts EXCEPT ![Server(w)][Joiner(w)] = sent[w]]
    /\ serving' = [serving EXCEPT ![w] = "added"]
    /\ UNCHANGED <<up, clock, entities, saved, tincVars, clientVars, failures>>

\* Mutant of Answer: Joined is called only when the answer was received.
AnswerOrForget(w) ==
    /\ serving[w] = "added"
    /\ serving' = [serving EXCEPT ![w] = IF client[w] = "asking" THEN "answered" ELSE "none"]
    /\ IF client[w] = "asking"
       THEN /\ archive' = [archive EXCEPT ![w] = Hosts(Server(w))]
            /\ client' = [client EXCEPT ![w] = "importing"]
       ELSE UNCHANGED <<archive, client>>
    /\ UNCHANGED <<up, clock, discVars, tincVars, sent, current, failures>>

\* ... all host files as the answer, if it is still waited for ...
Answer(w) ==
    /\ serving[w] = "added"
    /\ serving' = [serving EXCEPT ![w] = "answered"]
    /\ IF client[w] = "asking"
       THEN /\ archive' = [archive EXCEPT ![w] = Hosts(Server(w))]
            /\ client' = [client EXCEPT ![w] = "importing"]
       ELSE UNCHANGED <<archive, client>>
    /\ UNCHANGED <<up, clock, discVars, tincVars, sent, current, failures>>

\* Mutant of Joined: tincd is not told.
JoinedSilently(w) ==
    /\ serving[w] = "answered"
    /\ Know(Server(w), Joiner(w))
    /\ serving' = [serving EXCEPT ![w] = "none"]
    /\ UNCHANGED <<up, clock, hosts, tincVars, clientVars, failures>>

\* ... and the callback Joined, which tells tincd only of news.
Joined(w) ==
    LET s == Server(w) IN
    /\ serving[w] = "answered"
    /\ Know(s, Joiner(w))
    /\ reload' = [reload EXCEPT ![s] = @ \/ IsNewer(entities[s], Joiner(w), 0)]
    /\ serving' = [serving EXCEPT ![w] = "none"]
    /\ UNCHANGED <<up, clock, hosts, loaded, clientVars, failures>>

\* AddHost fails, before or after it has written the file, or Hosts does: the
\* joiner gets an error and Joined is not called.
FailServe(w) ==
    /\ serving[w] \in {"asked", "added"}
    /\ failures < MaxFailures
    /\ failures' = failures + 1
    /\ hosts' \in {hosts, [hosts EXCEPT ![Server(w)][Joiner(w)] = sent[w]]}
    /\ serving' = [serving EXCEPT ![w] = "none"]
    /\ client' = [client EXCEPT ![w] = IF @ = "asking" THEN "ready" ELSE @]
    /\ UNCHANGED <<up, clock, entities, saved, tincVars, sent, archive, current>>

-----------------------------------------------------------------------------
(* The boot client: Run and exchange.                                      *)

Goto(w, label) == client' = [client EXCEPT ![w] = label]

\* One request of w at a time is at the server.
Request(w) ==
    /\ client[w] = "ready" /\ serving[w] = "none"
    /\ Server(w) \in up
    /\ sent' = [sent EXCEPT ![w] = hosts[Joiner(w)][Joiner(w)]]
    /\ serving' = [serving EXCEPT ![w] = "asked"]
    /\ Goto(w, "asking")
    /\ UNCHANGED <<up, clock, discVars, tincVars, archive, current, failures>>

\* No answer comes in time, or none that can be read, and the exchange is tried
\* again; the handler of the request may go on.
FailRequest(w) ==
    /\ client[w] = "asking"
    /\ failures < MaxFailures
    /\ failures' = failures + 1
    /\ Goto(w, "ready")
    /\ UNCHANGED <<up, clock, discVars, tincVars, sent, archive, current, serving>>

\* AddHost for a host of the answer, ...
Import(w, m) ==
    /\ client[w] = "importing" /\ archive[w][m] # NoFile
    /\ hosts' = [hosts EXCEPT ![Joiner(w)][m] = archive[w][m]]
    /\ archive' = [archive EXCEPT ![w][m] = NoFile]
    /\ current' = [current EXCEPT ![w] = m]
    /\ Goto(w, "imported")
    /\ UNCHANGED <<up, clock, entities, saved, tincVars, sent, serving, failures>>

\* AddHost fails, before or after it has written the file: the exchange is
\* tried again.
FailImport(w, m) ==
    /\ client[w] = "importing" /\ archive[w][m] # NoFile
    /\ failures < MaxFailures
    /\ failures' = failures + 1
    /\ hosts' \in {hosts, [hosts EXCEPT ![Joiner(w)][m] = archive[w][m]]}
    /\ archive' = [archive EXCEPT ![w] = Nothing]
    /\ Goto(w, "ready")
    /\ UNCHANGED <<up, clock, entities, saved, tincVars, sent, current, serving>>

\* ... and the callback Exchanged.
Exchanged(w) ==
    /\ client[w] = "imported"
    /\ Know(Joiner(w), current[w])
    /\ Goto(w, "importing")
    /\ UNCHANGED <<up, clock, hosts, tincVars, sent, archive, current, serving, failures>>

\* Mutant of Complete: tincd is not told.
CompleteSilently(w) ==
    /\ client[w] = "importing" /\ archive[w] = Nothing
    /\ Goto(w, "done")
    /\ UNCHANGED <<up, clock, discVars, tincVars, sent, archive, current, serving, failures>>

\* Mutant of Complete: it does not wait until all hosts are imported.
CompleteEarly(w) ==
    /\ client[w] = "importing"
    /\ reload' = [reload EXCEPT ![Joiner(w)] = TRUE]
    /\ Goto(w, "done")
    /\ UNCHANGED <<up, clock, discVars, loaded, sent, archive, current, serving, failures>>

\* The callback Complete: Reload.
Complete(w) ==
    /\ client[w] = "importing" /\ archive[w] = Nothing
    /\ reload' = [reload EXCEPT ![Joiner(w)] = TRUE]
    /\ Goto(w, "done")
    /\ UNCHANGED <<up, clock, discVars, loaded, sent, archive, current, serving, failures>>

-----------------------------------------------------------------------------
Serving(w) == Serve(w) \/ Answer(w) \/ Joined(w)
Joining(w) == Request(w) \/ (\E m \in Node : Import(w, m)) \/ Exchanged(w) \/ Complete(w)
Failing(w) == FailServe(w) \/ FailRequest(w) \/ \E m \in Node : FailImport(w, m)

Next == \/ \E n \in Node : Boot(n) \/ Crash(n) \/ Edit(n) \/ Hup(n)
        \/ \E n, p, m \in Node : Gossip(n, p, m)
        \/ \E w \in Joins : Serving(w) \/ Joining(w) \/ Failing(w)

Spec == Init /\ [][Next]_vars

\* Handlers and clients run, signals arrive, and discovery converges between
\* nodes that reach each other (Discovery!Convergence).
Fairness == /\ \A n \in Node : WF_vars(Hup(n))
            /\ \A n \in Node : WF_vars(\E p, m \in Node : Gossip(n, p, m))
            /\ \A w \in Joins : WF_vars(Serving(w)) /\ WF_vars(Joining(w))

FairSpec == Spec /\ Fairness

-----------------------------------------------------------------------------
\* A host file that a running node has been given is announced to the others,
\* or a handler or client is about to, whatever crashes between AddHost and the
\* callback and whether the answer arrives or not.  Only an AddHost that fails
\* halfway leaves a file aside, until its joiner, which goes on, has joined.
Announced ==
    \A n \in up, m \in Node :
       hosts[n][m] # NoFile /\ entities[n][m] = Absent =>
          \/ \E w \in Joins : /\ Server(w) = n /\ Joiner(w) = m
                              /\ serving[w] \in {"added", "answered"}
          \/ \E w \in Joins : /\ Joiner(w) = n /\ current[w] = m
                              /\ client[w] = "imported"
          \/ /\ failures > 0
             /\ \E w \in Joins : /\ Joiner(w) = n \/ w = <<m, n>>
                                 /\ client[w] # "done"

\* A join that is complete has left its marks on both sides: the joiner has
\* the server's host file and its tincd knows of it or is being told.
JoinLoaded ==
    \A w \in Joins : client[w] = "done" =>
       /\ hosts[Server(w)][Joiner(w)] # NoFile
       /\ Server(w) \in loaded[Joiner(w)] \/ reload[Joiner(w)]

\* One network: when the nodes stay up, each has the host file and the latest
\* version of each, whoever joined whom, in whatever order, and although Joined
\* tells tincd nothing when discovery was faster than the callback.
OneNetwork ==
    <>[](up = Node) =>
       <>[](\A n, m \in Node : hosts[n][m] = hosts[m][m] /\ entities[n][m] = clock[m])

\* "Single Source Distribution", "version (must always grow)" (ssd.go:12-14):
\* who has the latest version of a running node has the host file that this
\* version stands for, and nothing but a later version replaces it.
SingleSourceContent ==
    \A n, m \in up : entities[n][m] = clock[m] => hosts[n][m] = hosts[m][m]

\* What joins and restarts leave of that promise, SingleSourceContent or not: a host
\* that joins or is imported is known as version 0, what discovery has learned of it
\* meanwhile stays, no map is ahead of a source, and no source takes back its own.
Promise == INSTANCE SingleSource WITH latest <- clock, view <- entities
VersionsImplementSingleSource == Promise!Spec
=============================================================================
