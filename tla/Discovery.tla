----------------------------- MODULE Discovery -----------------------------
(***************************************************************************)
(* The discovery protocol of a tinc-boot network: nodes that start, crash  *)
(* and start again, each with a clock file, a host directory, an ssd file  *)
(* and the in-memory map that discovery.SSD guards, and the requesters     *)
(* that poll the peers' maps and fetch the host files that are newer.      *)
(*                                                                         *)
(* A step is what one goroutine does under one lock, or one request at the *)
(* peer; SSDLock.tla opens the locks.  A host file is reduced to the       *)
(* edition of it: the owner's operator makes edition 1, 2, ... out of      *)
(* edition 0.  The routes that tincd reports decide who polls whom; here   *)
(* that is the relation Watches, and TincDaemon.tla opens it.              *)
(***************************************************************************)
EXTENDS SSD, Sequences

CONSTANTS
    Node,         \* the nodes, each with its name
    Watches,      \* <<n, p>>: n runs a requester for the address of p
    Introduced,   \* <<n, m>>: n holds m's host file before anybody starts
    MaxTick,      \* bound: MaxTick[n] is how often n may be started
    MaxEdition,   \* bound: MaxEdition[n] is how often n's operator edits its file
    MaxFailures,  \* bound: requests, file writes and saves that fail
    TornClock     \* whether a crash may tear the clock file

ASSUME NodeAssumption == Node # {}
ASSUME WatchesAssumption == Watches \subseteq {w \in Node \X Node : w[1] # w[2]}
ASSUME IntroducedAssumption == Introduced \subseteq Node \X Node
ASSUME BoundsAssumption == /\ MaxTick \in [Node -> Nat]
                           /\ MaxEdition \in [Node -> Nat]
                           /\ MaxFailures \in Nat
                           /\ TornClock \in BOOLEAN

Broken == -1            \* a clock file that does not parse
Torn == -1              \* a host file that was truncated and not written out
NoFile == -2
Edition == Nat
File == Edition \cup {Torn, NoFile}

VARIABLES
    phase,      \* phase[n]: "down", "ticked" (clock written) or "up"
    clock,      \* clock[n]: content of the clock file, 0 when there is none
    entities,   \* entities[n]: SSD.entities of the running process
    saved,      \* saved[n]: what the ssd file holds, all Absent without a file
    hosts,      \* hosts[n][m]: the file of m in the host directory of n
    connectTo,  \* connectTo[n]: the ConnectTo names of n's tinc.conf
    unreadable, \* the nodes whose tinc.conf does not parse
    lost,       \* history: lost[n], names that torn writes took from connectTo[n]
    published,  \* history: published[m][v], edition of m's file at tick v
    pc,         \* pc[w]: where the requester's gatherInfo is
    headers,    \* headers[w]: what fetchHeaders returned, less what is done
    call,       \* call[w]: the fetchContent under way
    changed,    \* changed[w]: the variable of gatherInfo
    failures    \* how many failures have been spent

nodeVars == <<phase, clock, saved>>
confVars == <<connectTo, unreadable, lost>>
fileVars == <<hosts, confVars>>
roundVars == <<pc, headers, call, changed>>
vars == <<nodeVars, entities, fileVars, published, roundVars, failures>>

Me(w) == w[1]
Peer(w) == w[2]
Up(n) == phase[n] = "up"

Call == [name : Node, version : Version, content : Edition \cup {Torn}]
NoCall == [name |-> CHOOSE n \in Node : TRUE, version |-> 0, content |-> Torn]

PC == {"idle", "merging", "asking", "asked", "fetched"}

TypeOK ==
    /\ phase \in [Node -> {"down", "ticked", "up"}]
    /\ clock \in [Node -> Nat \cup {Broken}]
    /\ entities \in [Node -> [Node -> Entry]]
    /\ saved \in [Node -> [Node -> Entry]]
    /\ hosts \in [Node -> [Node -> File]]
    /\ connectTo \in [Node -> SUBSET Node]
    /\ unreadable \subseteq Node
    /\ lost \in [Node -> SUBSET Node]
    /\ published \in [Node -> Seq(File)]
    /\ pc \in [Watches -> PC]
    /\ headers \in [Watches -> [Node -> Entry]]
    /\ call \in [Watches -> Call]
    /\ changed \in [Watches -> BOOLEAN]
    /\ failures \in Nat

-----------------------------------------------------------------------------
(* The process of a node: start-up, crash, and the operator's editor.      *)

\* Every node has been configured (tinc.conf, own host file, keys) and has
\* been given some host files; none has run yet.
Init ==
    /\ phase = [n \in Node |-> "down"]
    /\ clock = [n \in Node |-> 0]
    /\ entities = [n \in Node |-> Empty(Node)]
    /\ saved = [n \in Node |-> Empty(Node)]
    /\ hosts = [n \in Node |-> [m \in Node |->
                    IF n = m \/ <<n, m>> \in Introduced THEN 0 ELSE NoFile]]
    /\ connectTo = [n \in Node |-> {}]
    /\ unreadable = {}
    /\ lost = [n \in Node |-> {}]
    /\ published = [n \in Node |-> <<>>]
    /\ pc = [w \in Watches |-> "idle"]
    /\ headers = [w \in Watches |-> Empty(Node)]
    /\ call = [w \in Watches |-> NoCall]
    /\ changed = [w \in Watches |-> FALSE]
    /\ failures = 0

\* The operator changes the node's own host file, at any time.
EditHost(n) ==
    /\ hosts[n][n] < MaxEdition[n]
    /\ hosts' = [hosts EXCEPT ![n][n] = @ + 1]
    /\ UNCHANGED <<nodeVars, entities, confVars, published, roundVars, failures>>

\* Mutant of NextTick: the clock file is created and never advanced.
FirstTickOnly(c) == 1

\* nextTick: a clock file that does not parse counts as 0.
NextTick(c) == (IF c = Broken THEN 0 ELSE c) + 1

\* Execute reads the clock and writes the next tick, before anything else.
Tick(n) ==
    /\ phase[n] = "down"
    /\ clock[n] < MaxTick[n]
    /\ clock' = [clock EXCEPT ![n] = NextTick(@)]
    /\ phase' = [phase EXCEPT ![n] = "ticked"]
    /\ published' = [published EXCEPT ![n] = Append(@, hosts[n][n])]
    /\ UNCHANGED <<entities, saved, fileVars, roundVars, failures>>

\* WriteFile truncates the clock file and the process or the disk fails
\* before the digits are in it.
TearClock(n) ==
    /\ TornClock
    /\ phase[n] = "down"
    /\ clock[n] \notin {0, Broken}
    /\ clock' = [clock EXCEPT ![n] = Broken]
    /\ published' = [published EXCEPT ![n] = <<>>]
    /\ UNCHANGED <<phase, entities, saved, fileVars, roundVars, failures>>

\* HostNames: what the scan of the host directory finds.
FilesOf(n) == {m \in Node : hosts[n][m] # NoFile}

\* Read: there is a whole ssd file, of some save, or none and the map is empty.
ReadSSD(n) == saved[n]

\* Mutants of Restored: the ssd file is not read; the own entry is left as it
\* was saved.
RestoredFromFiles(n) == Put(PutAllUnversioned(Empty(Node), FilesOf(n)), n, clock[n])
RestoredUnclaimed(n) == PutAllUnversioned(ReadSSD(n), FilesOf(n))

\* What the map holds after Execute has read the ssd file, scanned the host
\* directory and replaced the node's own entry.
Restored(n) == Put(PutAllUnversioned(ReadSSD(n), FilesOf(n)), n, clock[n])

Fail == failures < MaxFailures /\ failures' = failures + 1

\* SaveFile of a tinc.conf that lists names leaves those of left in the file.
Rewrite(n, names, left) ==
    /\ connectTo' = [connectTo EXCEPT ![n] = left]
    /\ lost' = [lost EXCEPT ![n] = (@ \cup names) \ left]

SaveWhole(n, names) == Rewrite(n, names, names) /\ UNCHANGED unreadable

\* os.Create has truncated the file and not all of the list gets into it ...
Tear(n, names) == \E left \in SUBSET names : Rewrite(n, names, left)

\* ... and the last line may be cut into one that does not parse.
SaveTorn(n, names) == /\ Tear(n, names)
                      /\ unreadable' \in {unreadable, unreadable \cup {n}}

\* ConnectTo becomes the list of the host files.  SaveFile drops the error of
\* the deferred Flush, so a torn list passes for a whole one while it parses.
IndexHosts(n) ==
    \/ SaveWhole(n, FilesOf(n)) /\ UNCHANGED failures
    \/ Fail /\ Tear(n, FilesOf(n)) /\ UNCHANGED unreadable

\* The rest of Execute's start-up.  Nothing else runs in the process yet, so
\* a crash on the way leaves what Crash leaves before or after this step, or
\* what FailStart leaves.  A node whose tinc.conf does not parse is not
\* "Configured": it makes itself a new identity, and n does not come back.
Start(n) ==
    /\ phase[n] = "ticked"
    /\ n \notin unreadable
    /\ entities' = [entities EXCEPT ![n] = Restored(n)]
    /\ phase' = [phase EXCEPT ![n] = "up"]
    /\ UNCHANGED <<clock, hosts, published, roundVars>>
    /\ \/ /\ IndexHosts(n)
          /\ saved' = [saved EXCEPT ![n] = Restored(n)]
       \/ /\ Fail                       \* "fallback to in-memory only"
          /\ SaveWhole(n, FilesOf(n))
          /\ UNCHANGED saved

\* IndexHosts fails while it rewrites tinc.conf, Spawn cannot read what it has
\* left, or the process dies in between: Execute ends, the map has been saved.
FailStart(n) ==
    /\ phase[n] = "ticked"
    /\ n \notin unreadable
    /\ Fail
    /\ SaveTorn(n, FilesOf(n))
    /\ saved' = [saved EXCEPT ![n] = Restored(n)]
    /\ phase' = [phase EXCEPT ![n] = "down"]
    /\ UNCHANGED <<clock, entities, hosts, published, roundVars>>

\* The process ends, by a signal or a crash: the map and the rounds are gone,
\* and so are the requests the node was answering.
Crash(n) ==
    /\ phase[n] # "down"
    /\ phase' = [phase EXCEPT ![n] = "down"]
    /\ entities' = [entities EXCEPT ![n] = Empty(Node)]
    /\ pc' = [w \in Watches |->
                 CASE Me(w) = n -> "idle"
                   [] Peer(w) = n /\ pc[w] = "asked" -> "merging"
                   [] OTHER -> pc[w]]
    /\ headers' = [w \in Watches |-> IF Me(w) = n THEN Empty(Node) ELSE headers[w]]
    /\ call' = [w \in Watches |->
                   IF Me(w) = n \/ (Peer(w) = n /\ pc[w] = "asked") THEN NoCall ELSE call[w]]
    /\ changed' = [w \in Watches |-> changed[w] /\ Me(w) # n]
    /\ UNCHANGED <<clock, saved, fileVars, published, failures>>

-----------------------------------------------------------------------------
(* gatherInfo, the round of requester w, and the server that answers it.   *)

Goto(w, label) == pc' = [pc EXCEPT ![w] = label]

\* fetchHeaders against getHeaders; when it fails the round is over and
\* nothing has changed, which is no step.
FetchHeaders(w) ==
    /\ pc[w] = "idle" /\ Up(Me(w)) /\ Up(Peer(w))
    /\ headers' = [headers EXCEPT ![w] = entities[Peer(w)]]
    /\ Goto(w, "merging")
    /\ UNCHANGED <<nodeVars, entities, fileVars, published, call, changed, failures>>

Done(w, m) == headers' = [headers EXCEPT ![w][m] = Absent]

\* CanBeMerged says no.
Skip(w, m) ==
    /\ pc[w] = "merging" /\ headers[w][m] # Absent
    /\ ~ IsNewer(entities[Me(w)], m, headers[w][m])
    /\ Done(w, m)
    /\ UNCHANGED <<nodeVars, entities, fileVars, published, pc, call, changed, failures>>

\* CanBeMerged says yes, and the lock is free again.
Ask(w, m) ==
    /\ pc[w] = "merging" /\ headers[w][m] # Absent
    /\ IsNewer(entities[Me(w)], m, headers[w][m])
    /\ Done(w, m)
    /\ call' = [call EXCEPT ![w] = [NoCall EXCEPT !.name = m]]
    /\ Goto(w, "asking")
    /\ UNCHANGED <<nodeVars, entities, fileVars, published, changed, failures>>

\* getOne reads the version ("?after=-1": any) ...
ReadVersion(w) ==
    LET m == call[w].name IN
    /\ pc[w] = "asking" /\ Up(Peer(w))
    /\ After(entities[Peer(w)], m, -1)
    /\ call' = [call EXCEPT ![w].version = entities[Peer(w)][m]]
    /\ Goto(w, "asked")
    /\ UNCHANGED <<nodeVars, entities, fileVars, published, headers, changed, failures>>

\* ... and then, under another lock, the content.
ReadContent(w) ==
    LET file == hosts[Peer(w)][call[w].name] IN
    /\ pc[w] = "asked" /\ Up(Peer(w))
    /\ file # NoFile
    /\ call' = [call EXCEPT ![w].content = file]
    /\ Goto(w, "fetched")
    /\ UNCHANGED <<nodeVars, entities, fileVars, published, headers, changed, failures>>

\* fetchContent fails: the peer is gone or no longer knows the name, or the
\* request times out, is cut off, or is cancelled with its requester.
FailFetch(w) ==
    /\ pc[w] \in {"asking", "asked"}
    /\ \/ /\ ~ Up(Peer(w)) \/ ~ After(entities[Peer(w)], call[w].name, -1)
          /\ UNCHANGED failures
       \/ Fail
    /\ call' = [call EXCEPT ![w] = NoCall]
    /\ Goto(w, "merging")
    /\ UNCHANGED <<nodeVars, entities, fileVars, published, headers, changed>>

\* ReplaceIfNewer behind the short-circuit of "changed = changed || ...".
Replaces(w) == /\ ~ changed[w]
               /\ IsNewer(entities[Me(w)], call[w].name, call[w].version)

EndCall(w) == /\ call' = [call EXCEPT ![w] = NoCall]
              /\ Goto(w, "merging")

WriteHost(n, m, file) == hosts' = [hosts EXCEPT ![n][m] = file]

\* Mutants of AddHost: the content is listed for the name; nothing is listed.
AddHostSwapped(n, m, content) ==
    /\ n \notin unreadable
    /\ WriteHost(n, m, content)
    /\ SaveWhole(n, connectTo[n] \cup {content})
    /\ UNCHANGED failures
AddHostUnlisted(n, m, content) ==
    /\ n \notin unreadable
    /\ WriteHost(n, m, content)
    /\ UNCHANGED <<confVars, failures>>

\* AddHost, when it returns no error: it writes the file of m and adds m to
\* the ConnectTo list that it reads from tinc.conf, unless m is listed.
AddHost(n, m, content) ==
    /\ n \notin unreadable
    /\ WriteHost(n, m, content)
    /\ \/ m \in connectTo[n] /\ UNCHANGED <<confVars, failures>>
       \/ /\ m \notin connectTo[n]
          /\ \/ SaveWhole(n, connectTo[n] \cup {m}) /\ UNCHANGED failures
             \/ Fail /\ SaveTorn(n, connectTo[n] \cup {m})

\* The block of ReplaceIfNewer is AddHost; the entry follows it, and the map is
\* locked over both.
Merge(w) ==
    LET n == Me(w)
        m == call[w].name IN
    /\ pc[w] = "fetched" /\ Replaces(w)
    /\ AddHost(n, m, call[w].content)
    /\ entities' = [entities EXCEPT ![n] = Put(@, m, call[w].version)]
    /\ changed' = [changed EXCEPT ![w] = TRUE]
    /\ EndCall(w)
    /\ UNCHANGED <<nodeVars, published, headers>>

\* AddHost writes the host file and then cannot read a tinc.conf that was torn
\* before: nothing is recorded, now and at every later try.
RefuseMerge(w) ==
    LET n == Me(w)
        m == call[w].name IN
    /\ pc[w] = "fetched" /\ Replaces(w)
    /\ n \in unreadable
    /\ WriteHost(n, m, call[w].content)
    /\ EndCall(w)
    /\ UNCHANGED <<nodeVars, entities, confVars, published, headers, changed, failures>>

\* Mutant of FailMerge: the error of AddHost does not reach ReplaceIfNewer.
FailMergeRecorded(w) ==
    LET n == Me(w)
        m == call[w].name IN
    /\ pc[w] = "fetched" /\ Replaces(w)
    /\ Fail
    /\ entities' = [entities EXCEPT ![n] = Put(@, m, call[w].version)]
    /\ EndCall(w)
    /\ UNCHANGED <<nodeVars, fileVars, published, headers, changed>>

\* AddHost fails: it could not open the host file, or not write it out, or
\* not open tinc.conf after it, or not close what it wrote of it.  With a Crash
\* after it, this is also the crash in the middle of AddHost.
FailMerge(w) ==
    LET n == Me(w)
        m == call[w].name IN
    /\ pc[w] = "fetched" /\ Replaces(w)
    /\ Fail
    /\ \/ /\ \E file \in {hosts[n][m], Torn, call[w].content} : WriteHost(n, m, file)
          /\ UNCHANGED confVars
       \/ /\ n \notin unreadable /\ m \notin connectTo[n]
          /\ WriteHost(n, m, call[w].content)
          /\ SaveTorn(n, connectTo[n] \cup {m})
    /\ EndCall(w)
    /\ UNCHANGED <<nodeVars, entities, published, headers, changed>>

\* Mutant of Discard: "changed = ReplaceIfNewer(...)", the last result counts.
DiscardForgetting(w) ==
    /\ pc[w] = "fetched" /\ ~ Replaces(w)
    /\ EndCall(w)
    /\ changed' = [changed EXCEPT ![w] = FALSE]
    /\ UNCHANGED <<nodeVars, entities, fileVars, published, headers, failures>>

\* What was fetched is dropped: no longer newer, or the second of the round.
Discard(w) ==
    /\ pc[w] = "fetched" /\ ~ Replaces(w)
    /\ EndCall(w)
    /\ UNCHANGED <<nodeVars, entities, fileVars, published, headers, changed, failures>>

RoundDone(w) == pc[w] = "merging" /\ Header(headers[w]) = {}

EndRound(w) ==
    /\ RoundDone(w) /\ ~ changed[w]
    /\ Goto(w, "idle")
    /\ UNCHANGED <<nodeVars, entities, fileVars, published, headers, call, changed, failures>>

\* Mutant of SaveRound: "changed" outlives the round.
SaveRoundKeeping(w) ==
    /\ RoundDone(w) /\ changed[w]
    /\ saved' = [saved EXCEPT ![Me(w)] = entities[Me(w)]]
    /\ Goto(w, "idle")
    /\ UNCHANGED <<phase, clock, entities, fileVars, published, headers, call, changed, failures>>

\* Save writes the whole map as it is now, not what this round put into it.
SaveRound(w) ==
    /\ RoundDone(w) /\ changed[w]
    /\ saved' = [saved EXCEPT ![Me(w)] = entities[Me(w)]]
    /\ changed' = [changed EXCEPT ![w] = FALSE]
    /\ Goto(w, "idle")
    /\ UNCHANGED <<phase, clock, entities, fileVars, published, headers, call, failures>>

\* Save fails; the ssd file is swapped by a rename, so it keeps what it had.
FailSave(w) ==
    /\ RoundDone(w) /\ changed[w]
    /\ Fail
    /\ changed' = [changed EXCEPT ![w] = FALSE]
    /\ Goto(w, "idle")
    /\ UNCHANGED <<nodeVars, entities, fileVars, published, headers, call>>

-----------------------------------------------------------------------------
Operator(n) == EditHost(n)
Process(n) == Tick(n) \/ TearClock(n) \/ Start(n) \/ FailStart(n) \/ Crash(n)

\* What the requester does when nothing is in its way.
Progress(w) == \/ FetchHeaders(w)
               \/ \E m \in Node : Skip(w, m) \/ Ask(w, m)
               \/ ReadVersion(w) \/ ReadContent(w)
               \/ Merge(w) \/ RefuseMerge(w) \/ Discard(w)
               \/ EndRound(w) \/ SaveRound(w)

Next == \/ \E n \in Node : Operator(n) \/ Process(n)
        \/ \E w \in Watches : Progress(w) \/ FailFetch(w) \/ FailMerge(w) \/ FailSave(w)

Spec == Init /\ [][Next]_vars

\* A requester's goroutine is scheduled and its ticker ticks (runLoop); a call
\* that cannot be answered ends by its timeout.
Fairness == \A w \in Watches : WF_vars(Progress(w) \/ FailFetch(w))

FairSpec == Spec /\ Fairness

-----------------------------------------------------------------------------
(* Safety.                                                                 *)

\* A version says something about a host file: the file is at least what the
\* owner had when it issued the version, or it was torn by a write of a later
\* version, which is then there to be fetched.  Version 0 says nothing.
Backs(file, m, v) == \/ v <= 0
                     \/ file >= published[m][v]
                     \/ file = Torn /\ v < clock[m]

\* Whatever a node claims about a name, in memory or after a restart, its host
\* directory backs: AddHost runs before the entry is recorded, getOne reads
\* the version before the content, and a failed AddHost records nothing.
Backed == \A n, m \in Node : /\ Backs(hosts[n][m], m, entities[n][m])
                             /\ Backs(hosts[n][m], m, saved[n][m])

\* A name that a running node serves is in its ConnectTo list, so that tincd
\* connects to it after the next start or reload (AddHost, IndexHosts), but for
\* the very names that a torn write of tinc.conf took; what is merged after the
\* tear is listed again, and the next IndexHosts lists all.
Connected == \A n \in Node :
                Up(n) => Header(entities[n]) \subseteq connectTo[n] \cup lost[n]

\* A merge is not lost: unless a save has failed, the ssd file of a running
\* node has every entry of its map, or a round that will save it is under way.
Durable == \A n \in Node :
              Up(n) /\ failures = 0 =>
                 \/ saved[n] = entities[n]
                 \/ \E w \in Watches : Me(w) = n /\ changed[w]

\* A node is the only writer of its own host file: no step of discovery
\* replaces it by what a peer has kept of it.
OwnFileKept == [][\A n \in Node : hosts'[n][n] >= hosts[n][n]]_vars

\* The ssd file of a node never goes back to an older version of a name,
\* whichever requester saves last and whatever was lost in between.
SavedGrows == [][\A n, m \in Node : saved'[n][m] >= saved[n][m]]_vars

\* The version "must always grow" (type Entity): a node that starts claims a
\* version of its own that is newer than any it has claimed before.
VersionGrows ==
    [][\A n \in Node : ~ Up(n) /\ Up(n)' => entities'[n][n] > saved[n][n]]_vars

\* The map is what SingleSource promises: versions have one source, no entry
\* is ahead of it, and a running node's map only grows.
Promise == INSTANCE SingleSource WITH latest <- clock, view <- entities
ImplementsSingleSource == Promise!Spec

-----------------------------------------------------------------------------
(* Liveness.                                                               *)

\* Every node runs, with a tinc.conf that AddHost can read.
Settled == unreadable = {} /\ \A n \in Node : Up(n)

\* The nodes that n can hear of, through whatever chain of watches.
Reach(n) == {m \in Node : \A S \in SUBSET Node :
                n \in S /\ (\A w \in Watches : Me(w) \in S => Peer(w) \in S) => m \in S}

\* Of every node it can hear of, a node has the latest version and the host
\* file that the version was issued for, or a newer one.
Latest == \A n \in Node : \A m \in Reach(n) :
             /\ clock[m] \in DOMAIN published[m]
             /\ entities[n][m] = clock[m]
             /\ hosts[n][m] >= published[m][clock[m]]

\* When the nodes stay up, every node ends up with the latest version of every
\* node it can hear of, and with its host file, one merge a round or not, after
\* any failures that leave tinc.conf readable.  Not after a torn clock file:
\* DiscoveryTornClock.cfg shows how the versions go back.
Convergence == [](\A n \in Node : clock[n] # Broken) /\ <>[]Settled => <>[]Latest
=============================================================================
