----------------------------- MODULE TincDaemon -----------------------------
(***************************************************************************)
(* daemon.Daemon of one node with its discovery service as the subscriber  *)
(* of its events: the goroutine that runs tincd again and again, the       *)
(* scanner that reads what tincd prints and calls the handlers, the HTTP   *)
(* server that the handlers start and stop, the requesters that they watch *)
(* and forget, and the signal that makes tincd load its hosts again.       *)
(*                                                                         *)
(* The handlers run in two goroutines: Stopped in the one that runs tincd, *)
(* the others in the scanner.  A line of output is Ready or a subnet that  *)
(* came or went; run r's HTTP server and its done channel are number r.    *)
(***************************************************************************)
EXTENDS Naturals, Sequences

CONSTANTS
    Subnet,      \* subnets that tincd reports
    AddressOf,   \* AddressOf[x]: the address in front of the mask
    MaxRuns,     \* bound: how often tincd is started
    MaxLines     \* bound: lines between tincd and the scanner (pipe, buffer)

ASSUME AddressAssumption == DOMAIN AddressOf = Subnet
ASSUME RunsAssumption == MaxRuns \in Nat \ {0} /\ MaxLines \in Nat \ {0}

Address == {AddressOf[x] : x \in Subnet}
Run == 1..MaxRuns
Nil == 0   \* httpServer.server and httpServer.done before the first Configured

Line == [kind : {"ready"}] \cup [kind : {"add", "del"}, subnet : Subnet]

VARIABLES
    cancelled,  \* the context of Spawn: Stop was called, or a signal came
    runPC,      \* the goroutine of runLoop
    runs,       \* the number of the current run
    tincd,      \* whether the process runs
    said,       \* whether it has printed Ready
    lines,      \* what it has printed and the scanner has not handled
    scanPC,     \* the scanner of this run
    routes,     \* the scanner's map
    server,     \* ds.httpServer.server
    done,       \* ds.httpServer.done
    awaited,    \* the done channel that Stopped waits for
    closed,     \* the servers that Stopped has closed
    http,       \* http[r]: the goroutine that serves with server r
    watched,    \* the addresses in client.requesters
    leaving,    \* leaving[a]: cancelled requesters of a that are not done
    reload,     \* reloadSignal, a channel of one
    hup,        \* whether this run's goroutine that turns it into SIGHUP runs
    stale       \* host files have changed since tincd loaded them

procVars == <<runPC, runs, tincd, said>>
scanVars == <<lines, scanPC, routes>>
httpVars == <<server, done, awaited, closed, http>>
reqVars == <<watched, leaving>>
reloadVars == <<reload, hup, stale>>
vars == <<cancelled, procVars, scanVars, httpVars, reqVars, reloadVars>>

RunPC == {"start", "running", "stopping", "closed", "awaiting", "draining", "restarting", "finished"}
ScanPC == {"none", "scanning", "setup", "configuring", "forgetting"}
HttpState == {"none", "spawned", "listening", "ended"}

TypeOK ==
    /\ cancelled \in BOOLEAN /\ tincd \in BOOLEAN /\ said \in BOOLEAN
    /\ runPC \in RunPC /\ scanPC \in ScanPC
    /\ runs \in {Nil} \cup Run
    /\ lines \in Seq(Line)
    /\ routes \subseteq Subnet
    /\ {server, done, awaited} \subseteq {Nil} \cup Run
    /\ closed \subseteq Run
    /\ http \in [Run -> HttpState]
    /\ watched \subseteq Address
    /\ leaving \in [Address -> Nat]
    /\ reload \in BOOLEAN /\ hup \in BOOLEAN /\ stale \in BOOLEAN

Init ==
    /\ cancelled = FALSE /\ tincd = FALSE /\ said = FALSE
    /\ runPC = "start" /\ scanPC = "none"
    /\ runs = 0
    /\ lines = <<>>
    /\ routes = {}
    /\ server = Nil /\ done = Nil /\ awaited = Nil /\ closed = {}
    /\ http = [r \in Run |-> "none"]
    /\ watched = {}
    /\ leaving = [a \in Address |-> 0]
    /\ reload = FALSE /\ hup = FALSE /\ stale = FALSE

-----------------------------------------------------------------------------
(* tincd and the rest of the program.                                      *)

Output(line) == /\ tincd
               /\ Len(lines) < MaxLines
               /\ lines' = Append(lines, line)
               /\ UNCHANGED <<cancelled, runPC, runs, tincd, scanPC, routes, httpVars, reqVars, reloadVars>>

Ready == /\ ~ said
         /\ said' = TRUE
         /\ Output([kind |-> "ready"])

Report(x) == \E k \in {"add", "del"} :
                /\ Output([kind |-> k, subnet |-> x])
                /\ UNCHANGED said

\* tincd ends by itself.  The last run is the one that does not.
Fail == /\ tincd
        /\ runs < MaxRuns
        /\ tincd' = FALSE
        /\ UNCHANGED <<cancelled, runPC, runs, said, scanVars, httpVars, reqVars, reloadVars>>

\* CommandContext kills it when the context is cancelled.
Kill == /\ tincd /\ cancelled
        /\ tincd' = FALSE
        /\ UNCHANGED <<cancelled, runPC, runs, said, scanVars, httpVars, reqVars, reloadVars>>

Stop == /\ ~ cancelled
        /\ cancelled' = TRUE
        /\ UNCHANGED <<procVars, scanVars, httpVars, reqVars, reloadVars>>

\* Mutant of Reload: an unbuffered channel, and nobody is receiving.
ReloadUnbuffered ==
    /\ stale' = TRUE
    /\ UNCHANGED <<cancelled, procVars, scanVars, httpVars, reqVars, reload, hup>>

\* A host file is added and Reload called (Joined, Complete); the send does
\* nothing when a signal is in the channel already.
Reload == /\ stale' = TRUE
          /\ reload' = TRUE
          /\ UNCHANGED <<cancelled, procVars, scanVars, httpVars, reqVars, hup>>

-----------------------------------------------------------------------------
(* runLoop and run.                                                        *)

\* cmd.Start: tincd reads its configuration, the scanner starts afresh.
Start == /\ runPC = "start"
         /\ ~ cancelled
         /\ runs < MaxRuns
         /\ runs' = runs + 1
         /\ runPC' = "running"
         /\ tincd' = TRUE /\ said' = FALSE
         /\ scanPC' = "scanning" /\ lines' = <<>> /\ routes' = {}
         /\ hup' = TRUE /\ stale' = FALSE
         /\ UNCHANGED <<cancelled, httpVars, reqVars, reload>>

\* cmd.Start fails, at the latest because the context is cancelled.
StartFails == /\ runPC = "start"
              /\ cancelled \/ runs + 1 < MaxRuns
              /\ runs' = IF runs < MaxRuns THEN runs + 1 ELSE runs
              /\ runPC' = "stopping"
              /\ said' = FALSE
              /\ scanPC' = "scanning" /\ lines' = <<>> /\ routes' = {}
              /\ UNCHANGED <<cancelled, tincd, httpVars, reqVars, reloadVars>>

\* cmd.Wait returns: the process is gone and its output is in the pipe.
Waited == /\ runPC = "running" /\ ~ tincd
          /\ runPC' = "stopping"
          /\ UNCHANGED <<cancelled, runs, tincd, said, scanVars, httpVars, reqVars, reloadVars>>

\* Mutant of StoppedClose: no test for a server that was never made.
StoppedCloseNil ==
    /\ runPC = "stopping"
    /\ runPC' = "closed" /\ closed' = closed \cup {server}
    /\ UNCHANGED <<cancelled, runs, tincd, said, scanVars, server, done, awaited, http, reqVars, reloadVars>>

\* The handler Stopped: close the server there is now ...
StoppedClose ==
    /\ runPC = "stopping"
    /\ IF server = Nil
       THEN runPC' = "draining" /\ UNCHANGED closed
       ELSE runPC' = "closed" /\ closed' = closed \cup {server}
    /\ UNCHANGED <<cancelled, runs, tincd, said, scanVars, server, done, awaited, http, reqVars, reloadVars>>

\* ... read the channel there is now ...
StoppedRead ==
    /\ runPC = "closed"
    /\ awaited' = done
    /\ runPC' = "awaiting"
    /\ UNCHANGED <<cancelled, runs, tincd, said, scanVars, server, done, closed, http, reqVars, reloadVars>>

\* ... and wait until it is closed, for ever if it is nil.
StoppedDone ==
    /\ runPC = "awaiting"
    /\ awaited # Nil /\ http[awaited] = "ended"
    /\ runPC' = "draining"
    /\ UNCHANGED <<cancelled, runs, tincd, said, scanVars, httpVars, reqVars, reloadVars>>

\* The pipe is closed, and the wait group waits for the scanner's end of file
\* and the goroutine of the signals.
Drained == /\ runPC = "draining" /\ ~ hup
           /\ scanPC = "scanning" /\ lines = <<>>
           /\ runPC' = "restarting"
           /\ scanPC' = "none"
           /\ UNCHANGED <<cancelled, runs, tincd, said, lines, routes, httpVars, reqVars, reloadVars>>

\* Mutant of Again: only the timer is waited for.
AgainForEver == /\ runPC = "restarting"
                /\ runPC' = "start"
                /\ UNCHANGED <<cancelled, runs, tincd, said, scanVars, httpVars, reqVars, reloadVars>>

\* The select: the timer of RestartInterval or the context, which is ready at
\* once when it was cancelled before.
Again == /\ runPC = "restarting"
         /\ runPC' = IF cancelled THEN "finished" ELSE "start"
         /\ UNCHANGED <<cancelled, runs, tincd, said, scanVars, httpVars, reqVars, reloadVars>>

\* The goroutine beside cmd.Wait turns the signal into a SIGHUP, which fails
\* when the process is gone.
Hup == /\ hup /\ reload
       /\ reload' = FALSE
       /\ stale' = (stale /\ ~ tincd)
       /\ UNCHANGED <<cancelled, procVars, scanVars, httpVars, reqVars, hup>>

\* After cmd.Wait it is told to end; a signal may still come first.
HupEnds == /\ hup /\ runPC # "running"
           /\ hup' = FALSE
           /\ UNCHANGED <<cancelled, procVars, scanVars, httpVars, reqVars, reload, stale>>

-----------------------------------------------------------------------------
(* The scanner and the handlers it calls.                                  *)

Reads(kind) == /\ scanPC = "scanning"
               /\ lines # <<>> /\ Head(lines).kind = kind

NextLine == lines' = Tail(lines)

\* SubnetAdded: Watch, unless the address is watched already.
ScanAdd == LET x == Head(lines).subnet IN
           /\ Reads("add")
           /\ NextLine
           /\ IF x \in routes
              THEN UNCHANGED <<routes, watched>>
              ELSE /\ watched' = watched \cup {AddressOf[x]}
                   /\ routes' = routes \cup {x}
           /\ UNCHANGED <<cancelled, procVars, scanPC, httpVars, leaving, reloadVars>>

\* Mutants of ScanDel: Forget cancels the requester and leaves it in the map;
\* Forget does not wait for the requester.
ScanDelKeeping ==
    LET a == AddressOf[Head(lines).subnet] IN
    /\ Reads("del") /\ Head(lines).subnet \in routes
    /\ NextLine
    /\ routes' = routes \ {Head(lines).subnet}
    /\ leaving' = [leaving EXCEPT ![a] = @ + 1]
    /\ UNCHANGED <<cancelled, procVars, scanPC, httpVars, watched, reloadVars>>
ScanDelHasty ==
    LET a == AddressOf[Head(lines).subnet] IN
    /\ Reads("del") /\ Head(lines).subnet \in routes
    /\ NextLine
    /\ routes' = routes \ {Head(lines).subnet}
    /\ watched' = watched \ {a}
    /\ leaving' = IF a \in watched THEN [leaving EXCEPT ![a] = @ + 1] ELSE leaving
    /\ UNCHANGED <<cancelled, procVars, scanPC, httpVars, reloadVars>>

\* SubnetRemoved: Forget takes the requester out of the map, cancels it, and
\* waits; the line stays at the head until then.
ScanDel == LET x == Head(lines).subnet
               a == AddressOf[x] IN
           /\ Reads("del")
           /\ IF x \in routes /\ a \in watched
              THEN /\ watched' = watched \ {a}
                   /\ leaving' = [leaving EXCEPT ![a] = @ + 1]
                   /\ scanPC' = "forgetting"
                   /\ UNCHANGED <<lines, routes>>
              ELSE /\ NextLine
                   /\ routes' = routes \ {x}
                   /\ UNCHANGED <<scanPC, reqVars>>
           /\ UNCHANGED <<cancelled, procVars, httpVars, reloadVars>>

Forgotten == LET x == Head(lines).subnet IN
             /\ scanPC = "forgetting"
             /\ leaving[AddressOf[x]] = 0
             /\ NextLine
             /\ routes' = routes \ {x}
             /\ scanPC' = "scanning"
             /\ UNCHANGED <<cancelled, procVars, httpVars, reqVars, reloadVars>>

\* gatherInfo ends and runLoop sees the cancelled context.
Leave(a) == /\ leaving[a] > 0
            /\ leaving' = [leaving EXCEPT ![a] = @ - 1]
            /\ UNCHANGED <<cancelled, procVars, scanVars, httpVars, watched, reloadVars>>

\* Ready: setupNetwork, which runs two commands and may fail ...
ScanReady == /\ Reads("ready")
             /\ NextLine
             /\ scanPC' = "setup"
             /\ UNCHANGED <<cancelled, procVars, routes, httpVars, reqVars, reloadVars>>

SetupFails == /\ scanPC = "setup"
              /\ runs < MaxRuns
              /\ scanPC' = "scanning"
              /\ UNCHANGED <<cancelled, procVars, lines, routes, httpVars, reqVars, reloadVars>>

\* ... and then Configured: a new server, ...
ConfiguredServer == /\ scanPC = "setup"
                    /\ server' = runs
                    /\ scanPC' = "configuring"
                    /\ UNCHANGED <<cancelled, procVars, lines, routes, done, awaited, closed, http, reqVars, reloadVars>>

\* Mutant of ConfiguredDone: one http.Server for all runs, closed or not.
ConfiguredSame ==
    /\ scanPC = "configuring"
    /\ done' = runs
    /\ http' = [http EXCEPT ![runs] = IF closed = {} THEN "spawned" ELSE "ended"]
    /\ scanPC' = "scanning"
    /\ UNCHANGED <<cancelled, procVars, lines, routes, server, awaited, closed, reqVars, reloadVars>>

\* ... a new channel, and a goroutine that serves.
ConfiguredDone ==
    /\ scanPC = "configuring"
    /\ done' = runs
    /\ http' = [http EXCEPT ![runs] = "spawned"]
    /\ scanPC' = "scanning"
    /\ UNCHANGED <<cancelled, procVars, lines, routes, server, awaited, closed, reqVars, reloadVars>>

\* ListenAndServe, which fails at once if the server has been closed in the
\* meantime or the port is another server's.
Listening == {r \in Run \ closed : http[r] = "listening"}

Listen(r) ==
    /\ http[r] = "spawned"
    /\ http' = [http EXCEPT ![r] =
                   IF r \in closed \/ Listening # {} THEN "ended" ELSE "listening"]
    /\ UNCHANGED <<cancelled, procVars, scanVars, server, done, awaited, closed, reqVars, reloadVars>>

\* ListenAndServe returns after Close; the goroutine closes its channel.
Unlisten(r) ==
    /\ http[r] = "listening" /\ r \in closed
    /\ http' = [http EXCEPT ![r] = "ended"]
    /\ UNCHANGED <<cancelled, procVars, scanVars, server, done, awaited, closed, reqVars, reloadVars>>

-----------------------------------------------------------------------------
RunLoop == Start \/ Waited \/ StoppedClose \/ StoppedRead \/ StoppedDone \/ Drained \/ Again
Scanner == \/ ScanAdd \/ ScanDel \/ Forgotten
           \/ ScanReady \/ ConfiguredServer \/ ConfiguredDone
Outside == Ready \/ (\E x \in Subnet : Report(x)) \/ Fail \/ Kill \/ Stop \/ Reload

Next == \/ RunLoop \/ StartFails
        \/ Scanner \/ SetupFails
        \/ \E r \in Run : Listen(r) \/ Unlisten(r)
        \/ \E a \in Address : Leave(a)
        \/ Hup \/ HupEnds
        \/ Outside

Spec == Init /\ [][Next]_vars

\* The goroutines are scheduled, cmd.Wait returns, a killed process dies and
\* timers fire.  Nothing makes tincd print a line or fail, or anybody stop the
\* daemon.
Fairness == /\ WF_vars(RunLoop \/ StartFails)
            /\ WF_vars(Scanner)
            /\ \A r \in Run : WF_vars(Listen(r) \/ Unlisten(r))
            /\ \A a \in Address : WF_vars(Leave(a))
            /\ WF_vars(Hup) /\ WF_vars(HupEnds)
            /\ WF_vars(Kill)

FairSpec == Spec /\ Fairness

-----------------------------------------------------------------------------
\* No address is polled by two requesters at a time, across restarts of tincd
\* and subnets that come and go: Forget waits, and a run waits for its scanner.
OneRequester == \A a \in Address :
                   leaving[a] + (IF a \in watched THEN 1 ELSE 0) <= 1

\* The peers that tincd has routes to are polled: a requester that an earlier
\* run started still serves, one that was forgotten is started anew.  (For
\* subnets with addresses of their own.)
RoutedWatched ==
    \A x \in routes : \/ /\ AddressOf[x] \in watched
                          /\ leaving[AddressOf[x]] = 0
                       \/ /\ scanPC = "forgetting"
                          /\ Head(lines).subnet = x

\* The goroutine of runLoop is not stuck in Stopped (it can be: see
\* RestartsOnFailure).
NotStuck == <>[](runPC # "awaiting")

\* A host file that was added reaches tincd: by the SIGHUP of this Reload, of
\* one before it that is still in the channel, or by the next start.
HostsReachTincd == NotStuck => (stale ~> (~ stale \/ cancelled))

\* Once the interface is configured the node's discovery server answers, its
\* own or one that an earlier run left behind, until tincd ends.
Serves == \A r \in Run : (scanPC = "configuring" /\ runs = r) ~> (Listening # {} \/ ~ tincd)

\* "Once spawned it will restart on every failure till Stop() will be called."
RestartsOnFailure == ~ tincd ~> (tincd \/ cancelled)

\* Stop: "Stop and wait for finish", with the same exception.
StopFinishes == NotStuck => (cancelled ~> runPC = "finished")
=============================================================================
