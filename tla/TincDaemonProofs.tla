-------------------------- MODULE TincDaemonProofs --------------------------
(***************************************************************************)
(* Proofs about the daemon's requesters, for any subnets and any number of *)
(* runs and lines.  They rest on one thing: a requester that was cancelled *)
(* keeps the scanner, and with it the run, where it is until it has left.  *)
(***************************************************************************)
EXTENDS TincDaemon, TLAPS

\* The scanner is there from cmd.Start until the run has waited for it.
ScannerRuns == scanPC = "none" <=> runPC \in {"start", "restarting", "finished"}

\* Who waits in Forget has the line of its subnet at the head.
Forgetting == scanPC = "forgetting" => lines # <<>> /\ Head(lines).kind = "del"

\* Nobody is leaving but the requester that the scanner waits for.
OnlyForgotten ==
    \A a \in Address : leaving[a] # 0 =>
       /\ leaving[a] = 1 /\ a \notin watched
       /\ scanPC = "forgetting" /\ a = AddressOf[Head(lines).subnet]

IInv == TypeOK /\ ScannerRuns /\ Forgetting /\ OnlyForgotten

\* A line that speaks of a subnet has one, and its address.
LEMMA Subnets ==
    ASSUME TypeOK, lines # <<>>
    PROVE  /\ Head(lines) \in Line /\ Tail(lines) \in Seq(Line)
           /\ Head(lines).kind \in {"add", "del"} =>
                 /\ Head(lines).subnet \in Subnet
                 /\ AddressOf[Head(lines).subnet] \in Address
<1>1. Head(lines) \in Line /\ Tail(lines) \in Seq(Line)
  BY DEF TypeOK
<1>2. Head(lines).kind \in {"add", "del"} => Head(lines).subnet \in Subnet
  BY <1>1 DEF Line
<1> QED
  BY <1>1, <1>2 DEF Address

\* What tincd prints goes behind what it has printed.
LEMMA Prints ==
    ASSUME TypeOK, NEW line \in Line, Output(line)
    PROVE  /\ lines' \in Seq(Line)
           /\ lines # <<>> => lines' # <<>> /\ Head(lines') = Head(lines)
  BY DEF TypeOK, Output

\* Initially nothing runs.
LEMMA InvInit == Init => IInv
<1>1. Init => TypeOK
  <2>1. <<>> \in Seq(Line)
    OBVIOUS
  <2>2. Init => /\ runPC \in RunPC /\ scanPC \in ScanPC
                /\ http \in [Run -> HttpState] /\ leaving \in [Address -> Nat]
    BY DEF Init, RunPC, ScanPC, HttpState
  <2>3. Init => /\ runs \in {Nil} \cup Run /\ {server, done, awaited} \subseteq {Nil} \cup Run
                /\ closed \subseteq Run /\ routes \subseteq Subnet /\ watched \subseteq Address
    BY DEF Init, Nil
  <2> QED
    BY <2>1, <2>2, <2>3 DEF Init, TypeOK
<1>2. Init => ScannerRuns /\ Forgetting /\ OnlyForgotten
  BY DEF Init, ScannerRuns, Forgetting, OnlyForgotten
<1> QED
  BY <1>1, <1>2 DEF IInv

\* Lines come from tincd.
LEMMA InvOutside == ASSUME IInv, Outside PROVE IInv'
<1> USE DEF IInv, ScannerRuns, Forgetting, OnlyForgotten
<1>1. ASSUME NEW line \in Line, Output(line), said' \in BOOLEAN PROVE IInv'
  <2>1. TypeOK'
    BY <1>1, Prints DEF TypeOK, Output, httpVars, reqVars, reloadVars
  <2> QED
    BY <1>1, <2>1, Prints DEF Output, reqVars
<1>2. CASE Ready
  <2>1. [kind |-> "ready"] \in Line
    BY DEF Line
  <2> QED
    BY <1>1, <1>2, <2>1 DEF Ready
<1>3. ASSUME NEW x \in Subnet, Report(x) PROVE IInv'
  <2>1. PICK k \in {"add", "del"} : Output([kind |-> k, subnet |-> x]) /\ UNCHANGED said
    BY <1>3 DEF Report
  <2>2. [kind |-> k, subnet |-> x] \in Line
    BY DEF Line
  <2> QED
    BY <1>1, <2>1, <2>2 DEF TypeOK
<1>4. CASE Fail \/ Kill
  BY <1>4 DEF Fail, Kill, TypeOK, procVars, scanVars, httpVars, reqVars, reloadVars
<1>5. CASE Stop \/ Reload
  BY <1>5 DEF Stop, Reload, TypeOK, procVars, scanVars, httpVars, reqVars, reloadVars
<1> QED
  BY <1>2, <1>3, <1>4, <1>5 DEF Outside

\* The goroutine of runLoop, and the goroutine of its signals.
LEMMA InvRunLoop == ASSUME IInv, RunLoop \/ StartFails \/ Hup \/ HupEnds PROVE IInv'
<1> USE RunsAssumption
    DEF IInv, TypeOK, ScannerRuns, Forgetting, OnlyForgotten, RunPC, ScanPC, Run, Nil,
        procVars, scanVars, httpVars, reqVars, reloadVars
<1>1. ASSUME runs' \in {Nil} \cup Run PROVE Start \/ StartFails => IInv'
  <2>1. <<>> \in Seq(Line)
    OBVIOUS
  <2>2. Start \/ StartFails => TypeOK'
    BY <1>1, <2>1 DEF Start, StartFails
  <2>3. Start \/ StartFails => ScannerRuns' /\ Forgetting'
    BY DEF Start, StartFails
  <2>4. Start \/ StartFails => OnlyForgotten'
    BY DEF Start, StartFails
  <2> QED
    BY <2>2, <2>3, <2>4
<1>2. CASE Start
  <2>1. runs' \in {Nil} \cup Run
    BY <1>2 DEF Start
  <2> QED
    BY <1>1, <1>2, <2>1
<1>3. CASE StartFails
  <2>1. runs' \in {Nil} \cup Run
    BY <1>3 DEF StartFails
  <2> QED
    BY <1>1, <1>3, <2>1
<1>4. CASE Waited
  BY <1>4 DEF Waited
<1>5. CASE StoppedClose
  BY <1>5, ZenonT(40) DEF StoppedClose
<1>6. CASE StoppedRead
  BY <1>6 DEF StoppedRead
<1>7. CASE StoppedDone
  BY <1>7 DEF StoppedDone
<1>8. CASE Drained
  BY <1>8 DEF Drained
<1>9. CASE Again
  BY <1>9 DEF Again
<1>10. CASE Hup \/ HupEnds
  BY <1>10, ZenonT(40) DEF Hup, HupEnds
<1> QED
  BY <1>2, <1>3, <1>4, <1>5, <1>6, <1>7, <1>8, <1>9, <1>10 DEF RunLoop

\* The scanner with its handlers, the servers and the requesters.
LEMMA InvScanner ==
    ASSUME IInv,
           \/ Scanner \/ SetupFails
           \/ \E r \in Run : Listen(r) \/ Unlisten(r)
           \/ \E a \in Address : Leave(a)
    PROVE  IInv'
<1> USE DEF IInv, TypeOK, ScannerRuns, Forgetting, OnlyForgotten, RunPC, ScanPC, Reads, NextLine,
            procVars, scanVars, httpVars, reqVars, reloadVars
<1>1. CASE ScanAdd
  <2>1. lines # <<>> /\ Head(lines).kind = "add" /\ scanPC = "scanning"
    BY <1>1 DEF ScanAdd
  <2> QED
    BY <1>1, <2>1, Subnets DEF ScanAdd
<1>2. CASE ScanDel
  <2>1. lines # <<>> /\ Head(lines).kind = "del" /\ scanPC = "scanning"
    BY <1>2 DEF ScanDel
  <2> QED
    BY <1>2, <2>1, Subnets, SMTT(30) DEF ScanDel
<1>3. CASE Forgotten
  BY <1>3, Subnets DEF Forgotten
<1>4. CASE ScanReady
  BY <1>4, Subnets DEF ScanReady
<1>5. CASE ConfiguredServer
  BY <1>5 DEF ConfiguredServer
<1>6. CASE ConfiguredDone
  BY <1>6, ZenonT(40) DEF ConfiguredDone, HttpState
<1>7. CASE SetupFails
  BY <1>7 DEF SetupFails
<1>8. ASSUME NEW r \in Run, Listen(r) \/ Unlisten(r) PROVE IInv'
  BY <1>8 DEF Listen, Unlisten, HttpState
<1>9. ASSUME NEW a \in Address, Leave(a) PROVE IInv'
  BY <1>9 DEF Leave
<1> QED
  BY <1>1, <1>2, <1>3, <1>4, <1>5, <1>6, <1>7, <1>8, <1>9 DEF Scanner

\* Every step keeps the invariant.
LEMMA InvNext == ASSUME IInv, [Next]_vars PROVE IInv'
<1>1. CASE UNCHANGED vars
  BY <1>1 DEF vars, procVars, scanVars, httpVars, reqVars, reloadVars, IInv, TypeOK, ScannerRuns,
              Forgetting, OnlyForgotten
<1> QED
  BY <1>1, InvOutside, InvRunLoop, InvScanner DEF Next

\* Every reachable state of TincDaemon has its types.
THEOREM DaemonTypes == Spec => []TypeOK
<1>1. IInv => TypeOK
  BY DEF IInv
<1> QED
  BY <1>1, InvInit, InvNext, PTL DEF Spec

\* No address is polled by two requesters at a time, whatever the subnets share,
\* over any number of runs (Client.Forget, Daemon.run).
THEOREM OneRequesterAlways == Spec => []OneRequester
<1>1. IInv => OneRequester
  BY DEF IInv, TypeOK, OnlyForgotten, OneRequester
<1> QED
  BY <1>1, InvInit, InvNext, PTL DEF Spec

-----------------------------------------------------------------------------
(* Addresses of their own.  Two subnets with the same address before the   *)
(* mask share a requester, and what follows does not hold of them.         *)

OwnAddresses == \A x, y \in Subnet : AddressOf[x] = AddressOf[y] => x = y

\* A step of the scanner keeps the routes and the requesters together.
LEMMA RoutedScanner ==
    ASSUME OwnAddresses, IInv, RoutedWatched, Scanner
    PROVE  RoutedWatched'
<1> USE DEF IInv, TypeOK, OwnAddresses, RoutedWatched, Reads, NextLine,
            procVars, scanVars, httpVars, reqVars, reloadVars
<1>1. CASE ScanAdd
  <2> DEFINE x == Head(lines).subnet
  <2>1. x \in Subnet /\ AddressOf[x] \in Address /\ scanPC = "scanning" /\ scanPC' = "scanning"
    BY <1>1, Subnets DEF ScanAdd
  <2>2. \A a \in Address : leaving[a] = 0
    BY <2>1 DEF OnlyForgotten
  <2> QED
    BY <1>1, <2>1, <2>2 DEF ScanAdd
<1>2. CASE ScanDel
  <2> DEFINE x == Head(lines).subnet
             a == AddressOf[x]
  <2>1. x \in Subnet /\ a \in Address /\ scanPC = "scanning"
    BY <1>2, Subnets DEF ScanDel
  <2>2. CASE x \in routes /\ a \in watched
    <3>1. /\ watched' = watched \ {a} /\ routes' = routes /\ lines' = lines
          /\ leaving' = [leaving EXCEPT ![a] = @ + 1] /\ scanPC' = "forgetting"
      BY <1>2, <2>2 DEF ScanDel
    <3>2. ASSUME NEW y \in routes, y # x
          PROVE  AddressOf[y] \in watched' /\ leaving'[AddressOf[y]] = 0
      <4>1. y \in Subnet /\ AddressOf[y] # a
        BY <2>1, <3>2
      <4>2. AddressOf[y] \in watched /\ leaving[AddressOf[y]] = 0
        BY <2>1, <3>2
      <4>3. AddressOf[y] \in Address
        BY <4>1 DEF Address
      <4> QED
        BY <3>1, <4>1, <4>2, <4>3
    <3> QED
      BY <3>1, <3>2
  <2>3. CASE ~ (x \in routes /\ a \in watched)
    <3>1. routes' = routes \ {x} /\ UNCHANGED <<scanPC, watched, leaving>>
      BY <1>2, <2>3 DEF ScanDel
    <3> QED
      BY <2>1, <3>1
  <2> QED
    BY <2>2, <2>3
<1>3. CASE Forgotten
  BY <1>3 DEF Forgotten
<1>4. CASE ScanReady
  BY <1>4 DEF ScanReady
<1>5. CASE ConfiguredServer \/ ConfiguredDone
  BY <1>5 DEF ConfiguredServer, ConfiguredDone
<1> QED
  BY <1>1, <1>2, <1>3, <1>4, <1>5 DEF Scanner

\* So does every other step: a run starts without routes, and lines and
\* requesters that leave change nothing that is routed.
LEMMA RoutedNext ==
    ASSUME OwnAddresses, IInv, RoutedWatched, [Next]_vars
    PROVE  RoutedWatched'
<1> USE DEF IInv, RoutedWatched, procVars, scanVars, httpVars, reqVars, reloadVars
<1>1. CASE RunLoop \/ StartFails \/ Hup \/ HupEnds
  BY <1>1 DEF RunLoop, Start, StartFails, Waited, StoppedClose, StoppedRead, StoppedDone, Drained,
              Again, Hup, HupEnds
<1>2. CASE Scanner
  BY <1>2, RoutedScanner
<1>3. CASE SetupFails \/ \E r \in Run : Listen(r) \/ Unlisten(r)
  BY <1>3 DEF SetupFails, Listen, Unlisten
<1>4. ASSUME NEW a \in Address, Leave(a) PROVE RoutedWatched'
  <2>1. \A x \in routes : leaving[AddressOf[x]] = 0 => leaving'[AddressOf[x]] = 0
    <3>1. leaving[a] # 0 /\ leaving' = [leaving EXCEPT ![a] = @ - 1]
      BY <1>4 DEF Leave, TypeOK
    <3>2. \A x \in routes : AddressOf[x] \in Address
      BY DEF TypeOK, Address
    <3> QED
      BY <3>1, <3>2 DEF TypeOK
  <2> QED
    BY <1>4, <2>1 DEF Leave
<1>5. CASE Outside
  <2>1. ASSUME NEW line \in Line, Output(line) PROVE RoutedWatched'
    BY <2>1, Prints DEF Output, Forgetting
  <2>2. CASE Ready
    <3>1. [kind |-> "ready"] \in Line
      BY DEF Line
    <3> QED
      BY <2>1, <2>2, <3>1 DEF Ready
  <2>3. ASSUME NEW x \in Subnet, Report(x) PROVE RoutedWatched'
    <3>1. PICK k \in {"add", "del"} : Output([kind |-> k, subnet |-> x])
      BY <2>3 DEF Report
    <3>2. [kind |-> k, subnet |-> x] \in Line
      BY DEF Line
    <3> QED
      BY <2>1, <3>1, <3>2
  <2>4. CASE Fail \/ Kill \/ Stop \/ Reload
    BY <2>4 DEF Fail, Kill, Stop, Reload
  <2> QED
    BY <1>5, <2>2, <2>3, <2>4 DEF Outside
<1>6. CASE UNCHANGED vars
  BY <1>6 DEF vars
<1> QED
  BY <1>1, <1>2, <1>3, <1>4, <1>5, <1>6 DEF Next

\* Where no two subnets have an address in common, every peer that tincd has a
\* route to is polled, in every run (SubnetAdded, SubnetRemoved, Client.Watch).
THEOREM RoutedWatchedAlways ==
    ASSUME OwnAddresses PROVE Spec => []RoutedWatched
<1>1. Init => IInv /\ RoutedWatched
  BY InvInit DEF Init, RoutedWatched
<1>2. (IInv /\ RoutedWatched) /\ [Next]_vars => (IInv /\ RoutedWatched)'
  BY OwnAddresses, InvNext, RoutedNext
<1> QED
  BY <1>1, <1>2, PTL DEF Spec

-----------------------------------------------------------------------------
(* The safety half of HostsReachTincd: what is left of it is that the      *)
(* goroutine of the signals takes its step.                                *)

\* The goroutine that turns a signal into SIGHUP is there as long as tincd.
Attended == tincd => runPC = "running" /\ hup

\* A host file that a running tincd has not loaded has its signal in the channel.
Signalled == stale /\ tincd => reload

\* Every step keeps both.
LEMMA SignalSteps ==
    ASSUME Attended, Signalled, [Next]_vars
    PROVE  Attended' /\ Signalled'
<1> USE DEF Attended, Signalled, procVars, scanVars, httpVars, reqVars, reloadVars
<1>1. CASE RunLoop \/ StartFails
  BY <1>1 DEF RunLoop, Start, StartFails, Waited, StoppedClose, StoppedRead, StoppedDone, Drained, Again
<1>2. CASE Scanner
  BY <1>2 DEF Scanner, ScanAdd, ScanDel, Forgotten, ScanReady, ConfiguredServer, ConfiguredDone
<1>3. CASE SetupFails \/ (\E r \in Run : Listen(r) \/ Unlisten(r)) \/ (\E a \in Address : Leave(a))
  BY <1>3 DEF SetupFails, Listen, Unlisten, Leave
<1>4. CASE Hup
  <2>1. /\ tincd' = tincd /\ runPC' = runPC /\ hup' = hup
        /\ stale' = (stale /\ ~ tincd)
    BY <1>4 DEF Hup
  <2>2. Attended'
    BY <2>1
  <2>3. ~ (stale' /\ tincd')
    BY <2>1
  <2> QED
    BY <2>2, <2>3
<1>5. CASE HupEnds
  BY <1>5 DEF HupEnds
<1>6. CASE Ready \/ \E x \in Subnet : Report(x)
  <2>1. UNCHANGED <<tincd, runPC, hup, stale, reload>>
    BY <1>6 DEF Ready, Report, Output
  <2> QED
    BY <2>1
<1>7. CASE Fail \/ Kill \/ Stop \/ Reload
  BY <1>7 DEF Fail, Kill, Stop, Reload
<1>8. CASE UNCHANGED vars
  BY <1>8 DEF vars
<1> QED
  BY <1>1, <1>2, <1>3, <1>4, <1>5, <1>6, <1>7, <1>8 DEF Next, Outside

\* Reload drops its signal when one is in the channel, and no host file is lost
\* by it: while tincd runs without a file that was added, a signal is in the
\* channel and the goroutine that sends SIGHUP for it runs (Daemon.Reload, run).
THEOREM StaleIsSignalled == Spec => [](stale /\ tincd => reload /\ hup)
<1>1. Init => Attended /\ Signalled
  BY DEF Init, Attended, Signalled
<1>2. (Attended /\ Signalled) /\ [Next]_vars => (Attended /\ Signalled)'
  BY SignalSteps
<1>3. Attended /\ Signalled => (stale /\ tincd => reload /\ hup)
  BY DEF Attended, Signalled
<1> QED
  BY <1>1, <1>2, <1>3, PTL DEF Spec
=============================================================================
