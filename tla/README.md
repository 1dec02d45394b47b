# tinc-boot in TLA+

tinc-boot sets up and runs a tinc VPN whose nodes find each other: `tinc-boot
run` starts `tincd`, watches what it prints, serves and fetches host files over
the VPN, and lets new nodes join with a token. This directory holds TLA+ models
of the parts of it that keep state, the TLC runs that check them on small
instances, and proofs that hold for every instance.

    tlc -config DiscoveryPair.cfg MCDiscovery.tla    # one run
    tlapm DiscoveryProofs.tla                        # the proofs about one module

## 1. The system

| part | source | state | operations | talks to |
|---|---|---|---|---|
| SSD, the "single source distribution" | `tincd/discovery/ssd.go` | a map name → version under an RWMutex, the ssd file under a mutex | ReplaceIfNewer, Replace, CanBeMerged, GetAfter, Header, Marshal, Save, Read | everything below |
| discovery requesters and server | `tincd/discovery/client.go`, `server.go` | one goroutine per peer address; the answers in flight | gatherInfo (headers, contents, merge, save), getHeaders, getOne | the same parts of other nodes, by HTTP over the VPN |
| discovery service | `tincd/discovery/discovery.go` | the HTTP server and its done channel, the map of requesters | Configured, Stopped, SubnetAdded, SubnetRemoved | called by the daemon's events |
| daemon | `tincd/daemon/node.go` | tincd's process, its output, the reload signal | Spawn, runLoop, run, scanner, Reload, Stop | tincd, by signals and a pipe |
| daemon.Config | `tincd/daemon/node.go` | the host directory and `tinc.conf` | AddHost, Host, Hosts, HostNames, IndexHosts, Configured, Keygen | the disk |
| boot protocol | `tincd/boot` | a request, its handler, the archive being imported | ServeHTTP, Run, exchange | another node, by HTTP; the SSD and the daemon, by the callbacks Joined, Exchanged, Complete |
| run command | `cmd/tinc-boot/run` | the clock file, the node's configuration | nextTick, createConfig, Execute | creates all of the above |
| monitor | `domain/monitor` | watched nodes, their fetchers, `tinc.conf`, a wait group | watch, forget, push, kill, reindex, shutdown | other monitors and tinc's scripts, by HTTP |
| gen and bootnode | `cmd/tinc-boot/gen`, `node` | a node's directory; the boot node's host directory | write the files and keys, ask one boot node after another, import the answer; store a host file once | each other, by HTTP |
| the monitor's node scripts | `domain/monitor/http_api.go`, `client.go`, `domain/generator`, `scripts` | the keys that were pushed; a node's directory | apiUiAddNode, Generate, PushNodeFile; the script with its gen | the watched nodes' monitors, by HTTP; gen |
| watch, forget, kill | `cmd/tinc-boot/*` | none | one request each | the monitor, by HTTP |
| tinc's files | `tincd/config` | none | marshal and parse tinc.conf and host files | the disk |
| output parser | `tincd/daemon/output_parser.go` | none | parse a line of output | |
| generated | `events.go`, `assets.go`, `scripts/assembly.go` | handlers, assets | | |

How they interact: `Execute` counts the clock file up, reads the ssd file, adds
what the host directory has, sets the node's own entry to the new tick, saves,
and starts the daemon. tincd's output drives the rest: at `Ready` the discovery
server comes up, a subnet that appears starts a requester for its address. A
requester polls the peer's map, fetches each host file whose version is newer,
writes it with AddHost, records the version and saves. A node that is started
with `--join` swaps host files with another one and signals tincd.

What is hard about it:

* goroutines share the SSD, the service's two fields, the wait groups and the
  reload channel; handlers of events run in two goroutines;
* a decision is taken under a lock that is released for an HTTP request and
  acted upon after it (CanBeMerged, then ReplaceIfNewer);
* versions, host files, `tinc.conf` and the ssd file are written one after the
  other, and a crash can come between any two writes, or within one; a write that
  fails half-way leaves a torn file, and the program goes on, now and then without
  having noticed (the deferred Flush of MarshalStream);
* a merge of one round in a map of many (the short-circuit in `changed =
  changed || ...`), reload signals that are dropped when one is waiting, index
  requests likewise;
* tincd dies and comes back while its old requesters and server live on;
* joins, discovery and restarts write the same host files by different rules;
* a node's directory is made in several writes by several programs, each of which
  may be cut off, torn or run again, while other nodes keep what they were given.

What makes each part correct, in short (the properties are listed in section 3):
a version has one source and only grows; an entry is never there without a file
that is at least as new; no node loses its own file or a saved version; all
nodes agree in the end; a routed peer is polled by one requester; tincd loads
what was added; a stop ends everything; a joined node is known to all; a node's directory,
wherever its making was cut off, is found out or made whole, and belongs to what the
other nodes have been given.

## 2. The modules

    SSD ──┬── Discovery ── MCDiscovery      3 runs   DiscoveryProofs
          │        implements SingleSource
          ├── SSDLock ──── MCSSDLock        2 runs   SSDLockProofs
          │        implements AtomicSSD
          └── Join ─────── MCJoin           3 runs   JoinProofs
                   implements SingleSource
    TincDaemon ─────────── MCTincDaemon     2 runs   TincDaemonProofs
    Monitor ────────────── MCMonitor        1 run    MonitorProofs
    TincConf ── NodeDir ─┬── Startup ───────────┬── Setup ── MCSetup   1 run
                │        └── Gen ── NodeScript ─┘     │
                └──── NodeDirProofs ── StartupProofs ── SetupProofs

**SSD** has the operations of the map as operators: `IsNewer` (unsafeIsNewer,
CanBeMerged), `Put` (the assignment in ReplaceIfNewer and Replace), `After`
(GetAfter), `Header`, and `PutAllUnversioned` (the loop with which Execute
offers every host file as version 0). An entry is a version or `Absent`.

**Discovery** is the protocol, for any set of nodes and any relation of who polls
whom. A node has a clock file, an ssd file, a host directory, a ConnectTo list in
its `tinc.conf` and, while it runs, the map. A step is what one goroutine does under one lock or
one request at the peer: `FetchHeaders`, `Skip`/`Ask` (CanBeMerged), `ReadVersion`
and `ReadContent` (the two locks of getOne), `Merge` (ReplaceIfNewer with AddHost
as its block), `Discard` (the short-circuit, or no longer newer), `EndRound`,
`SaveRound`; `FailFetch`, `FailMerge` and `FailSave` are the error paths. `Tick`
and `Start` are the two halves of the start-up, `FailStart` is one that ends in the
rewrite of `tinc.conf`, `Crash` ends a process anywhere, `TearClock` is a crash inside
WriteFile of the clock, `EditHost` the operator. A host file is the edition of it that
its owner has made, or torn, or missing.

SaveFile truncates `tinc.conf` and may stop anywhere: with an error (`FailMerge`,
`FailStart`), or without one, when it is the deferred Flush that fails, inside an AddHost
or an IndexHosts that returns as if it were whole (`Tear`, `SaveTorn`). ConnectTo then has
some of its names, and the last line may be one that does not parse; AddHost, which reads
the file first, fails from then on (`unreadable`, `RefuseMerge`: the host file is
written, nothing is recorded), and a start makes a new identity, which is Startup's
matter: such a node does not come back in this module. Two history variables: `published`
remembers which edition each version stood for, `lost` the ConnectTo names that a torn
write took.

**SingleSource** is what discovery promises: versions are issued by their source
while it is down, or as it comes up, a view comes up with its own latest version and
old news, grows, never runs ahead of a source, and is lost in a crash. Discovery
implements it with `latest <- clock` and `view <- entities`, and so does Join, where
the two halves of the start-up are one step.

**SSDLock** opens what Discovery calls one step: the readers-writer lock as Go's
`sync.RWMutex` has it (a waiting writer keeps new readers out), the file mutex,
and the operations lock by lock, the second read lock of Marshal included. The block of
ReplaceIfNewer may fail and leave the host file as it was, torn or written (`FailWrite`,
which records nothing), and a save may fail with its temporary file (`FailCreate`), or at
any later point (`Encode` to `Remove`), and leave the ssd file as it was.

**AtomicSSD** is what the locks are for: a merge, a save and an answer to /hosts are one
step each, somewhere between call and return, and so are a merge and a save that fail. SSDLock implements it. A merge takes
effect when it writes the host file (`entities <- Recorded`, which is ahead of the map
while a writer is in with its file), a save when it has encoded the map (`saved <- Kept`,
which is ahead of the ssd file until the rename), and `stage <- Stage(g)` is the operation
that a goroutine has called and that has not taken effect.

**TincDaemon** is one node's daemon with the discovery service: the goroutine of
`runLoop`, the scanner, tincd, the goroutine that turns the reload signal into
SIGHUP, the HTTP servers of the successive runs, and the requesters. The handlers
are opened where two goroutines meet: `StoppedClose`, `StoppedRead` and
`StoppedDone` against `ConfiguredServer` and `ConfiguredDone`.

**Join** is the boot protocol between nodes that restart: the server's `Serve`
(AddHost), `Answer` and `Joined`, the client's `Request`, `Import`, `Exchanged`
and `Complete`, each followed by a possible crash or failure; tincd's `Hup`; and
discovery as one step, `Gossip`, between nodes that a chain of links connects. A
link needs both ends to have loaded each other's host file.

**Monitor** is the monitor service: the list of watched nodes, one fetcher for
each, the loop that brings public nodes into `tinc.conf`, and the shutdown. Once the wait
group has been at zero, Wait is released for good (`released`), whoever is added later.

**TincConf** is the text of tinc's files as `tincd/config` writes and parses it: a file
is a sequence of lines, `key = value`. `MarshalMain` and `MarshalNode` write no line
for a zero value; `ParseLine` folds over the lines, skips an unknown key, fails on a
line without a separator and on an empty number, and keeps 16 bits of a port. `Torn`
is what a write leaves that did not get to its end. `Behind` is what a file with such an
end reads as when lines are appended: the first runs on in the line that was cut
(`Merged`), and a blob that was left open takes in all lines up to the next END line
(`Beyond`), which is what parseBlob does. Other files are not appended to, so that
elsewhere a blob is one line.

**NodeDir** is the directory of one node, `tinc.conf`, `hosts/` and `rsa_key.priv`, with
what reads it (`Main`, `Node`, `HostNames`) and the values that are drawn at random: a
name, a port, an address and a key pair that are drawn together are one *identity*, a
number. `File`, `MainStruct` and `NodeStruct` are all files that consist of known lines, and
what tinc.conf and a host file can be read as. Three modules write to it:

* **Startup**, the run command: `Launch` (Configured or not), `CreateMain`,
  `CreateHost`, `Keygen`, then `ReadSelf`, `IndexHosts` and `Spawn`, each of which
  reads the configuration again; `AddHost`, which may leave a torn host file and return,
  and `ListHost` are the two writes of AddHost while it runs. `Saved` is SaveFile: done,
  torn with its error returned, torn with the error of the deferred Flush dropped, or torn
  by a crash.
* **Gen**, the commands gen and bootnode: `Administer` runs gen, which goes through
  `WriteConf`, `WriteHost`, `RunKeyGen`, then `Request` and `Answered`, `Refused` or
  `Lose` for one URL after another (`NextURL`), `Import` and `List`. Every run draws
  new keys under the same name. The handlers of a boot node (`Store` with O_EXCL,
  `FailStore`, `Answer`) go on when gen has stopped waiting, and end with `CrashBoot`.
* **NodeScript**, which extends Gen: the monitor's copies of the peers' host files, which
  are there in part (`WriteCopy`) before they count as public (`Fetch`), the handler of
  "add node" (`Generate`, `Distribute`, `Push` or `FailPush` for each node, `HandOut`), and
  the script on the new node (`RunScript` with gen inside it, `AppendKey`, `WritePriv`,
  `AppendPeer`, `Finish`), which may fail at any step and is run again. `Generate` takes
  every file with an Address as it is at that moment, cut short or not, and also the
  earlier file of the very name that the script is for, if the monitor still has it. The
  history variable `spoiled` has the names whose host file the script has from a copy, or
  by an append, that was cut off.

**Setup** composes them: `tool` says which of the three makes the directory.

The MC modules only give names to instances, the Proofs modules extend what they are about. In every module a definition named
in a comment as a mutant is not part of the specification: it is a plausible bug
in the code, kept beside the definition it would replace, with which the property
that `PROJECT.json` names for it fails.

The actions follow the order of the code, and their guards its conditions. What
TLA+ leaves out everywhere: logging, the text of files and requests, encryption,
timeouts as durations (a timeout may come whenever what it guards is under way).

## 3. The runs

All runs allow deadlock: every bound ends some behaviour for good, a daemon that
was stopped has nothing left to do, and the two runs that look for a process that
is stuck state that as a property.

| run | instance | checks |
|---|---|---|
| `pair` (DiscoveryPair) | a and b poll each other, b has a's host file; 2 starts each, 1 edit, 1 failure | TypeOK, **Backed**, **Connected**, **VersionGrows**, **OwnFileKept**, **SavedGrows**, **ImplementsSingleSource**, **Convergence** |
| `relay` (DiscoveryRelay) | c polls b, which polls a; a starts twice; all strangers, with clock files that may be torn at any time | **Durable**, **Convergence** |
| `torn_clock` (DiscoveryTornClock) | the pair, with clock files that may be torn | VersionGrows, violated: finding 2 |
| `ssd_lock` (SSDLock) | 2 requesters (symmetric), 1 server, 2 names, versions 0 and 1, 1 failure | TypeOK, **FileBeforeEntry**, **NoLostSave**, **SavedGrows**, **ImplementsAtomicSSD** |
| `ssd_double_rlock` (SSDLockDouble) | the same with 1 name and no failure | DoubleRLockIsOk, violated: finding 1 |
| `daemon` (TincDaemon) | 3 runs of tincd, 1 subnet, 2 lines in the pipe | TypeOK, **OneRequester**, **RoutedWatched**, **HostsReachTincd**, **Serves**, **StopFinishes** |
| `daemon_restart` (TincDaemonRestart) | 2 runs, 1 line | RestartsOnFailure, violated: finding 3 |
| `join` (Join) | b joins a, c joins b; a starts twice, crashes, 1 failure | TypeOK, **Announced**, **JoinLoaded**, **VersionsImplementSingleSource** |
| `join_live` (JoinLive) | b and c join a, whose host file may be edited before it starts | **OneNetwork** |
| `join_content` (JoinContent) | b joins a, 2 starts each, 1 edit | SingleSourceContent, violated: finding 4 |
| `monitor` (Monitor) | a public name, listed up to twice, pushed or stored by bootnode, 1 failure, shutdown | TypeOK, **NoLostIndex**, **ExitClean**, **Fetching**, **PublicConnected**, **StopFinishes** |
| `setup` (Setup) | 2 peers, both boot nodes, one of them public and one the monitor's; 3 identities, 2 requests for a script, 2 faults | TypeOK, **NoDeadEnd**, **Keyed**, **OneIdentity**, **Admitted**, **GivesUp**, **Introduced**, **Installed** |

What the properties say, and what they rest on in the code:

* *Backed* — the version that a node has of a name, in its map or in its ssd file,
  stands for an edition that is in its host directory, or for one that a write of a
  later version has torn, which is then there to be fetched. It needs AddHost to run
  before the entry is recorded, getOne to read the version before the content, and a
  failed AddHost to record nothing.
* *VersionGrows*, *SavedGrows*, *OwnFileKept* — a start claims a newer version than
  any before; no save brings back an older entry; discovery never replaces a node's
  own host file by what a peer kept of it.
* *Durable* — while nothing has failed, a merge is in the ssd file or a round is about
  to save it. *NoLostSave* and SSDLock's *SavedGrows* say the same of the locks: the
  file mutex spans the reading and the rename. After a save that failed the next one that
  succeeds closes the gap.
* *Connected* — what a node serves is in its ConnectTo list, but for the names that a
  torn write of `tinc.conf` took (`lost`). Such a name stays away while the node runs, since
  nobody merges it again; that is what the code does, and the property says that nothing
  else is ever missing: what is merged after the tear is listed, and the next start lists all.
* *FileBeforeEntry* — whoever reads a version from the map finds a host file that is at least
  as new, or one that was torn under a version that is not recorded and so comes again.
* *Convergence* — when the nodes stay up, with a `tinc.conf` that can be read, each ends up
  with the latest version of every node that it can hear of, and with the host file that
  the version was issued for, although a round merges one name at most. It claims
  nothing once a clock file has been torn: the versions then start over (finding 2), and
  peers that have a higher one do not fetch what is new.
* *ImplementsSingleSource* — Discovery is SingleSource with files and requests.
  *VersionsImplementSingleSource* — Join is too, as far as versions go: what the
  callbacks Joined and Exchanged record takes back nothing that discovery has learned.
* *ImplementsAtomicSSD* — nobody who merges, saves or answers sees half of what another
  does. It needs the block of ReplaceIfNewer to run under the lock, and the file mutex.
* *OneRequester*, *RoutedWatched* — of the peers that tincd routes to, each is
  polled, by one requester, over runs of tincd that leave requesters behind.
* *HostsReachTincd* — a host file that is followed by Reload reaches tincd, by the
  SIGHUP of this call, of an earlier one that is still in the channel, or by a start.
* *Serves* — when Configured runs, a discovery server listens afterwards, this run's
  or an earlier run's, whose port is then taken, or tincd ends.
* *Announced* — a host file that was written by a join is in the SSD or about to be.
  *JoinLoaded* — after Complete, tincd knows of the server or is being told.
* *OneNetwork* — when all nodes stay up, joins and discovery together bring every
  node the host file and the latest version of every node.
* *NoLostIndex* — a public host file that was fetched is in tinc.conf, or an index that
  will see it is due, although askForIndex drops requests. *PublicConnected* — it gets
  there in the end and stays, after indexes that failed and rewrites that lost what was there. *Fetching* — a watched node is fetched.
* *NoDeadEnd* — whatever crashes, torn writes and dropped errors have left in the
  directory, the run command fails only if something fails in this very start:
  Configured finds all that ReadNodeConfig, IndexHosts and Spawn would stumble over.
* *Keyed* — a running node whose identity was created without disturbance has its
  private key, and the public one in its host file. *OneIdentity* — a node runs under
  one name, but for one more at most each time a save of its tinc.conf was torn.
* *Admitted* — when gen is done, a boot node that it has in `hosts/` and in tinc.conf
  has stored the host file that gen has now, with the public half of its key, although
  requests of earlier runs with other keys may arrive at any time: the exclusive
  creation keeps the first, and gen believes nothing but an answer to this run.
  *GivesUp* — without faults it gives up only if every boot node had the name before.
* *Introduced* — a script is handed out only if a public node has the key that is in it
  (or a second request for the same name is under way, which overwrites it).
  *Installed* — a script that ran to its end, after any number of runs that were cut off,
  leaves `tinc.conf`, the private key and the public key of one identity, and of each
  public node a host file that *reads* as that node's own. It exempts a name with an append
  or a copy that was cut off within a line (`spoiled`): the appended file may then be one
  that cannot be read, or lack a field, and the script neither notices nor repairs it.
  The own host file is exempt when the monitor still had an earlier one of the name,
  which the script then appends behind the new key.
* *ExitClean*, *StopFinishes* — the process does not end in the middle of a fetch, and
  it does end.

The bounds, and why they are enough. Two starts of a node give every crash point
between a version and its successor; what a third start finds on disk is what a
second one finds, with larger numbers. One edit separates an old host file from a
new one. Three nodes in a chain are the fewest with news at second hand; that
SingleSource holds with any number of nodes and watches is proved. One failure puts every error path, a torn `tinc.conf` among them, anywhere in a behaviour;
invariants that hold from each such state on do not need a second one, and Backed,
Connected, Durable, FileBeforeEntry and the step properties are proved for any number. In
the pair, b has been given a's host file and a has to hear of b, so that both
branches of AddHost, a name that is listed and one that is not, meet a failure. Two requesters and one server are the
fewest with a writer between two readers and two saves at a time. Three runs of
tincd are one that leaves something behind, one that meets it, and one that never
fails, so that liveness has something to wait for. Two watches of one name are a
node that was forgotten and a second goroutine for it. In Setup three identities are a
try, a retry and a third that meets what both have left, or two requests for one name
and a third; two faults are a torn write and another while it is being repaired; two
boot nodes are the fewest that gen can go on to, and of two peers one is the monitor's
own node, which no key is pushed to, and one is public. Two requests for a script are one
to meet the other's pushes. For the run command no bound
but these is needed: it draws a new identity only after a fault.

Fairness. Requesters have weak fairness: their goroutines are scheduled, their
tickers tick, and a request that is not answered ends by its timeout (`FailFetch`).
Failures have a bound and no fairness. In TincDaemon the goroutines, the timers, the
end of cmd.Wait and the death of a killed process are fair; that tincd prints a line,
fails, or is stopped by anybody is not. In Join the handlers, the clients, the
signal and discovery are; starts, crashes and edits are not. In Monitor the end of
the index loop has strong fairness: its select chooses at random among the ready
cases, so that a context that stays done is not passed over for ever. *OneNetwork*
takes from *Convergence* that a round succeeds sooner or later.

## 4. What the runs found

1. `ssd_double_rlock`: Marshal holds the read lock and takes it again in Header
   (ssd.go:94, "double RLock, but it's ok"). A writer that announces itself in
   between is let in by neither and lets neither in; merges, saves and answers of the
   node stand still from then on.
2. `torn_clock`: the clock is truncated and written in place, and a clock that does
   not parse counts as 0. The node's versions start over below what its peers hold,
   against "version (must always grow)" (ssd.go:14).
3. `daemon_restart`: Stopped runs in one goroutine and Configured in another, on the
   same two fields. When tincd ends right after Ready, Stopped can meet the new server
   without its channel, wait for a nil channel, and the daemon does not "restart on
   every failure till Stop() will be called" (node.go:245).
4. `join_content`: an answer of the boot protocol is imported over host files that
   discovery has replaced meanwhile, and the entries keep the newer versions. The file
   stays old until its source restarts, and is served to others under the new version.
   (The run has the smallest case, an import that a restart of the server overtakes;
   a server that is behind on a third node has the same effect, and every restart
   of a node with `--join` imports again.)

*HostsReachTincd* and the daemon's *StopFinishes* are stated for behaviours in
which finding 3 does not strike (`NotStuck`). The proofs about Discovery assume TornClock = FALSE,
which is finding 2, except those of TypeCorrect, DurableAlways and ConnectedAlways, and
*Convergence* leaves out the behaviours in which a clock file was torn.
*OneNetwork* is checked with one start of each node, so that no
host file changes under finding 4.
Discovery and Join treat the SSD's operations as atomic. *ImplementsAtomicSSD* says that
the locks make them so; that the operations also come to their ends takes behaviours in
which finding 1 does not strike. In AtomicSSD a save is one step, so that a crash between
its reading of the map and the rename is one before the save; SSDLock itself has no crash.

Some things that Discovery shows of a full disk are what the code does, and contradict
nothing that the repository says: a node whose `tinc.conf` was torn into one that does not
parse goes on, records no merge any more and writes each host file again in every round; and
a ConnectTo name that a torn write took comes back with the next start only.

Some things that the models of the set-up show are what the code does, and
contradict nothing that the repository says:

* a start whose Keygen failed or was interrupted leaves a directory that Configured
  takes for complete; the node runs without a key from then on (`cut` in *Keyed*);
* a name that a boot node has stored stays taken there, also when the answer was lost
  or the file was torn: gen, which draws new keys each time, is refused by it for good;
* gen with its default prefix, 172.16.0.0/12, always ends with "invalid prefix",
  because generateIP splits it at the dots; so does the gen of a script without
  ConnectTo, whose command line ends before `--prefix`;
* a script carries the monitor's copies of the public host files as they are when it is
  generated, which is while they may be being fetched; what was cut is appended as it is, and
  what a later run appends behind a cut line or an open blob is lost with it (`spoiled`);
* a script for a name of which the monitor has a public host file lists the node in its
  own ConnectTo and appends the earlier file, with its key, behind the new one;
* a gen whose last write fails (`List`) goes on to the next boot node and may say that
  it is done with a tinc.conf that has lost everything but its ConnectTo lines.

## 5. The proofs

Eight modules hold theorems, which are about any sets of nodes, goroutines, names or peers
and any bounds, from the assumptions that the module they extend makes on its constants.

`DiscoveryProofs.tla` proves about Discovery, for any set of nodes, any relation of
watches, any introductions and any bounds:

| theorem | says | assumes |
|---|---|---|
| `TypeCorrect` | Spec => []TypeOK | |
| `DurableAlways`, `ConnectedAlways` | Spec => []Durable, Spec => []Connected | |
| `Invariance` | Spec => []IInv | TornClock = FALSE |
| `BackedAlways` | Spec => []Backed | TornClock = FALSE |
| `OwnFileAlwaysKept`, `SavedAlwaysGrows`, `VersionAlwaysGrows` | Spec => the step property | TornClock = FALSE |
| `Refinement` | Spec => ImplementsSingleSource | TornClock = FALSE |

Apart from TornClock they use the assumptions that Discovery makes on its constants:
there is a node, watches are pairs of different nodes, introductions pairs of nodes,
the bounds numbers. The whole argument is the inductive invariant `IInv`:

* Backed is not inductive. A merge is backed because the answer was; the answer
  because the peer's host file was, when the version had been read before it
  (`Answers`); and the peer's because it got it in the same way, or because it is the
  owner, whose editions only go up from one version to the next (`History`).
* A host file that a merge replaces must not have been better. IsNewer compares with
  the entry, so the entry must be bounded by what the source has issued
  (`VersionBound`), also for the headers and answers that are on their way, and a
  running node must have its own latest version, which nobody can exceed (`Running`).
  This is where TornClock = FALSE is needed, and what OwnFileKept follows from.
* An entry in memory or on disk has a host file (`HasFile`), so that start-up, which
  lists the host directory, lists all that the ssd file restores (`Connected`).
* A running node's map is at least its ssd file, entry by entry (`Running`), which is
  why no save goes back and why a start is newer than all before it.

The invariance is proved action by action (`InvTick`, `InvStart`, `InvMerge`, ...),
`Steps` draws the step properties from the invariant, `StepRefines` maps each step to
a step of SingleSource or a stutter: Tick is Issue, Start is Announce, Merge is Learn,
Crash is Lose, and everything else leaves clock and entities alone. DurableAlways
and ConnectedAlways have inductions of their own, which hold for torn clocks too: the
first needs only the types, the second that no step takes a host file away (`Listed`).

The other components:

| theorem | says | assumes |
|---|---|---|
| SSDLock: `LockTypes`, `FileAlwaysBeforeEntry`, `NoSaveLost` | Spec => []TypeOK, []FileBeforeEntry, []NoLostSave | requesters and servers are different, there is a name |
| SSDLock: `SavedOnlyGrows` | Spec => SavedGrows | the same |
| SSDLock: `LocksRefineAtomicSSD` | Spec => ImplementsAtomicSSD | the same |
| TincDaemon: `DaemonTypes`, `OneRequesterAlways` | Spec => []TypeOK, []OneRequester | |
| TincDaemon: `RoutedWatchedAlways` | Spec => []RoutedWatched | `OwnAddresses`: no two subnets share an address |
| TincDaemon: `StaleIsSignalled` | Spec => [](stale /\ tincd => reload /\ hup), the safety half of HostsReachTincd | |
| Join: `JoinTypes`, `AnnouncedAlways`, `JoinLoadedAlways` | Spec => []TypeOK, []Announced, []JoinLoaded | nobody joins itself |
| Join: `VersionsRefineSingleSource` | Spec => VersionsImplementSingleSource | the same |
| Join: `ContentUnlessEditedBetweenStarts` | Spec => []SingleSourceContent | the same, and no host file is edited between two starts of its node |
| Monitor: `MonitorTypes`, `NoIndexLost`, `ExitAlwaysClean` | Spec => []TypeOK, []NoLostIndex, []ExitClean | there is a name |
| Setup: `TypeCorrect` | Spec => []TypeOK | there are an identity and a boot node; peers are finitely many and not numbers; the monitor has a node |
| Setup: `StartsUnlessFaulty`, `RunsWithItsKeys`, `IdentitiesArePaidFor` | Spec => []NoDeadEnd, []Keyed, []OneIdentity | the same |
| Setup: `DoneMeansAdmitted`, `GivesUpOnlyIfRefused` | Spec => []Admitted, []GivesUp | the same |
| Setup: `ScriptsAreExpected`, `ScriptsInstallAll` | Spec => []Introduced, []Installed | the same |
| NodeDir: `MarshalMainReadBack` | a tinc.conf that is marshalled is read back as what it was | the same |

* SSDLock. Where a goroutine is says which locks it holds (`Locks`): how many read
  locks (`Counts`), that a writer that is in is alone (`Writers`), that the file mutex
  spans Marshal and the rename (`Savers`). What follows is about data: a host file that
  a writer has written is what it is about to record (`Filed`), and a copy that is on its
  way to the ssd file lies between that and the map (`Copies`), which is why no save is
  lost or goes back. A write that fails leaves files that are newer than the entry, or torn,
  and the entry as it was. The refinement follows from the same invariant, action by action:
  a writer is alone while it is ahead of the map, so that whoever reads the map reads
  what is recorded (`RecordedMap`), and one save at a time is ahead of the ssd file
  (`KeptFile`); all other steps are nothing to those who do not hold the locks.
* TincDaemon. OneRequester is not inductive: a new requester could start while an old
  one is leaving. It cannot, since Forget waits within the scanner, with the line at the
  head, and the run waits for its scanner (`ScannerRuns`, `Forgetting`, `OnlyForgotten`),
  so that nobody is leaving when a line is read or a run starts. RoutedWatched is
  preserved on top of that, and only where a requester is not shared: the premise is
  what tinc-boot sets up (a /32 for each node), not what the code demands. A signal that
  Reload drops is made up for by the one in the channel (`Signalled`), and its goroutine
  outlives tincd, since it ends only after cmd.Wait has returned (`Attended`).
* Join. A file without an entry is *adopted* by a handler, by a client that has just
  imported it, or, after a failure, by an exchange that will bring it again (`Adopting`).
  The last holds because no step takes a host file away (`Grows`), so that the server's
  next answer has what an earlier one had (`Again`), and because a handler that fails has
  a client that has no answer yet (`Asked`). `Marked` follows the server's own file from
  the answer to the joiner's directory. For the versions, `Versions` says that what is
  down has no map, what is up has its own latest version, and nobody is ahead; a node's
  own entry can then not be replaced by a callback or by a peer. For the contents,
  `Genuine` says that a host file away from home is its owner's, whether in a directory, a
  request or an answer, and that its owner has been started; an edit keeps it only where
  no copies are about, which is the theorem's premise and what finding 4 violates.
* Monitor. The wait group is the number of goroutines that are there (`Counted`), by
  cardinality, so that it never goes below zero and nobody is in a fetch when it is
  zero; a torn file has a fetch that is writing it, or one that failed (`Tearing`). Wait may
  be released and goroutines still come: the service has been cancelled then, and a fetch
  that starts later gets no answer to write (`Over`).
  NoLostIndex is inductive given the types.

* NodeDir. What a file is read as is a fold over its lines. The library's induction
  theorems take a predicate, which the provers do not fill in; `Induction` says the same of
  the *set* of the numbers with a property, from the well-foundedness of < on Nat, and
  each lemma about a file of any length defines its set: what one more line does to a
  fold (`UnmarshalAppend`), what parsing preserves (`UnmarshalPreserves`), what a sequence of
  ConnectTo lines adds (`UnmarshalSlice`). `MarshalMainReadBack` follows, and what a torn
  file can still be read as (`TornLines`, `MainTorn`). `PeerFileRead` is what appending
  rests on: a file of whole lines of p's host file, however many times they were appended and
  wherever the appends were cut between lines, reads as that host file once they are
  all there behind it: of the fields that are modelled none adds up. (Address would, and is
  not modelled: a host file that was appended twice lists its addresses twice.)
* Setup. One tool is used, so that the invariant `SetupInv` is that tool's own and the
  initial state of the others'. A property of what is left in the directory by any
  number of runs needs to say what each run may rely on when it begins:
  * the run command (`StartInv`): tinc.conf names the identity that was drawn last, if
    any (`NamedLast`); what is being created has not been in use, and is as it should be or
    known as cut (`Fresh`); what Configured has found out still holds when it is relied
    upon (`Checked`), which gives NoDeadEnd; the last identity has its keys unless its
    creation was cut (`Paired`), which gives Keyed; and the names in use are counted
    against the torn saves (`Counted`), by cardinality.
  * gen (`GenInv`): what a run has written by where it is (`Progress`); that a request which
    was accepted is the file that the boot node has, since creation is exclusive
    (`Requests`), so that an answer to *this* run means that the boot node has *this*
    host file (`LetIn`); and that without faults nothing is under way but the request of
    the boot node being tried (`Undisturbed`).
  * the node scripts (`ScriptInv`): the directory follows where the script is
    (`Installing`), and the host file of a name that is not spoiled consists of whole lines
    of that node's own (`Unspoiled`), which is what the next run may rely on behind
    any number that were cut off; a key that a node has was pushed by a request past generating, and so
    was the one that replaced it (`Expected`).

The assumption that peers are finitely many is for the list of hosts that the run
command reads, and that NoFile is no value, file or struct is what "missing" means.

Model-checked only: what happens in the end (Convergence, OneNetwork, HostsReachTincd,
Serves, both StopFinishes, Fetching, PublicConnected), which the prover does not
handle under fairness. Every invariant and every safety property of a passing run has
its theorem.

## 6. What is not modelled

* Discovery and Join start with configured nodes; that a directory is configured is
  what Setup is about. `--name`, `--ip` and `--tinc-port`, which would keep parts of an
  identity, are not given there. The firewall rules of `--ufw` are external commands.
* In tinc's files, the characters of a line: a write may stop between two lines,
  within a key or before a value, and not within a value, and Address, which is
  marshalled as ConnectTo is, is left out of the host files. The blob of a key is one line,
  and open only where files are appended to (`Behind`): where a file is written by one
  program, an open blob is at its end.
* A node whose `tinc.conf` does not parse any more, after it has stopped: in Discovery it
  stays down, in Startup it makes a new identity, and no module has both.
* Watch and Forget between the pushes of a key: NodeScript copies any set of nodes once, as
  `Copy` does, and a node that is forgotten after that is still pushed to. In
  TincDaemon the goroutine of the HTTP server is taken to read the server that Configured has
  just stored, which it does a little later in the code, and ListenAndServe to fail only
  because the port is taken.
* The expressions of the output parser. The scripts for tincd (`tinc-up`, `tinc-down`,
  `subnet-up`, `subnet-down`), each of which runs one command; the one-request commands
  `watch`, `forget` and `kill`, which Monitor receives as Watch, Forget and Kill: a
  watch that is refused because the monitor does not listen yet is not made again,
  and the client's Forget sends no name, so that it removes nothing, but nobody calls it.
* The random draws of ports and addresses, and two that are equal.
* Encryption (`boot/token.go`, `Crypter`): a message that does not decrypt is an
  exchange that failed.
* The websocket streams of events, the pages of the monitor, generated code.
* A host file or a `tinc.conf` that tears while a join writes it; Discovery has both torn.
* Several subnets behind one address: the code shares one requester among them, and
  the first to go takes it away. tinc-boot gives each node a /32 of its own.

## 7. The plan

Done, in this order: SSD, SingleSource, Discovery with its proofs, SSDLock,
TincDaemon, Monitor, Join, TincConf, NodeDir, Startup, Gen, NodeScript, Setup, the
proofs about SSDLock, TincDaemon, Join and Monitor, those about NodeDir, Startup and
Setup, AtomicSSD with its refinement, and the refinement of SingleSource by Join. To do:

1. The safety halves of Serves and StopFinishes, as StaleIsSignalled is that of
   HostsReachTincd: what must be under way while no discovery server listens.
2. The contents in Join when files are edited: how far a node can fall behind, in terms
   of the answers under way.
3. Crashes in SSDLock and AtomicSSD, and the requests to Marshal that fail half-way.
4. Discovery and Startup together, for a network in which a node comes back under a new
   name after a torn `tinc.conf`.
