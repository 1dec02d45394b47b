------------------------------ MODULE Startup ------------------------------
(***************************************************************************)
(* How the run command comes up on its node's directory: is it configured, *)
(* createConfig if not (tinc.conf, the host file, the keys), IndexHosts,   *)
(* Spawn; and AddHost, by which discovery and joins change the directory   *)
(* while it runs.  No --name, --ip or --tinc-port is given, so that each   *)
(* configuration is a new identity.  Discovery has what happens to the     *)
(* clock and the ssd file meanwhile.                                       *)
(*                                                                         *)
(* A crash comes between two steps, or within a write, and SaveFile drops  *)
(* the error of its deferred Flush: the file is torn and the caller goes on*)
(***************************************************************************)
EXTENDS NodeDir

VARIABLES
    start,    \* where Execute is; "failed": it has returned an error
    self,     \* the name it runs under
    adding,   \* the host that AddHost has written and not listed yet
    faulty,   \* history: something has failed in this start
    cut,      \* history: identities whose creation did not go undisturbed
    used,     \* history: names it has run under
    tears     \* history: how often a save of a finished tinc.conf was torn

startVars == <<start, self, adding, faulty, cut, used, tears>>

StartupTypeOK ==
    /\ start \in {"off", "failed", "conf", "host", "keys", "self", "index", "spawn", "up"}
    /\ self \in Identity \cup {Zero}
    /\ adding \in Peer \cup {NoFile}
    /\ faulty \in BOOLEAN
    /\ cut \subseteq 1..drawn /\ used \subseteq 1..drawn
    /\ tears \in 0..faults
    /\ (self # Zero) = (start = "up")
    /\ adding # NoFile => start = "up" /\ hosts[adding] # NoFile

StartupInit ==
    /\ start = "off"
    /\ self = Zero
    /\ adding = NoFile
    /\ faulty = FALSE
    /\ cut = {}
    /\ used = {}
    /\ tears = 0

Whole(main) ==
    /\ main # NoFile
    /\ Node(main.Name) # NoFile
    /\ main.Interface # Zero
    /\ Node(main.Name).Subnet # Zero

\* Mutant of Configured: it is enough that both files can be read.
ConfiguredIfRead == Main # NoFile /\ Node(Main.Name) # NoFile

Configured == Whole(Main)

\* A save to where it leads: done; not written to its end, with the error dropped,
\* or returned; or ended by a crash.
Saved(file, lines, next, error) ==
    \/ file = lines /\ start' = next /\ UNCHANGED <<faults, faulty>>
    \/ file \in Torn(lines) /\ start' \in {next, error, "off"} /\ Fault /\ faulty' = TRUE

\* A torn step of createConfig spoils the identity it is creating.
Creating(k) == cut' = IF faulty' THEN cut \cup {k} ELSE cut

\* A torn save of a configuration that was in use.
Updating == tears' = IF faults' > faults THEN tears + 1 ELSE tears

Launch ==
    /\ start \in {"off", "failed"}
    /\ Configured \/ drawn < MaxIdentity
    /\ start' = IF Configured THEN "self" ELSE "conf"
    /\ faulty' = FALSE
    /\ UNCHANGED <<nodeVars, self, adding, cut, used, tears>>

CreateMain ==
    /\ start = "conf"
    /\ drawn' = drawn + 1
    /\ Saved(conf', MarshalMain(OwnMain(drawn', <<>>)), "host", "failed")
    /\ Creating(drawn')
    /\ UNCHANGED <<hosts, priv, self, adding, used, tears>>

\* Mutant of CreateHost: it writes the host file after the keys.
CreateHostLast ==
    /\ start = "host"
    /\ \E file \in {MarshalNode(OwnNode(drawn))} \cup Torn(MarshalNode(OwnNode(drawn))) :
          /\ hosts' = [hosts EXCEPT ![drawn] = file]
          /\ Saved(file, MarshalNode(OwnNode(drawn)), "self", "failed")
    /\ priv' = drawn
    /\ Creating(drawn)
    /\ UNCHANGED <<conf, drawn, self, adding, used, tears>>

CreateHost ==
    /\ start = "host"
    /\ \E file \in {MarshalNode(OwnNode(drawn))} \cup Torn(MarshalNode(OwnNode(drawn))) :
          /\ hosts' = [hosts EXCEPT ![drawn] = file]
          /\ Saved(file, MarshalNode(OwnNode(drawn)), "keys", "failed")
    /\ Creating(drawn)
    /\ UNCHANGED <<conf, priv, drawn, self, adding, used, tears>>

\* Keygen: tincd writes the private key and appends the public one to the host
\* file of the name in tinc.conf, which it must be able to read.
Keygen ==
    /\ start = "keys"
    /\ Main # NoFile
    /\ priv' = drawn
    /\ hosts' = IF Main.Name = Zero THEN hosts
                ELSE [hosts EXCEPT ![Main.Name] = Append(@, KeyLine(drawn))]
    /\ start' = "self"
    /\ UNCHANGED <<conf, drawn, faults, self, adding, faulty, cut, used, tears>>

\* tincd fails, or is not there, or the machine goes down; it may have got as far
\* as the private key.
FailKeygen ==
    /\ start = "keys"
    /\ IF Main = NoFile THEN UNCHANGED faults ELSE Fault
    /\ faulty' = TRUE
    /\ priv' \in {priv, drawn}
    /\ start' \in {"failed", "off"}
    /\ Creating(drawn)
    /\ UNCHANGED <<conf, hosts, drawn, self, adding, used, tears>>

\* ReadNodeConfig, after which Execute knows its name.
ReadSelf ==
    /\ start = "self"
    /\ start' = IF Main = NoFile \/ Node(Main.Name) = NoFile THEN "failed" ELSE "index"
    /\ UNCHANGED <<nodeVars, self, adding, faulty, cut, used, tears>>

IndexHosts ==
    /\ start = "index"
    /\ Saved(conf', MarshalMain([Main EXCEPT !.ConnectTo = SetToSeq(HostNames)]),
             "spawn", "failed")
    /\ Updating
    /\ UNCHANGED <<hosts, priv, drawn, self, adding, cut, used>>

\* Spawn reads the configuration once more.
Spawn ==
    /\ start = "spawn"
    /\ \/ /\ Whole(Main)
          /\ start' = "up"
          /\ self' = Main.Name
          /\ used' = used \cup {Main.Name}
       \/ /\ ~ Whole(Main)
          /\ start' = "failed"
          /\ UNCHANGED <<self, used>>
    /\ UNCHANGED <<nodeVars, adding, faulty, cut, tears>>

\* AddHost takes configLock and writes the host file; if that fails it leaves a
\* torn one and returns, ...
AddHost(p) ==
    /\ start = "up"
    /\ adding = NoFile
    /\ \/ /\ hosts' = [hosts EXCEPT ![p] = PeerFile(p)]
          /\ adding' = p
          /\ UNCHANGED <<faults, faulty>>
       \/ /\ \E file \in Torn(PeerFile(p)) : hosts' = [hosts EXCEPT ![p] = file]
          /\ Fault /\ faulty' = TRUE
          /\ UNCHANGED adding
    /\ UNCHANGED <<conf, priv, drawn, start, self, cut, used, tears>>

\* Mutant of ListHost: it saves a Main that it has not read.
ListHostUnread ==
    /\ start = "up"
    /\ adding # NoFile
    /\ Saved(conf', MarshalMain([NoMain EXCEPT !.ConnectTo = <<adding>>]), "up", "up")
    /\ Updating
    /\ self' = IF start' = "up" THEN self ELSE Zero
    /\ adding' = NoFile
    /\ UNCHANGED <<hosts, priv, drawn, cut, used>>

\* ... then lists it in tinc.conf, unless that can not be read or lists it already.
\* An error goes to AddHost's caller, who logs it.
ListHost ==
    /\ start = "up"
    /\ adding # NoFile
    /\ IF Main = NoFile \/ adding \in Range(Main.ConnectTo)
       THEN UNCHANGED <<conf, start, faults, faulty>>
       ELSE Saved(conf', MarshalMain([Main EXCEPT !.ConnectTo = Append(@, adding)]), "up", "up")
    /\ Updating
    /\ self' = IF start' = "up" THEN self ELSE Zero
    /\ adding' = NoFile
    /\ UNCHANGED <<hosts, priv, drawn, cut, used>>

\* The end of the process, between two writes.
Stop ==
    /\ start \notin {"off", "failed"}
    /\ start' = "off"
    /\ self' = Zero
    /\ adding' = NoFile
    /\ cut' = IF start \in {"host", "keys"} THEN cut \cup {drawn} ELSE cut
    /\ UNCHANGED <<nodeVars, faulty, used, tears>>

StartupNext ==
    \/ Launch \/ CreateMain \/ CreateHost \/ Keygen \/ FailKeygen
    \/ ReadSelf \/ IndexHosts \/ Spawn
    \/ \E p \in Peer : AddHost(p)
    \/ ListHost \/ Stop

-----------------------------------------------------------------------------
(* Properties.                                                             *)

\* No state that crashes, torn writes and earlier errors can leave the directory in
\* makes Execute fail: it returns an error only when something fails in this very
\* start.  (Configured finds out all that ReadNodeConfig, IndexHosts and Spawn
\* would stumble over, main_linux.go:174-213.)
NoDeadEnd == start = "failed" => faulty

\* A node that runs under an identity whose creation went undisturbed has its private
\* key, and its host file, which the other nodes get, has the public one.
Keyed ==
    start = "up" /\ self \notin cut => priv = self /\ KeyOf(hosts[self]) = self

\* The random name and address are drawn once (main_linux.go:39) for as long as
\* no save of tinc.conf is torn; each such tear costs at most one identity.
OneIdentity == Cardinality(used) <= 1 + tears
=============================================================================
