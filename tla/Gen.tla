-------------------------------- MODULE Gen --------------------------------
(***************************************************************************)
(* The older way into a network: gen writes a node's directory and asks one*)
(* boot node after another to store its host file and answer with theirs   *)
(* (cmd/tinc-boot/gen, cmd/tinc-boot/node).  A gen that gives up, fails or *)
(* crashes is run again, under the same name, which is identity 1; its     *)
(* port, its address and its keys are drawn anew by every run.             *)
(*                                                                         *)
(* A boot node's handler goes on when gen does not wait for it any more. A *)
(* boot node that crashes is started again (Restart=always).               *)
(***************************************************************************)
EXTENDS NodeDir

CONSTANT Boot   \* the boot nodes, a sequence of peers: the URLs given to gen

ASSUME BootAssumption == Boot \in Seq(Peer) /\ Boot # <<>>

Foreign == <<Line("Subnet", Zero)>>   \* the host file of another node of the same name
BootNode == Range(Boot)
Self == 1

\* What a run of gen is given, or has drawn.
Cmd == [identity : Identity, prefixOK : BOOLEAN, standalone : BOOLEAN, genKey : BOOLEAN,
        connectTo : Seq(Peer \cup {Self})]

VARIABLES
    gen,       \* where Execute is
    cmd,       \* the options of the last run
    url,       \* the URL it tries, a position in Boot
    stored,    \* stored[b]: the host file that boot node b has of the name
    handler,   \* handler[b][k]: b's handler of the request of run k
    sent,      \* sent[k]: the host file in the request of run k
    given      \* history: stored as it was when gen was first run

genVars == <<gen, cmd, url, stored, handler, sent, given>>

GenTypeOK ==
    /\ gen \in {"off", "conf", "host", "keys", "boot", "waiting", "import", "list",
                "done", "gaveup", "failed"}
    /\ url \in DOMAIN Boot
    /\ stored \in [BootNode -> File \cup {NoFile}] /\ given \in [BootNode -> File \cup {NoFile}]
    /\ sent \in [Identity -> File \cup {NoFile}]
    /\ handler \in [BootNode -> [Identity -> {"none", "asked", "stored", "answered", "refused"}]]
    /\ cmd \in Cmd
    /\ gen = "import" => handler[Boot[url]][cmd.identity] = "answered"
    /\ \A k \in Identity : k > drawn => \A b \in BootNode : handler[b][k] = "none"

GenInit ==
    /\ gen = "off"
    /\ cmd = [identity |-> Self, prefixOK |-> TRUE, standalone |-> TRUE, genKey |-> FALSE,
              connectTo |-> <<>>]
    /\ url = 1
    /\ stored \in [BootNode -> {NoFile, Foreign}]
    /\ handler = [b \in BootNode |-> [k \in Identity |-> "none"]]
    /\ sent = [k \in Identity |-> NoFile]
    /\ given = stored

\* The templates TincConf and Host.  Name and Interface, which is the network's
\* name, are the same in all runs.
GenConf == Field("Name", Self) \o Field("LocalDiscovery", 1) \o Field("Interface", Self)
           \o Field("Port", cmd.identity) \o Slice("ConnectTo", cmd.connectTo)
GenHost == MarshalNode(OwnNode(cmd.identity))

-----------------------------------------------------------------------------
(* gen.                                                                    *)

\* Execute, up to the files.  A prefix that generateIP does not take, as its own
\* default 172.16.0.0/12, ends it before anything is written.
RunGen(options) ==
    /\ cmd' = options
    /\ gen' = IF options.prefixOK THEN "conf" ELSE "failed"
    /\ url' = 1
    /\ UNCHANGED <<dirVars, faults, stored, handler, sent, given>>

\* The administrator runs gen, to join or for the first node of a network.
Administer(prefixOK, standalone) ==
    /\ gen \in {"off", "gaveup", "failed"}
    /\ drawn < MaxIdentity
    /\ drawn' = drawn + 1
    /\ RunGen([identity |-> drawn', prefixOK |-> prefixOK, standalone |-> standalone,
               genKey |-> TRUE, connectTo |-> <<>>])

\* ioutil.WriteFile, and where it leads; an error ends gen, as a crash does.
Written(file, lines, next) ==
    \/ file = lines /\ gen' = next /\ UNCHANGED faults
    \/ file \in Torn(lines) /\ gen' = "failed" /\ Fault

WriteConf ==
    /\ gen = "conf"
    /\ Written(conf', GenConf, "host")
    /\ UNCHANGED <<hosts, priv, drawn, cmd, url, stored, handler, sent, given>>

WriteHost ==
    /\ gen = "host"
    /\ \E file \in {GenHost} \cup Torn(GenHost) :
          /\ hosts' = [hosts EXCEPT ![Self] = file]
          /\ Written(file, GenHost, "keys")
    /\ UNCHANGED <<conf, priv, drawn, cmd, url, stored, handler, sent, given>>

\* runKeyGen: both files, or the private key at most.  boot has nothing to do for a
\* standalone node.
RunKeyGen ==
    /\ gen = "keys"
    /\ \/ /\ priv' = IF cmd.genKey THEN cmd.identity ELSE priv
          /\ hosts' = IF cmd.genKey
                      THEN [hosts EXCEPT ![Self] = Append(@, KeyLine(cmd.identity))] ELSE hosts
          /\ gen' = IF cmd.standalone THEN "done" ELSE "boot"
          /\ UNCHANGED faults
       \/ /\ cmd.genKey
          /\ priv' \in {priv, cmd.identity}
          /\ gen' = "failed"
          /\ Fault
          /\ UNCHANGED hosts
    /\ UNCHANGED <<conf, drawn, cmd, url, stored, handler, sent, given>>

\* requestBootnode, the request; boot has encrypted the host file as it is now.
Request ==
    /\ gen = "boot"
    /\ gen' = "waiting"
    /\ sent' = [sent EXCEPT ![cmd.identity] = hosts[Self]]
    /\ handler' = [handler EXCEPT ![Boot[url]][cmd.identity] = "asked"]
    /\ UNCHANGED <<nodeVars, cmd, url, stored, given>>

\* Mutant of NextURL: the first refusal is the last.
NoNextURL == gen' = "gaveup" /\ UNCHANGED url

\* The loop in boot goes on, or ends in "all boot nodes failed".
NextURL ==
    IF url < Len(Boot) THEN gen' = "boot" /\ url' = url + 1
                       ELSE gen' = "gaveup" /\ UNCHANGED url

\* No answer: the boot node is down, the answer is lost, or Timeout has passed; the
\* handler, if there is one, does not learn of it.
Lose ==
    /\ gen = "waiting"
    /\ Fault
    /\ NextURL
    /\ UNCHANGED <<dirVars, drawn, cmd, stored, handler, sent, given>>

\* An answer that is not 200 OK.
Refused ==
    /\ gen = "waiting"
    /\ handler[Boot[url]][cmd.identity] = "refused"
    /\ NextURL
    /\ UNCHANGED <<nodeVars, cmd, stored, handler, sent, given>>

\* Mutant of Answered: the status of the answer is not looked at.
AnsweredAnyhow ==
    /\ gen = "waiting"
    /\ handler[Boot[url]][cmd.identity] \in {"answered", "refused"}
    /\ gen' = "import"
    /\ UNCHANGED <<nodeVars, cmd, url, stored, handler, sent, given>>

Answered ==
    /\ gen = "waiting"
    /\ handler[Boot[url]][cmd.identity] = "answered"
    /\ gen' = "import"
    /\ UNCHANGED <<nodeVars, cmd, url, stored, handler, sent, given>>

\* The boot node's host file is written; an error of WriteFile has boot try the next.
Import ==
    /\ gen = "import"
    /\ \/ /\ hosts' = [hosts EXCEPT ![Boot[url]] = PeerFile(Boot[url])]
          /\ gen' = "list"
          /\ UNCHANGED <<faults, url>>
       \/ /\ \E file \in Torn(PeerFile(Boot[url])) : hosts' = [hosts EXCEPT ![Boot[url]] = file]
          /\ Fault
          /\ NextURL
    /\ UNCHANGED <<conf, priv, drawn, cmd, stored, handler, sent, given>>

\* The boot node goes in front of what tinc.conf says.
List ==
    /\ gen = "list"
    /\ LET listed == <<Line("ConnectTo", Boot[url])>> \o conf
       IN \/ conf' = listed /\ gen' = "done" /\ UNCHANGED <<faults, url>>
          \/ conf' \in Torn(listed) /\ Fault /\ NextURL
    /\ UNCHANGED <<hosts, priv, drawn, cmd, stored, handler, sent, given>>

\* gen ends between two steps: a crash, or an error of what is left out here, the
\* choice of the port, the copy of the binary and the scripts for tincd.
Interrupt ==
    /\ gen \notin {"off", "done", "gaveup", "failed"}
    /\ Fault
    /\ gen' = "failed"
    /\ UNCHANGED <<dirVars, drawn, cmd, url, stored, handler, sent, given>>

-----------------------------------------------------------------------------
(* bootnode.                                                               *)

\* Mutant of Store: a file that is there already is as good as the one sent.
StoreOrKeep(b, k) ==
    /\ handler[b][k] = "asked"
    /\ handler' = [handler EXCEPT ![b][k] = "stored"]
    /\ stored' = [stored EXCEPT ![b] = IF @ = NoFile THEN sent[k] ELSE @]
    /\ UNCHANGED <<nodeVars, gen, cmd, url, sent, given>>

\* WriteFile with O_EXCL: a name that has a file, whole or not, is refused.
Store(b, k) ==
    /\ handler[b][k] = "asked"
    /\ IF stored[b] = NoFile
       THEN /\ stored' = [stored EXCEPT ![b] = sent[k]]
            /\ handler' = [handler EXCEPT ![b][k] = "stored"]
       ELSE /\ handler' = [handler EXCEPT ![b][k] = "refused"]
            /\ UNCHANGED stored
    /\ UNCHANGED <<nodeVars, gen, cmd, url, sent, given>>

\* A write that fails leaves the file it has created, and its error is the answer.
FailStore(b, k) ==
    /\ handler[b][k] = "asked"
    /\ stored[b] = NoFile
    /\ Fault
    /\ \E file \in Torn(sent[k]) : stored' = [stored EXCEPT ![b] = file]
    /\ handler' = [handler EXCEPT ![b][k] = "refused"]
    /\ UNCHANGED <<dirVars, drawn, gen, cmd, url, sent, given>>

\* It reads its own host file and seals it; if it can not, the name stays stored.
Answer(b, k) ==
    /\ handler[b][k] = "stored"
    /\ \/ handler' = [handler EXCEPT ![b][k] = "answered"] /\ UNCHANGED faults
       \/ handler' = [handler EXCEPT ![b][k] = "refused"] /\ Fault
    /\ UNCHANGED <<dirVars, drawn, gen, cmd, url, stored, sent, given>>

\* The boot node crashes with its handlers, and a write of theirs may be cut short.
CrashBoot(b) ==
    /\ \E k \in Identity : handler[b][k] \in {"asked", "stored"}
    /\ Fault
    /\ stored' \in {stored} \cup
          {[stored EXCEPT ![b] = file] :
              file \in UNION {Torn(sent[k]) : k \in {j \in Identity :
                                  stored[b] = NoFile /\ handler[b][j] = "asked"}}}
    /\ handler' = [handler EXCEPT ![b] = [k \in Identity |->
                      IF @[k] \in {"asked", "stored"} THEN "refused" ELSE @[k]]]
    /\ UNCHANGED <<dirVars, drawn, gen, cmd, url, sent, given>>

GenNext ==
    \/ \E prefixOK, standalone \in BOOLEAN : Administer(prefixOK, standalone)
    \/ WriteConf \/ WriteHost \/ RunKeyGen \/ Request
    \/ Lose \/ Refused \/ Answered \/ Import \/ List \/ Interrupt
    \/ \E b \in BootNode, k \in Identity : \/ Store(b, k) \/ FailStore(b, k) \/ Answer(b, k)
    \/ \E b \in BootNode : CrashBoot(b)

-----------------------------------------------------------------------------
(* Properties.                                                             *)

\* A gen that says it is done has been let in: some boot node that it has in hosts/
\* and on a ConnectTo line has stored the host file that gen has now, with the key
\* whose private half it has.  Requests of earlier runs, whose keys are gone, may
\* still be on their way, and every one of them comes under the same name.
Admitted ==
    gen = "done" /\ ~ cmd.standalone =>
        \E b \in BootNode : /\ stored[b] = hosts[Self] /\ KeyOf(stored[b]) = priv
                            /\ hosts[b] = PeerFile(b)
                            /\ Line("ConnectTo", b) \in Range(conf)

\* Unless something has failed, gen gives up only if every boot node already had
\* the name: any one that will have it is reached (gen/main.go:208-217).
GivesUp == gen = "gaveup" /\ faults = 0 => \A b \in BootNode : given[b] # NoFile
=============================================================================
