---------------------------- MODULE SetupProofs ----------------------------
(***************************************************************************)
(* The theorems about Setup, for any number of identities, peers, boot     *)
(* nodes and faults: the inductive invariants of gen and of the script, and*)
(* that of the specification, of which StartupProofs has the third part.   *)
(***************************************************************************)
EXTENDS Setup, StartupProofs

Joining == {"boot", "waiting", "import", "list"}
WholeHost == Append(GenHost, KeyLine(cmd.identity))   \* what tincd -K makes of it

-----------------------------------------------------------------------------
(* Facts about gen's files, boot nodes and requests.                       *)

\* The boot nodes are peers, and the name of a node that gen makes is none of them.
LEMMA BootNodes ==
    ASSUME url \in DOMAIN Boot
    PROVE  /\ BootNode \subseteq Peer /\ BootNode \subseteq Name /\ Boot[url] \in BootNode
           /\ Self \in Identity /\ Self \in Name /\ Self \notin Peer /\ Self # Zero
           /\ DOMAIN Boot = 1..Len(Boot) /\ Len(Boot) \in Nat /\ url \in Nat
           /\ \A i \in DOMAIN Boot : Boot[i] \in BootNode
<1>1. Boot \in Seq(Peer)
    BY BootAssumption
<1>2. BootNode \subseteq Peer /\ \A i \in DOMAIN Boot : Boot[i] \in BootNode
    BY <1>1 DEF BootNode, Range
<1>3. DOMAIN Boot = 1..Len(Boot) /\ Len(Boot) \in Nat
    BY <1>1
<1>4. Self \in Identity /\ Self \notin Peer /\ Self # Zero
    BY NodeDirAssumption DEF Self, Identity, Zero
<1>. QED BY <1>2, <1>3, <1>4 DEF Name

\* The files of a run of gen are files, and the key in the host file is the run's.
LEMMA GenFiles ==
    ASSUME cmd \in Cmd
    PROVE  /\ GenConf \in File /\ GenHost \in File /\ WholeHost \in File
           /\ GenConf # NoFile /\ GenHost # NoFile /\ WholeHost # NoFile
           /\ cmd.identity \in Identity /\ KeyOf(WholeHost) = cmd.identity
<1>1. /\ cmd.identity \in Identity /\ cmd.connectTo \in Seq(Peer \cup {Self})
      /\ cmd.identity \in Value /\ cmd.identity \in PortValue
    BY NodeDirAssumption DEF Cmd, Value, Name, Identity, PortValue
<1>2. Self \in Value /\ 1 \in Value
    BY NodeDirAssumption DEF Self, Value, Name, Identity
<1>3. cmd.connectTo \in Seq(Value)
    <2>1. Peer \cup {Self} \subseteq Value
        BY <1>2 DEF Value, Name
    <2>. QED BY <1>1, <2>1
<1>4. /\ Field("Name", Self) \in File /\ Field("LocalDiscovery", 1) \in File
      /\ Field("Interface", Self) \in File /\ Field("Port", cmd.identity) \in File
      /\ Slice("ConnectTo", cmd.connectTo) \in File
    BY <1>1, <1>2, <1>3, FieldType, SliceType DEF Key
<1>5. GenConf \in File
    BY <1>4 DEF GenConf, File
<1>6. GenHost \in File /\ WholeHost \in File /\ KeyOf(WholeHost) = cmd.identity
    BY <1>1, OwnNodeReadBack DEF GenHost, WholeHost
<1>. QED BY <1>1, <1>5, <1>6, ValuesAreNoFile

\* They are the same as long as the run is.
LEMMA GenFilesKept ==
    ASSUME UNCHANGED cmd
    PROVE  GenConf' = GenConf /\ GenHost' = GenHost /\ WholeHost' = WholeHost
BY DEF GenConf, GenHost, WholeHost

\* A torn write leaves a file.
LEMMA TornFile ==
    ASSUME NEW lines \in File, NEW f \in Torn(lines)
    PROVE  f \in File /\ f # NoFile
BY TornLines, ValuesAreNoFile

\* A step that leaves the boot nodes and their handlers alone.
LEMMA GenTypeKept ==
    ASSUME GenTypeOK, UNCHANGED <<cmd, stored, handler, sent, given>>,
           drawn \in Nat, drawn' \in Nat, drawn <= drawn', url' \in DOMAIN Boot,
           gen' \in {"off", "conf", "host", "keys", "boot", "waiting", "import", "list",
                     "done", "gaveup", "failed"},
           gen' = "import" => handler[Boot[url']][cmd.identity] = "answered"
    PROVE  GenTypeOK'
<1>1. \A k \in Identity : k > drawn' => k > drawn
    BY NodeDirAssumption DEF Identity
<1>. QED BY <1>1 DEF GenTypeOK

\* What NextURL leads to.
LEMMA NextURLStep ==
    ASSUME url \in DOMAIN Boot, NextURL
    PROVE  /\ url' \in DOMAIN Boot
           /\ \/ gen' = "boot" /\ url' = url + 1
              \/ gen' = "gaveup" /\ url' = url /\ \A i \in DOMAIN Boot : i < url \/ i = url
<1>1. DOMAIN Boot = 1..Len(Boot) /\ Len(Boot) \in Nat /\ url \in Nat
    BY BootNodes
<1>2. CASE url < Len(Boot)
    BY <1>1, <1>2 DEF NextURL
<1>3. CASE ~ (url < Len(Boot))
    BY <1>1, <1>3 DEF NextURL
<1>. QED BY <1>2, <1>3

-----------------------------------------------------------------------------
(* gen and its boot nodes.                                                 *)

\* What a run of gen has written by the time it goes on.
Progress ==
    /\ gen # "off" => cmd.identity = drawn /\ cmd.genKey = TRUE
    /\ gen \in {"host", "keys"} \cup Joining => conf # NoFile
    /\ gen = "keys" => hosts[Self] = GenHost
    /\ gen \in Joining => hosts[Self] = WholeHost /\ priv = cmd.identity
    /\ gen = "list" => hosts[Boot[url]] = PeerFile(Boot[url])

\* A boot node that has accepted a request has the file of that request, no other has
\* replaced it, and a request of this run carries the host file as it is.
Requests ==
    /\ gen \in {"conf", "host", "keys"} => \A b \in BootNode : handler[b][cmd.identity] = "none"
    /\ \A b \in BootNode, k \in Identity :
          /\ handler[b][k] # "none" => sent[k] # NoFile
          /\ handler[b][k] \in {"stored", "answered"} => stored[b] = sent[k]
    /\ gen \in Joining => \A b \in BootNode :
          handler[b][cmd.identity] # "none" => sent[cmd.identity] = hosts[Self]
    /\ gen \in {"import", "list"} => handler[Boot[url]][cmd.identity] = "answered"

\* Admitted, with the key pair that gen has.
LetIn ==
    gen = "done" /\ cmd.standalone = FALSE =>
        /\ hosts[Self] = WholeHost /\ priv = cmd.identity
        /\ \E b \in BootNode : /\ stored[b] = hosts[Self]
                               /\ hosts[b] = PeerFile(b)
                               /\ Line("ConnectTo", b) \in Range(conf)

\* Without a fault there is one request at a time, that of the boot node which gen
\* tries, and only that one can have stored the name.
Undisturbed == faults = 0 =>
    /\ \A b \in BootNode :
          stored[b] # given[b] => /\ gen \in {"waiting", "import", "list", "done"} /\ b = Boot[url]
                                  /\ handler[b][cmd.identity] \in {"stored", "answered"}
    /\ \A b \in BootNode, k \in Identity :
          /\ handler[b][k] = "refused" => given[b] # NoFile
          /\ handler[b][k] \in {"asked", "stored", "answered"} =>
                /\ gen \in {"waiting", "import", "list", "done"}
                /\ k = cmd.identity /\ b = Boot[url]
    /\ gen \in {"conf", "host", "keys"} \cup Joining =>
          \A i \in DOMAIN Boot : i < url => given[Boot[i]] # NoFile
    /\ gen = "gaveup" => \A b \in BootNode : given[b] # NoFile

GenInv == NodeTypeOK /\ GenTypeOK /\ Progress /\ Requests /\ LetIn /\ Undisturbed

\* Facts that every step's proof uses.
LEMMA GenFacts ==
    ASSUME NodeTypeOK, GenTypeOK
    PROVE  /\ faults \in Nat /\ faults \in 0..MaxFaults /\ drawn \in Nat /\ drawn \in 0..MaxIdentity
           /\ Fault => faults' \in 0..MaxFaults /\ faults' # 0
           /\ cmd \in Cmd /\ url \in DOMAIN Boot
           /\ hosts \in [Name -> File \cup {NoFile}] /\ conf \in File \cup {NoFile}
BY NodeDirAssumption DEF NodeTypeOK, GenTypeOK, Fault

\* A run begins: nothing of the last one matters.
LEMMA AdministerInv ==
    ASSUME GenInv, NEW prefixOK \in BOOLEAN, NEW standalone \in BOOLEAN,
           Administer(prefixOK, standalone)
    PROVE  GenInv'
<1>. USE DEF nodeVars, dirVars
<1>0. NodeTypeOK /\ GenTypeOK /\ Requests /\ Undisturbed
    BY DEF GenInv
<1>1. /\ gen \in {"off", "gaveup", "failed"} /\ drawn < MaxIdentity /\ drawn' = drawn + 1
      /\ cmd' = [identity |-> drawn', prefixOK |-> prefixOK, standalone |-> standalone,
                 genKey |-> TRUE, connectTo |-> <<>>]
      /\ gen' \in {"conf", "failed"} /\ url' = 1
      /\ UNCHANGED <<conf, hosts, priv, faults, stored, handler, sent, given>>
    BY DEF Administer, RunGen
<1>2. /\ drawn \in Nat /\ drawn' \in Identity /\ drawn' \in 0..MaxIdentity /\ priv \in 0..drawn'
      /\ url' \in DOMAIN Boot
    BY <1>0, <1>1, NodeDirAssumption, BootAssumption DEF NodeTypeOK, Identity
<1>3. cmd' \in Cmd /\ cmd'.identity = drawn' /\ cmd'.genKey = TRUE
    BY <1>1, <1>2 DEF Cmd
<1>4. \A b \in BootNode : handler[b][drawn'] = "none"
    BY <1>0, <1>1, <1>2 DEF GenTypeOK
<1>5. NodeTypeOK'
    BY <1>0, <1>1, <1>2 DEF NodeTypeOK
<1>6. GenTypeOK'
    <2>1. \A k \in Identity : k > drawn' => k > drawn
        BY <1>1, <1>2 DEF Identity
    <2>. QED BY <1>0, <1>1, <1>2, <1>3, <2>1 DEF GenTypeOK
<1>7. Progress' /\ LetIn'
    BY <1>1, <1>3 DEF Progress, LetIn, Joining
<1>8. Requests'
    BY <1>0, <1>1, <1>3, <1>4 DEF Requests, Joining
<1>9. Undisturbed'
    <2>1. \A i \in DOMAIN Boot : ~ (i < url')
        BY <1>1, BootAssumption
    <2>. QED BY <1>0, <1>1, <2>1 DEF Undisturbed
<1>. QED BY <1>5, <1>6, <1>7, <1>8, <1>9 DEF GenInv

\* The steps up to the files, which no boot node learns of; types first, because a
\* script's gen takes them too.
LEMMA WriteConfType ==
    ASSUME NodeTypeOK, GenTypeOK, WriteConf
    PROVE  /\ NodeTypeOK' /\ GenTypeOK'
           /\ \/ gen' = "host" /\ conf' = GenConf /\ UNCHANGED faults
              \/ gen' = "failed" /\ faults' # 0
<1>. USE DEF nodeVars, dirVars
<1>1. /\ \/ conf' = GenConf /\ gen' = "host" /\ UNCHANGED faults
         \/ conf' \in Torn(GenConf) /\ gen' = "failed" /\ Fault
      /\ UNCHANGED <<hosts, priv, drawn, cmd, url, stored, handler, sent, given>>
    BY DEF WriteConf, Written
<1>2. conf' \in File
    BY <1>1, GenFiles, GenFacts, TornFile
<1>3. faults' \in 0..MaxFaults /\ (Fault => faults' # 0)
    BY <1>1, GenFacts
<1>4. NodeTypeOK'
    BY <1>1, <1>2, <1>3 DEF NodeTypeOK
<1>5. GenTypeOK'
    BY <1>1, GenFacts, GenTypeKept
<1>. QED BY <1>1, <1>3, <1>4, <1>5

\* The host file, likewise.
LEMMA WriteHostType ==
    ASSUME NodeTypeOK, GenTypeOK, WriteHost
    PROVE  /\ NodeTypeOK' /\ GenTypeOK'
           /\ \/ gen' = "keys" /\ hosts'[Self] = GenHost /\ UNCHANGED faults
              \/ gen' = "failed" /\ faults' # 0
           /\ \A m \in Name \ {Self} : hosts'[m] = hosts[m]
<1>. USE DEF nodeVars, dirVars
<1>1. PICK file \in {GenHost} \cup Torn(GenHost) :
         /\ hosts' = [hosts EXCEPT ![Self] = file]
         /\ Written(file, GenHost, "keys")
    BY DEF WriteHost
<1>2. /\ \/ file = GenHost /\ gen' = "keys" /\ UNCHANGED faults
         \/ gen' = "failed" /\ Fault
      /\ UNCHANGED <<conf, priv, drawn, cmd, url, stored, handler, sent, given>>
    BY <1>1 DEF WriteHost, Written
<1>3. file \in File
    BY <1>1, GenFiles, GenFacts, TornFile
<1>4. faults' \in 0..MaxFaults /\ (Fault => faults' # 0)
    BY <1>2, GenFacts
<1>5. /\ hosts' \in [Name -> File \cup {NoFile}] /\ hosts'[Self] = file
      /\ \A m \in Name \ {Self} : hosts'[m] = hosts[m]
    BY <1>1, <1>3, GenFacts, BootNodes
<1>6. NodeTypeOK'
    BY <1>2, <1>4, <1>5 DEF NodeTypeOK
<1>7. GenTypeOK'
    BY <1>2, GenFacts, GenTypeKept
<1>. QED BY <1>2, <1>4, <1>5, <1>6, <1>7

\* What is written of tinc.conf matters only if it is whole.
LEMMA WriteConfInv ==
    ASSUME GenInv, WriteConf
    PROVE  GenInv'
<1>. USE DEF nodeVars, dirVars
<1>0. NodeTypeOK /\ GenTypeOK /\ Progress /\ Requests /\ Undisturbed
    BY DEF GenInv
<1>1. /\ NodeTypeOK' /\ GenTypeOK'
      /\ \/ gen' = "host" /\ conf' = GenConf /\ UNCHANGED faults
         \/ gen' = "failed" /\ faults' # 0
    BY <1>0, WriteConfType
<1>2. gen = "conf" /\ UNCHANGED <<hosts, priv, drawn, cmd, url, stored, handler, sent, given>>
    BY DEF WriteConf
<1>3. GenConf # NoFile
    BY <1>0, GenFiles, GenFacts
<1>4. Progress' /\ LetIn'
    BY <1>0, <1>1, <1>2, <1>3 DEF Progress, LetIn, Joining
<1>5. Requests'
    BY <1>0, <1>1, <1>2 DEF Requests, Joining
<1>6. Undisturbed'
    BY <1>0, <1>1, <1>2 DEF Undisturbed
<1>. QED BY <1>1, <1>4, <1>5, <1>6 DEF GenInv

\* The host file is that of this run, as long as the run goes on.
LEMMA WriteHostInv ==
    ASSUME GenInv, WriteHost
    PROVE  GenInv'
<1>. USE DEF nodeVars, dirVars
<1>0. NodeTypeOK /\ GenTypeOK /\ Progress /\ Requests /\ Undisturbed
    BY DEF GenInv
<1>1. /\ NodeTypeOK' /\ GenTypeOK'
      /\ \/ gen' = "keys" /\ hosts'[Self] = GenHost /\ UNCHANGED faults
         \/ gen' = "failed" /\ faults' # 0
    BY <1>0, WriteHostType
<1>2. gen = "host" /\ UNCHANGED <<conf, priv, drawn, cmd, url, stored, handler, sent, given>>
    BY DEF WriteHost
<1>3. GenHost' = GenHost
    BY <1>2, GenFilesKept
<1>4. Progress' /\ LetIn'
    BY <1>0, <1>1, <1>2, <1>3 DEF Progress, LetIn, Joining
<1>5. Requests'
    BY <1>0, <1>1, <1>2 DEF Requests, Joining
<1>6. Undisturbed'
    BY <1>0, <1>1, <1>2 DEF Undisturbed
<1>. QED BY <1>1, <1>4, <1>5, <1>6 DEF GenInv

\* The key pair: gen goes on to the boot nodes only with both halves.
LEMMA RunKeyGenInv ==
    ASSUME GenInv, RunKeyGen
    PROVE  GenInv'
<1>. USE DEF nodeVars, dirVars
<1>0. NodeTypeOK /\ GenTypeOK /\ Progress /\ Requests /\ Undisturbed /\ gen = "keys"
    BY DEF GenInv, RunKeyGen
<1>a. /\ cmd.genKey = TRUE /\ cmd.identity = drawn /\ hosts[Self] = GenHost /\ conf # NoFile
      /\ cmd.identity \in Identity /\ WholeHost \in File
    BY <1>0, GenFiles, GenFacts DEF Progress
<1>b. UNCHANGED <<conf, drawn, cmd, url, stored, handler, sent, given>>
    BY DEF RunKeyGen
<1>1. \/ /\ priv' = cmd.identity /\ hosts' = [hosts EXCEPT ![Self] = WholeHost]
         /\ gen' \in {"done", "boot"} /\ (gen' = "done" => cmd.standalone = TRUE)
         /\ UNCHANGED faults
      \/ priv' \in {priv, cmd.identity} /\ gen' = "failed" /\ Fault /\ UNCHANGED hosts
    <2>1. CASE /\ priv' = IF cmd.genKey THEN cmd.identity ELSE priv
               /\ hosts' = IF cmd.genKey
                           THEN [hosts EXCEPT ![Self] = Append(@, KeyLine(cmd.identity))] ELSE hosts
               /\ gen' = IF cmd.standalone THEN "done" ELSE "boot"
               /\ UNCHANGED faults
        <3>1. priv' = cmd.identity
            BY <1>a, <2>1, Zenon
        <3>2. hosts' = [hosts EXCEPT ![Self] = Append(@, KeyLine(cmd.identity))]
            BY <1>a, <2>1, Zenon
        <3>3. hosts' = [hosts EXCEPT ![Self] = WholeHost]
            BY <1>a, <3>2 DEF WholeHost
        <3>4. cmd.standalone \in BOOLEAN
            BY <1>0 DEF GenTypeOK, Cmd
        <3>5. CASE cmd.standalone = TRUE
            <4>1. gen' = "done"
                BY <2>1, <3>5, Zenon
            <4>. QED BY <2>1, <3>1, <3>3, <3>5, <4>1
        <3>6. CASE cmd.standalone = FALSE
            <4>1. gen' = "boot"
                BY <2>1, <3>6, Zenon
            <4>. QED BY <2>1, <3>1, <3>3, <4>1
        <3>. QED BY <3>4, <3>5, <3>6
    <2>2. CASE /\ priv' \in {priv, cmd.identity} /\ gen' = "failed" /\ Fault /\ UNCHANGED hosts
        BY <2>2
    <2>. QED BY <2>1, <2>2 DEF RunKeyGen
<1>c. faults' \in 0..MaxFaults /\ (Fault => faults' # 0)
    BY <1>0, <1>1, GenFacts
<1>d. priv' \in 0..drawn' /\ cmd.identity \in 0..drawn
    BY <1>0, <1>1, <1>a, <1>b, GenFacts DEF NodeTypeOK, Identity
<1>e. /\ hosts' \in [Name -> File \cup {NoFile}]
      /\ gen' = "boot" => hosts'[Self] = WholeHost
    BY <1>0, <1>1, <1>a, GenFacts, BootNodes
<1>2. NodeTypeOK'
    BY <1>0, <1>b, <1>c, <1>d, <1>e DEF NodeTypeOK
<1>3. GenTypeOK'
    BY <1>0, <1>1, <1>b, GenFacts, GenTypeKept
<1>4. Progress' /\ LetIn'
    BY <1>0, <1>1, <1>a, <1>b, <1>e, GenFilesKept DEF Progress, LetIn, Joining
<1>5. Requests'
    BY <1>0, <1>1, <1>a, <1>b DEF Requests, Joining
<1>6. Undisturbed'
    BY <1>0, <1>1, <1>b, <1>c DEF Undisturbed, Joining
<1>. QED BY <1>2, <1>3, <1>4, <1>5, <1>6 DEF GenInv

\* The request.  A boot node that is tried again, listed twice, is sent the same.
LEMMA RequestInv ==
    ASSUME GenInv, Request
    PROVE  GenInv'
<1>. USE DEF nodeVars, dirVars
<1>. DEFINE b0 == Boot[url]
            k0 == cmd.identity
<1>0. NodeTypeOK /\ GenTypeOK /\ Progress /\ Requests /\ Undisturbed /\ gen = "boot"
    BY DEF GenInv, Request
<1>1. /\ gen' = "waiting"
      /\ sent' = [sent EXCEPT ![k0] = hosts[Self]]
      /\ handler' = [handler EXCEPT ![b0][k0] = "asked"]
      /\ UNCHANGED <<conf, hosts, priv, drawn, faults, cmd, url, stored, given>>
    BY DEF Request
<1>2. /\ b0 \in BootNode /\ k0 \in Identity /\ k0 = drawn /\ Self \in Name
      /\ hosts[Self] \in File /\ hosts[Self] # NoFile
    BY <1>0, GenFiles, GenFacts, BootNodes DEF Progress, Joining
<1>. HIDE DEF b0, k0
<1>3. /\ handler' \in [BootNode -> [Identity -> {"none", "asked", "stored", "answered", "refused"}]]
      /\ handler'[b0][k0] = "asked"
      /\ \A b \in BootNode, k \in Identity :
            b # b0 \/ k # k0 => handler'[b][k] = handler[b][k]
    BY <1>0, <1>1, <1>2 DEF GenTypeOK
<1>4. /\ sent' \in [Identity -> File \cup {NoFile}] /\ sent'[k0] = hosts[Self]
      /\ \A k \in Identity : k # k0 => sent'[k] = sent[k]
    BY <1>0, <1>1, <1>2 DEF GenTypeOK
<1>5. NodeTypeOK'
    BY <1>0, <1>1 DEF NodeTypeOK
<1>6. GenTypeOK'
    <2>1. \A k \in Identity : k > drawn' => \A b \in BootNode : handler'[b][k] = "none"
        BY <1>0, <1>1, <1>2, <1>3, GenFacts DEF GenTypeOK, Identity
    <2>. QED BY <1>0, <1>1, <1>3, <1>4, <2>1 DEF GenTypeOK
<1>7. Progress' /\ LetIn'
    BY <1>0, <1>1, GenFilesKept DEF Progress, LetIn, Joining
<1>8. Requests'
    <2>1. \A b \in BootNode : handler[b][k0] # "none" => sent[k0] = hosts[Self]
        BY <1>0 DEF Requests, Joining, k0
    <2>2. \A b \in BootNode, k \in Identity :
             handler'[b][k] # "none" => sent'[k] # NoFile
        BY <1>0, <1>2, <1>3, <1>4 DEF Requests
    <2>3. \A b \in BootNode, k \in Identity :
             handler'[b][k] \in {"stored", "answered"} => stored'[b] = sent'[k]
        BY <1>0, <1>1, <1>2, <1>3, <1>4, <2>1 DEF Requests
    <2>4. \A b \in BootNode : handler'[b][k0] # "none" => sent'[k0] = hosts'[Self]
        BY <1>1, <1>4
    <2>. QED BY <1>1, <2>2, <2>3, <2>4 DEF Requests, k0
<1>9. Undisturbed'
    <2>. SUFFICES ASSUME faults = 0
                  PROVE  Undisturbed'
        BY <1>1 DEF Undisturbed
    <2>1. \A b \in BootNode : stored[b] = given[b]
        BY <1>0 DEF Undisturbed
    <2>2. \A b \in BootNode, k \in Identity :
             /\ handler'[b][k] = "refused" => given'[b] # NoFile
             /\ handler'[b][k] \in {"asked", "stored", "answered"} => k = k0 /\ b = b0
        BY <1>0, <1>1, <1>2, <1>3 DEF Undisturbed
    <2>3. \A i \in DOMAIN Boot : i < url => given[Boot[i]] # NoFile
        BY <1>0 DEF Undisturbed, Joining
    <2>. QED BY <1>1, <2>1, <2>2, <2>3 DEF Undisturbed, b0, k0
<1>. QED BY <1>5, <1>6, <1>7, <1>8, <1>9 DEF GenInv

\* The URL is given up after something has failed: without a fault, nothing is left
\* to show of the invariant.
LEMMA NextURLInv ==
    ASSUME GenInv, gen \in Joining, NextURL, Fault, NodeTypeOK', hosts'[Self] = hosts[Self],
           conf' # NoFile, UNCHANGED <<priv, drawn, cmd, stored, handler, sent, given>>
    PROVE  GenInv'
<1>0. NodeTypeOK /\ GenTypeOK /\ Progress /\ Requests
    BY DEF GenInv
<1>1. gen' \in {"boot", "gaveup"} /\ url' \in DOMAIN Boot /\ faults' # 0
    BY <1>0, GenFacts, NextURLStep
<1>2. GenTypeOK'
    BY <1>0, <1>1, GenFacts, GenTypeKept
<1>3. Progress' /\ LetIn' /\ Undisturbed'
    BY <1>0, <1>1, GenFilesKept DEF Progress, LetIn, Joining, Undisturbed
<1>4. Requests'
    BY <1>0, <1>1 DEF Requests, Joining
<1>. QED BY <1>2, <1>3, <1>4 DEF GenInv

\* No answer.
LEMMA LoseInv ==
    ASSUME GenInv, Lose
    PROVE  GenInv'
<1>. USE DEF nodeVars, dirVars
<1>1. /\ gen = "waiting" /\ Fault /\ NextURL
      /\ UNCHANGED <<conf, hosts, priv, drawn, cmd, stored, handler, sent, given>>
    BY DEF Lose
<1>2. NodeTypeOK' /\ conf' # NoFile
    BY <1>1, GenFacts DEF GenInv, NodeTypeOK, Progress, Joining
<1>. QED BY <1>1, <1>2, NextURLInv DEF Joining

\* A boot node that refuses without a fault has had the name from the start.
LEMMA RefusedInv ==
    ASSUME GenInv, Refused
    PROVE  GenInv'
<1>. USE DEF nodeVars, dirVars
<1>0. NodeTypeOK /\ GenTypeOK /\ Progress /\ Requests /\ Undisturbed
    BY DEF GenInv
<1>1. /\ gen = "waiting" /\ handler[Boot[url]][cmd.identity] = "refused" /\ NextURL
      /\ UNCHANGED <<conf, hosts, priv, drawn, faults, cmd, stored, handler, sent, given>>
    BY DEF Refused
<1>2. /\ url' \in DOMAIN Boot /\ url \in DOMAIN Boot
      /\ \/ gen' = "boot" /\ url' = url + 1
         \/ gen' = "gaveup" /\ url' = url /\ \A i \in DOMAIN Boot : i < url \/ i = url
    BY <1>0, <1>1, GenFacts, NextURLStep
<1>3. NodeTypeOK'
    BY <1>0, <1>1 DEF NodeTypeOK
<1>4. GenTypeOK'
    BY <1>0, <1>1, <1>2, GenFacts, GenTypeKept
<1>5. Progress' /\ LetIn'
    BY <1>0, <1>1, <1>2, GenFilesKept DEF Progress, LetIn, Joining
<1>6. Requests'
    BY <1>0, <1>1, <1>2 DEF Requests, Joining
<1>7. Undisturbed'
    <2>. SUFFICES ASSUME faults = 0
                  PROVE  Undisturbed'
        BY <1>1 DEF Undisturbed
    <2>1. Boot[url] \in BootNode /\ cmd.identity \in Identity
        BY <1>0, <1>2, GenFacts, GenFiles, BootNodes
    <2>2. \A b \in BootNode : stored[b] = given[b]
        BY <1>0, <1>1 DEF Undisturbed
    <2>3. \A b \in BootNode, k \in Identity :
             handler[b][k] \notin {"asked", "stored", "answered"}
        BY <1>0, <1>1 DEF Undisturbed
    <2>4. given[Boot[url]] # NoFile
        BY <1>0, <1>1, <2>1 DEF Undisturbed
    <2>5. \A i \in DOMAIN Boot : i < url \/ i = url => given[Boot[i]] # NoFile
        BY <1>0, <1>1, <2>4 DEF Undisturbed, Joining
    <2>6. \A i \in DOMAIN Boot : i < url + 1 => i < url \/ i = url
        BY <1>0, <1>2, BootNodes
    <2>7. gen' = "gaveup" => \A b \in BootNode : given[b] # NoFile
        <3>1. \A b \in BootNode : \E i \in DOMAIN Boot : b = Boot[i]
            BY DEF BootNode, Range
        <3>. QED BY <1>2, <2>5, <3>1
    <2>8. gen' = "boot" => \A i \in DOMAIN Boot : i < url' => given[Boot[i]] # NoFile
        BY <1>2, <2>5, <2>6
    <2>9. \A b \in BootNode, k \in Identity : handler[b][k] = "refused" => given[b] # NoFile
        BY <1>0 DEF Undisturbed
    <2>. QED BY <1>1, <1>2, <2>2, <2>3, <2>7, <2>8, <2>9 DEF Undisturbed, Joining
<1>. QED BY <1>3, <1>4, <1>5, <1>6, <1>7 DEF GenInv

\* The answer that gen waits for is that of this run.
LEMMA AnsweredInv ==
    ASSUME GenInv, Answered
    PROVE  GenInv'
<1>. USE DEF nodeVars, dirVars
<1>0. NodeTypeOK /\ GenTypeOK /\ Progress /\ Requests /\ Undisturbed
    BY DEF GenInv
<1>1. /\ gen = "waiting" /\ handler[Boot[url]][cmd.identity] = "answered" /\ gen' = "import"
      /\ UNCHANGED <<conf, hosts, priv, drawn, faults, cmd, url, stored, handler, sent, given>>
    BY DEF Answered
<1>2. NodeTypeOK'
    BY <1>0, <1>1 DEF NodeTypeOK
<1>3. GenTypeOK'
    BY <1>0, <1>1, GenFacts, GenTypeKept
<1>4. Progress' /\ LetIn'
    BY <1>0, <1>1, GenFilesKept DEF Progress, LetIn, Joining
<1>5. Requests'
    BY <1>0, <1>1 DEF Requests, Joining
<1>6. Undisturbed'
    BY <1>0, <1>1 DEF Undisturbed, Joining
<1>. QED BY <1>2, <1>3, <1>4, <1>5, <1>6 DEF GenInv

\* The boot node's host file is not the own one, which stays.
LEMMA ImportInv ==
    ASSUME GenInv, Import
    PROVE  GenInv'
<1>. USE DEF nodeVars, dirVars
<1>. DEFINE b0 == Boot[url]
<1>0. /\ NodeTypeOK /\ GenTypeOK /\ Progress /\ Requests /\ LetIn /\ Undisturbed
      /\ gen = "import"
    BY DEF GenInv, Import
<1>a. UNCHANGED <<conf, priv, drawn, cmd, stored, handler, sent, given>>
    BY DEF Import
<1>b. b0 \in BootNode /\ b0 \in Peer /\ b0 \in Name /\ b0 # Self /\ Self \in Name
    BY <1>0, GenFacts, BootNodes
<1>c. PeerFile(b0) \in File
    BY <1>b, PeerFileType
<1>1. CASE hosts' = [hosts EXCEPT ![b0] = PeerFile(b0)] /\ gen' = "list" /\ UNCHANGED <<faults, url>>
    <2>1. /\ hosts' \in [Name -> File \cup {NoFile}] /\ hosts'[b0] = PeerFile(b0)
          /\ hosts'[Self] = hosts[Self]
        BY <1>0, <1>1, <1>b, <1>c, GenFacts
    <2>2. NodeTypeOK'
        BY <1>0, <1>1, <1>a, <2>1 DEF NodeTypeOK
    <2>3. GenTypeOK'
        BY <1>0, <1>1, <1>a, GenFacts, GenTypeKept
    <2>4. Progress' /\ LetIn'
        BY <1>0, <1>1, <1>a, <2>1, GenFilesKept DEF Progress, LetIn, Joining
    <2>5. Requests'
        BY <1>0, <1>1, <1>a, <2>1 DEF Requests, Joining
    <2>6. Undisturbed'
        BY <1>0, <1>1, <1>a DEF Undisturbed, Joining
    <2>. QED BY <2>2, <2>3, <2>4, <2>5, <2>6 DEF GenInv
<1>2. CASE /\ \E file \in Torn(PeerFile(b0)) : hosts' = [hosts EXCEPT ![b0] = file]
           /\ Fault /\ NextURL
    <2>1. PICK file \in Torn(PeerFile(b0)) : hosts' = [hosts EXCEPT ![b0] = file]
        BY <1>2
    <2>2. file \in File
        BY <1>c, TornFile
    <2>3. hosts' \in [Name -> File \cup {NoFile}] /\ hosts'[Self] = hosts[Self]
        BY <1>0, <1>b, <2>1, <2>2, GenFacts
    <2>4. NodeTypeOK'
        BY <1>0, <1>2, <1>a, <2>3, GenFacts DEF NodeTypeOK
    <2>5. gen \in Joining /\ conf' # NoFile
        BY <1>0, <1>a DEF Joining, Progress
    <2>. QED BY <1>2, <1>a, <2>3, <2>4, <2>5, NextURLInv
<1>. QED BY <1>1, <1>2 DEF Import

\* The node that is listed has stored the host file as it is.
LEMMA ListInv ==
    ASSUME GenInv, List
    PROVE  GenInv'
<1>. USE DEF nodeVars, dirVars
<1>. DEFINE b0 == Boot[url]
            line == Line("ConnectTo", b0)
            listed == <<line>> \o conf
<1>0. /\ NodeTypeOK /\ GenTypeOK /\ Progress /\ Requests /\ LetIn /\ Undisturbed
      /\ gen = "list"
    BY DEF GenInv, List
<1>a. UNCHANGED <<hosts, priv, drawn, cmd, stored, handler, sent, given>>
    BY DEF List
<1>b. b0 \in BootNode /\ b0 \in Value /\ conf \in File
    BY <1>0, GenFacts, BootNodes DEF Value, Progress, Joining
<1>c. line \in TextLine
    BY <1>b, LineType DEF Key
<1>. HIDE DEF line
<1>d. listed \in File /\ line \in Range(listed)
    <2>1. listed \in Seq(TextLine)
        BY <1>b, <1>c DEF File
    <2>2. 1 \in DOMAIN listed /\ listed[1] = line
        BY <1>b, <1>c DEF File
    <2>. QED BY <2>1, <2>2 DEF File, Range
<1>. HIDE DEF listed
<1>1. CASE conf' = listed /\ gen' = "done" /\ UNCHANGED <<faults, url>>
    <2>1. NodeTypeOK'
        BY <1>0, <1>1, <1>a, <1>d DEF NodeTypeOK
    <2>2. GenTypeOK'
        BY <1>0, <1>1, <1>a, GenFacts, GenTypeKept
    <2>3. Progress'
        BY <1>0, <1>1, <1>a DEF Progress, Joining
    <2>4. LetIn'
        <3>1. cmd.identity \in Identity
            BY <1>0, GenFacts, GenFiles
        <3>2. handler[b0][cmd.identity] = "answered"
            BY <1>0 DEF Requests
        <3>3. stored[b0] = sent[cmd.identity]
            BY <1>0, <1>b, <3>1, <3>2 DEF Requests
        <3>4. sent[cmd.identity] = hosts[Self]
            BY <1>0, <1>b, <3>2 DEF Requests, Joining
        <3>5. /\ hosts'[Self] = WholeHost' /\ priv' = cmd'.identity
              /\ stored'[b0] = hosts'[Self] /\ hosts'[b0] = PeerFile(b0)
            BY <1>0, <1>a, <3>3, <3>4, GenFilesKept DEF Progress, Joining
        <3>6. Line("ConnectTo", b0) \in Range(conf')
            BY <1>1, <1>d DEF line
        <3>. QED BY <1>b, <3>5, <3>6 DEF LetIn
    <2>5. Requests'
        BY <1>0, <1>1, <1>a DEF Requests, Joining
    <2>6. Undisturbed'
        BY <1>0, <1>1, <1>a DEF Undisturbed, Joining
    <2>. QED BY <2>1, <2>2, <2>3, <2>4, <2>5, <2>6 DEF GenInv
<1>2. CASE conf' \in Torn(listed) /\ Fault /\ NextURL
    <2>1. conf' \in File /\ conf' # NoFile
        BY <1>2, <1>d, TornFile
    <2>2. NodeTypeOK'
        BY <1>0, <1>2, <1>a, <2>1, GenFacts DEF NodeTypeOK
    <2>3. gen \in Joining /\ hosts'[Self] = hosts[Self]
        BY <1>0, <1>a DEF Joining
    <2>. QED BY <1>2, <1>a, <2>1, <2>2, <2>3, NextURLInv
<1>. QED BY <1>1, <1>2 DEF List, listed, line

\* A gen that has ended has nothing to show.
LEMMA InterruptInv ==
    ASSUME GenInv, Interrupt
    PROVE  GenInv'
<1>. USE DEF nodeVars, dirVars
<1>0. NodeTypeOK /\ GenTypeOK /\ Progress /\ Requests
    BY DEF GenInv
<1>1. /\ gen' = "failed" /\ gen # "off" /\ Fault
      /\ UNCHANGED <<conf, hosts, priv, drawn, cmd, url, stored, handler, sent, given>>
    BY DEF Interrupt
<1>2. faults' \in 0..MaxFaults /\ faults' # 0
    BY <1>0, <1>1, GenFacts
<1>3. NodeTypeOK'
    BY <1>0, <1>1, <1>2 DEF NodeTypeOK
<1>4. GenTypeOK'
    BY <1>0, <1>1, GenFacts, GenTypeKept
<1>5. Progress' /\ LetIn' /\ Undisturbed'
    BY <1>0, <1>1, <1>2 DEF Progress, LetIn, Joining, Undisturbed
<1>6. Requests'
    BY <1>0, <1>1 DEF Requests, Joining
<1>. QED BY <1>3, <1>4, <1>5, <1>6 DEF GenInv

\* A boot node stores the name if it does not have it; so what another handler has
\* stored, and what gen relies on, is not overwritten.
LEMMA StoreInv ==
    ASSUME GenInv, NEW b0 \in BootNode, NEW k0 \in Identity, Store(b0, k0)
    PROVE  GenInv'
<1>. USE DEF nodeVars, dirVars
<1>0. NodeTypeOK /\ GenTypeOK /\ Progress /\ Requests /\ LetIn /\ Undisturbed
    BY DEF GenInv
<1>1. /\ handler[b0][k0] = "asked"
      /\ UNCHANGED <<conf, hosts, priv, drawn, faults, gen, cmd, url, sent, given>>
    BY DEF Store
<1>2. NodeTypeOK'
    BY <1>0, <1>1 DEF NodeTypeOK
<1>3. Progress'
    BY <1>0, <1>1, GenFilesKept DEF Progress
<1>4. sent[k0] # NoFile /\ sent[k0] \in File \cup {NoFile} /\ ~ (k0 > drawn)
    BY <1>0, <1>1 DEF GenTypeOK, Requests
<1>5. CASE stored[b0] = NoFile
    <2>1. /\ stored' = [stored EXCEPT ![b0] = sent[k0]]
          /\ handler' = [handler EXCEPT ![b0][k0] = "stored"]
        BY <1>5 DEF Store
    <2>2. /\ stored' \in [BootNode -> File \cup {NoFile}] /\ stored'[b0] = sent[k0]
          /\ \A b \in BootNode : b # b0 => stored'[b] = stored[b]
        BY <1>0, <1>4, <2>1 DEF GenTypeOK
    <2>3. /\ handler' \in [BootNode -> [Identity ->
                             {"none", "asked", "stored", "answered", "refused"}]]
          /\ handler'[b0][k0] = "stored"
          /\ \A b \in BootNode, k \in Identity :
                b # b0 \/ k # k0 => handler'[b][k] = handler[b][k]
        BY <1>0, <2>1 DEF GenTypeOK
    <2>4. GenTypeOK'
        <3>1. gen' = "import" => handler'[Boot[url']][cmd'.identity] = "answered"
            BY <1>0, <1>1, <2>3, GenFacts, GenFiles, BootNodes DEF GenTypeOK
        <3>2. \A k \in Identity : k > drawn' => \A b \in BootNode : handler'[b][k] = "none"
            BY <1>0, <1>1, <1>4, <2>3 DEF GenTypeOK
        <3>. QED BY <1>0, <1>1, <2>2, <2>3, <3>1, <3>2 DEF GenTypeOK
    <2>5. Requests'
        <3>1. cmd.identity \in Identity /\ Boot[url] \in BootNode
            BY <1>0, GenFacts, GenFiles, BootNodes
        <3>2. \A b \in BootNode, k \in Identity :
                 handler[b][k] = "none" <=> handler'[b][k] = "none"
            BY <1>1, <2>3
        <3>3. \A b \in BootNode, k \in Identity :
                 handler'[b][k] \in {"stored", "answered"} => stored'[b] = sent[k]
            BY <1>0, <1>1, <1>5, <2>2, <2>3 DEF Requests
        <3>4. gen \in {"import", "list"} => handler'[Boot[url]][cmd.identity] = "answered"
            BY <1>0, <1>1, <2>3, <3>1 DEF Requests
        <3>. QED BY <1>0, <1>1, <3>1, <3>2, <3>3, <3>4 DEF Requests, Joining
    <2>6. LetIn'
        <3>. SUFFICES ASSUME gen = "done", cmd.standalone = FALSE
                      PROVE  LetIn'
            BY <1>1 DEF LetIn
        <3>1. hosts[Self] = WholeHost /\ hosts[Self] # NoFile
            BY <1>0, GenFacts, GenFiles DEF LetIn
        <3>2. PICK b \in BootNode : /\ stored[b] = hosts[Self] /\ hosts[b] = PeerFile(b)
                                    /\ Line("ConnectTo", b) \in Range(conf)
            BY <1>0 DEF LetIn
        <3>3. stored'[b] = hosts[Self]
            BY <1>5, <2>2, <3>1, <3>2
        <3>. QED BY <1>0, <1>1, <3>2, <3>3, GenFilesKept DEF LetIn
    <2>7. Undisturbed'
        <3>. SUFFICES ASSUME faults = 0
                      PROVE  Undisturbed'
            BY <1>1 DEF Undisturbed
        <3>1. /\ gen \in {"waiting", "import", "list", "done"}
              /\ k0 = cmd.identity /\ b0 = Boot[url]
            BY <1>0, <1>1 DEF Undisturbed
        <3>2. \A b \in BootNode : stored'[b] # given[b] =>
                 b = Boot[url] /\ handler'[b][cmd.identity] \in {"stored", "answered"}
            BY <1>0, <2>2, <2>3, <3>1 DEF Undisturbed
        <3>3. \A b \in BootNode, k \in Identity :
                 /\ handler'[b][k] = "refused" => given[b] # NoFile
                 /\ handler'[b][k] \in {"asked", "stored", "answered"} =>
                       k = cmd.identity /\ b = Boot[url]
            BY <1>0, <2>3, <3>1 DEF Undisturbed
        <3>. QED BY <1>0, <1>1, <3>1, <3>2, <3>3 DEF Undisturbed
    <2>. QED BY <1>2, <1>3, <2>4, <2>5, <2>6, <2>7 DEF GenInv
<1>6. CASE stored[b0] # NoFile
    <2>1. UNCHANGED stored /\ handler' = [handler EXCEPT ![b0][k0] = "refused"]
        BY <1>6 DEF Store
    <2>3. /\ handler' \in [BootNode -> [Identity ->
                             {"none", "asked", "stored", "answered", "refused"}]]
          /\ handler'[b0][k0] = "refused"
          /\ \A b \in BootNode, k \in Identity :
                b # b0 \/ k # k0 => handler'[b][k] = handler[b][k]
        BY <1>0, <2>1 DEF GenTypeOK
    <2>4. GenTypeOK'
        <3>1. gen' = "import" => handler'[Boot[url']][cmd'.identity] = "answered"
            BY <1>0, <1>1, <2>3, GenFacts, GenFiles, BootNodes DEF GenTypeOK
        <3>2. \A k \in Identity : k > drawn' => \A b \in BootNode : handler'[b][k] = "none"
            BY <1>0, <1>1, <1>4, <2>3 DEF GenTypeOK
        <3>. QED BY <1>0, <1>1, <2>1, <2>3, <3>1, <3>2 DEF GenTypeOK
    <2>5. Requests'
        <3>1. cmd.identity \in Identity /\ Boot[url] \in BootNode
            BY <1>0, GenFacts, GenFiles, BootNodes
        <3>2. \A b \in BootNode, k \in Identity :
                 /\ handler[b][k] = "none" <=> handler'[b][k] = "none"
                 /\ handler'[b][k] \in {"stored", "answered"} => handler'[b][k] = handler[b][k]
            BY <1>1, <2>3
        <3>4. gen \in {"import", "list"} => handler'[Boot[url]][cmd.identity] = "answered"
            BY <1>0, <1>1, <2>3, <3>1 DEF Requests
        <3>. QED BY <1>0, <1>1, <2>1, <3>1, <3>2, <3>4 DEF Requests, Joining
    <2>6. LetIn'
        BY <1>0, <1>1, <2>1, GenFilesKept DEF LetIn
    <2>7. Undisturbed'
        <3>. SUFFICES ASSUME faults = 0
                      PROVE  Undisturbed'
            BY <1>1 DEF Undisturbed
        <3>1. k0 = cmd.identity /\ b0 = Boot[url]
            BY <1>0, <1>1 DEF Undisturbed
        <3>2. \A b \in BootNode : stored[b] # given[b] =>
                 b # b0 /\ handler'[b][cmd.identity] \in {"stored", "answered"}
            BY <1>0, <1>1, <2>3, <3>1 DEF Undisturbed
        <3>3. given[b0] # NoFile
            BY <1>6, <3>2
        <3>4. \A b \in BootNode, k \in Identity :
                 /\ handler'[b][k] = "refused" => given[b] # NoFile
                 /\ handler'[b][k] \in {"asked", "stored", "answered"} =>
                       handler'[b][k] = handler[b][k]
            BY <1>0, <2>3, <3>3 DEF Undisturbed
        <3>. QED BY <1>0, <1>1, <2>1, <3>1, <3>2, <3>4 DEF Undisturbed
    <2>. QED BY <1>2, <1>3, <2>4, <2>5, <2>6, <2>7 DEF GenInv
<1>. QED BY <1>5, <1>6

\* A boot node's handlers fail, as FailStore, Answer and CrashBoot have them: a name
\* that is stored stays as it is, and nothing is answered.
LEMMA BootFails ==
    ASSUME GenInv, UNCHANGED <<conf, hosts, priv, drawn, gen, cmd, url, sent, given>>, Fault,
           handler' \in [BootNode -> [Identity ->
                            {"none", "asked", "stored", "answered", "refused"}]],
           stored' \in [BootNode -> File \cup {NoFile}],
           \A b \in BootNode, k \in Identity :
              \/ handler'[b][k] = handler[b][k]
              \/ handler[b][k] \in {"asked", "stored"} /\ handler'[b][k] = "refused",
           \A b \in BootNode : stored'[b] = stored[b] \/ stored[b] = NoFile
    PROVE  GenInv'
<1>0. NodeTypeOK /\ GenTypeOK /\ Progress /\ Requests /\ LetIn
    BY DEF GenInv
<1>1. /\ faults' \in 0..MaxFaults /\ faults' # 0
      /\ cmd.identity \in Identity /\ Boot[url] \in BootNode
    BY <1>0, GenFacts, GenFiles, BootNodes
<1>2. NodeTypeOK' /\ Progress' /\ Undisturbed'
    BY <1>0, <1>1, GenFilesKept DEF NodeTypeOK, Progress, Undisturbed
<1>3. GenTypeOK'
    <2>1. gen' = "import" => handler'[Boot[url']][cmd'.identity] = "answered"
        BY <1>0, <1>1 DEF GenTypeOK
    <2>2. \A k \in Identity : k > drawn' => \A b \in BootNode : handler'[b][k] = "none"
        <3>. SUFFICES ASSUME NEW k \in Identity, k > drawn, NEW b \in BootNode
                      PROVE  handler'[b][k] = "none"
            OBVIOUS
        <3>1. handler[b][k] = "none"
            BY <1>0 DEF GenTypeOK
        <3>. QED BY <3>1
    <2>. QED BY <1>0, <2>1, <2>2, SMTT(30) DEF GenTypeOK
<1>4. Requests'
    <2>1. \A b \in BootNode, k \in Identity : handler'[b][k] \in {"stored", "answered"} =>
             handler[b][k] = handler'[b][k]
        OBVIOUS
    <2>2. \A b \in BootNode, k \in Identity :
             handler'[b][k] \in {"stored", "answered"} => stored'[b] = sent[k]
        BY <1>0, <2>1 DEF Requests
    <2>3. \A b \in BootNode, k \in Identity :
             handler[b][k] = "none" <=> handler'[b][k] = "none"
        OBVIOUS
    <2>4. gen \in {"import", "list"} => handler'[Boot[url]][cmd.identity] = "answered"
        BY <1>0, <1>1 DEF Requests
    <2>. QED BY <1>0, <1>1, <2>2, <2>3, <2>4 DEF Requests, Joining
<1>5. LetIn'
    <2>. SUFFICES ASSUME gen = "done", cmd.standalone = FALSE
                  PROVE  LetIn'
        BY DEF LetIn
    <2>1. hosts[Self] = WholeHost /\ hosts[Self] # NoFile
        BY <1>0, GenFacts, GenFiles DEF LetIn
    <2>2. PICK b \in BootNode : /\ stored[b] = hosts[Self] /\ hosts[b] = PeerFile(b)
                                /\ Line("ConnectTo", b) \in Range(conf)
        BY <1>0 DEF LetIn
    <2>3. stored'[b] = hosts[Self]
        BY <2>1, <2>2
    <2>. QED BY <1>0, <2>2, <2>3, GenFilesKept DEF LetIn
<1>. QED BY <1>2, <1>3, <1>4, <1>5 DEF GenInv

\* A write that fails leaves a file where there was none.
LEMMA FailStoreInv ==
    ASSUME GenInv, NEW b0 \in BootNode, NEW k0 \in Identity, FailStore(b0, k0)
    PROVE  GenInv'
<1>. USE DEF nodeVars, dirVars
<1>0. GenTypeOK /\ Requests
    BY DEF GenInv
<1>1. /\ handler[b0][k0] = "asked" /\ stored[b0] = NoFile /\ Fault
      /\ handler' = [handler EXCEPT ![b0][k0] = "refused"]
      /\ UNCHANGED <<conf, hosts, priv, drawn, gen, cmd, url, sent, given>>
    BY DEF FailStore
<1>2. PICK file \in Torn(sent[k0]) : stored' = [stored EXCEPT ![b0] = file]
    BY DEF FailStore
<1>3. sent[k0] \in File
    BY <1>0, <1>1 DEF GenTypeOK, Requests
<1>4. file \in File
    BY <1>3, TornFile
<1>5. /\ stored' \in [BootNode -> File \cup {NoFile}]
      /\ \A b \in BootNode : stored'[b] = stored[b] \/ stored[b] = NoFile
    BY <1>0, <1>1, <1>2, <1>4 DEF GenTypeOK
<1>6. /\ handler' \in [BootNode -> [Identity ->
                          {"none", "asked", "stored", "answered", "refused"}]]
      /\ \A b \in BootNode, k \in Identity :
            \/ handler'[b][k] = handler[b][k]
            \/ handler[b][k] \in {"asked", "stored"} /\ handler'[b][k] = "refused"
    BY <1>0, <1>1 DEF GenTypeOK
<1>. QED BY <1>1, <1>5, <1>6, BootFails

\* A boot node answers what it has stored.
LEMMA AnswerInv ==
    ASSUME GenInv, NEW b0 \in BootNode, NEW k0 \in Identity, Answer(b0, k0)
    PROVE  GenInv'
<1>. USE DEF nodeVars, dirVars
<1>0. NodeTypeOK /\ GenTypeOK /\ Progress /\ Requests /\ LetIn /\ Undisturbed
    BY DEF GenInv
<1>1. /\ handler[b0][k0] = "stored"
      /\ UNCHANGED <<conf, hosts, priv, drawn, gen, cmd, url, stored, sent, given>>
    BY DEF Answer
<1>2. CASE handler' = [handler EXCEPT ![b0][k0] = "refused"] /\ Fault
    <2>1. /\ handler' \in [BootNode -> [Identity ->
                              {"none", "asked", "stored", "answered", "refused"}]]
          /\ \A b \in BootNode, k \in Identity :
                \/ handler'[b][k] = handler[b][k]
                \/ handler[b][k] \in {"asked", "stored"} /\ handler'[b][k] = "refused"
        BY <1>0, <1>1, <1>2 DEF GenTypeOK
    <2>2. stored' \in [BootNode -> File \cup {NoFile}]
        BY <1>0, <1>1 DEF GenTypeOK
    <2>. QED BY <1>1, <1>2, <2>1, <2>2, BootFails
<1>3. CASE handler' = [handler EXCEPT ![b0][k0] = "answered"] /\ UNCHANGED faults
    <2>1. /\ handler' \in [BootNode -> [Identity ->
                             {"none", "asked", "stored", "answered", "refused"}]]
          /\ handler'[b0][k0] = "answered"
          /\ \A b \in BootNode, k \in Identity :
                b # b0 \/ k # k0 => handler'[b][k] = handler[b][k]
        BY <1>0, <1>3 DEF GenTypeOK
    <2>2. cmd.identity \in Identity /\ Boot[url] \in BootNode /\ ~ (k0 > drawn)
        BY <1>0, <1>1, GenFacts, GenFiles, BootNodes DEF GenTypeOK
    <2>3. NodeTypeOK' /\ Progress' /\ LetIn'
        BY <1>0, <1>1, <1>3, GenFilesKept DEF NodeTypeOK, Progress, LetIn
    <2>4. GenTypeOK'
        <3>1. gen' = "import" => handler'[Boot[url']][cmd'.identity] = "answered"
            BY <1>0, <1>1, <2>1, <2>2 DEF GenTypeOK
        <3>2. \A k \in Identity : k > drawn' => \A b \in BootNode : handler'[b][k] = "none"
            BY <1>0, <1>1, <2>1, <2>2 DEF GenTypeOK
        <3>. QED BY <1>0, <1>1, <2>1, <3>1, <3>2 DEF GenTypeOK
    <2>5. \A b \in BootNode, k \in Identity :
             /\ handler[b][k] = "none" <=> handler'[b][k] = "none"
             /\ handler[b][k] = "refused" <=> handler'[b][k] = "refused"
             /\ handler[b][k] = "asked" <=> handler'[b][k] = "asked"
             /\ handler[b][k] \in {"stored", "answered"} <=> handler'[b][k] \in {"stored", "answered"}
             /\ handler[b][k] = "answered" => handler'[b][k] = "answered"
        BY <1>1, <2>1
    <2>6. Requests'
        BY <1>0, <1>1, <2>2, <2>5 DEF Requests, Joining
    <2>7. Undisturbed'
        <3>. SUFFICES ASSUME faults = 0
                      PROVE  Undisturbed'
            BY <1>3 DEF Undisturbed
        <3>1. \A b \in BootNode : stored[b] # given[b] =>
                 /\ gen \in {"waiting", "import", "list", "done"} /\ b = Boot[url]
                 /\ handler'[b][cmd.identity] \in {"stored", "answered"}
            BY <1>0, <2>2, <2>5 DEF Undisturbed
        <3>2. \A b \in BootNode, k \in Identity :
                 /\ handler'[b][k] = "refused" => given[b] # NoFile
                 /\ handler'[b][k] \in {"asked", "stored", "answered"} =>
                       handler[b][k] \in {"asked", "stored", "answered"}
            BY <1>0, <2>5 DEF Undisturbed
        <3>. QED BY <1>0, <1>1, <3>1, <3>2 DEF Undisturbed
    <2>. QED BY <2>3, <2>4, <2>6, <2>7 DEF GenInv
<1>. QED BY <1>2, <1>3 DEF Answer

\* A crash ends the handlers, and what they have stored stays.
LEMMA CrashBootInv ==
    ASSUME GenInv, NEW b0 \in BootNode, CrashBoot(b0)
    PROVE  GenInv'
<1>. USE DEF nodeVars, dirVars
<1>0. GenTypeOK /\ Requests
    BY DEF GenInv
<1>1. /\ Fault
      /\ handler' = [handler EXCEPT ![b0] = [k \in Identity |->
                        IF @[k] \in {"asked", "stored"} THEN "refused" ELSE @[k]]]
      /\ UNCHANGED <<conf, hosts, priv, drawn, gen, cmd, url, sent, given>>
    BY DEF CrashBoot
<1>2. /\ stored' \in [BootNode -> File \cup {NoFile}]
      /\ \A b \in BootNode : stored'[b] = stored[b] \/ stored[b] = NoFile
    <2>1. \/ stored' = stored
          \/ \E k \in Identity : \E file \in Torn(sent[k]) :
                /\ stored[b0] = NoFile /\ handler[b0][k] = "asked"
                /\ stored' = [stored EXCEPT ![b0] = file]
        BY DEF CrashBoot
    <2>2. CASE stored' = stored
        BY <1>0, <2>2 DEF GenTypeOK
    <2>3. ASSUME NEW k \in Identity, NEW file \in Torn(sent[k]),
                 stored[b0] = NoFile, handler[b0][k] = "asked",
                 stored' = [stored EXCEPT ![b0] = file]
          PROVE  /\ stored' \in [BootNode -> File \cup {NoFile}]
                 /\ \A b \in BootNode : stored'[b] = stored[b] \/ stored[b] = NoFile
        <3>1. sent[k] \in File
            BY <1>0, <2>3 DEF GenTypeOK, Requests
        <3>2. file \in File
            BY <3>1, TornFile
        <3>. QED BY <1>0, <2>3, <3>2 DEF GenTypeOK
    <2>. QED BY <2>1, <2>2, <2>3
<1>3. /\ handler' \in [BootNode -> [Identity ->
                          {"none", "asked", "stored", "answered", "refused"}]]
      /\ \A b \in BootNode, k \in Identity :
            \/ handler'[b][k] = handler[b][k]
            \/ handler[b][k] \in {"asked", "stored"} /\ handler'[b][k] = "refused"
    BY <1>0, <1>1 DEF GenTypeOK
<1>. QED BY <1>1, <1>2, <1>3, BootFails

\* Steps of others do not matter.
LEMMA GenStutterInv ==
    ASSUME GenInv, UNCHANGED <<nodeVars, genVars>>
    PROVE  GenInv'
<1>. USE DEF nodeVars, dirVars, genVars
<1>1. NodeTypeOK' /\ GenTypeOK'
    BY DEF GenInv, NodeTypeOK, GenTypeOK
<1>2. Progress' /\ Requests' /\ LetIn' /\ Undisturbed'
    BY GenFilesKept DEF GenInv, Progress, Requests, LetIn, Undisturbed
<1>. QED BY <1>1, <1>2 DEF GenInv

\* Every step of gen and its boot nodes preserves the invariant.
LEMMA GenStepInv ==
    ASSUME GenInv, GenNext
    PROVE  GenInv'
BY AdministerInv, WriteConfInv, WriteHostInv, RunKeyGenInv, RequestInv, LoseInv, RefusedInv,
   AnsweredInv, ImportInv, ListInv, InterruptInv, StoreInv, FailStoreInv, AnswerInv,
   CrashBootInv, Zenon DEF GenNext

\* What the invariant is for.
LEMMA GenInvImplies ==
    ASSUME GenInv
    PROVE  Admitted /\ GivesUp
<1>1. GivesUp
    BY DEF GenInv, Undisturbed, GivesUp
<1>2. Admitted
    <2>. SUFFICES ASSUME gen = "done" /\ ~ cmd.standalone
                  PROVE  \E b \in BootNode : /\ stored[b] = hosts[Self] /\ KeyOf(stored[b]) = priv
                                             /\ hosts[b] = PeerFile(b)
                                             /\ Line("ConnectTo", b) \in Range(conf)
        BY DEF Admitted
    <2>1. cmd.standalone = FALSE /\ cmd \in Cmd
        <3>1. cmd \in Cmd /\ cmd.standalone \in BOOLEAN
            BY DEF GenInv, GenTypeOK, Cmd
        <3>. QED BY <3>1
    <2>2. hosts[Self] = WholeHost /\ priv = cmd.identity
        BY <2>1 DEF GenInv, LetIn
    <2>3. KeyOf(hosts[Self]) = priv
        BY <2>1, <2>2, GenFiles
    <2>4. \E b \in BootNode : /\ stored[b] = hosts[Self] /\ hosts[b] = PeerFile(b)
                              /\ Line("ConnectTo", b) \in Range(conf)
        BY <2>1 DEF GenInv, LetIn
    <2>. QED BY <2>3, <2>4
<1>. QED BY <1>1, <1>2

-----------------------------------------------------------------------------
(* The script: facts about what it and its gen write.                      *)

\* The tinc.conf of gen is read back with its name and its list of nodes.
LEMMA GenConfReadBack ==
    ASSUME cmd \in Cmd
    PROVE  /\ ReadFile(GenConf, NoMain) \in MainStruct
           /\ ReadFile(GenConf, NoMain).Name = Self
           /\ ReadFile(GenConf, NoMain).ConnectTo = cmd.connectTo
<1>. DEFINE fn == Field("Name", Self)
            fl == Field("LocalDiscovery", 1)
            fi == Field("Interface", Self)
            fp == Field("Port", cmd.identity)
            sc == Slice("ConnectTo", cmd.connectTo)
            a == fn \o fl
            b == a \o fi
            c == b \o fp
            all == c \o sc
<1>1. /\ Self \in Value /\ 1 \in Value
      /\ cmd.identity \in Value /\ cmd.identity \in PortValue
      /\ cmd.connectTo \in Seq(Value) /\ cmd.connectTo \in Seq(Value \ {Zero})
    <2>1. /\ 1 \in Identity /\ Peer \cup {Self} \subseteq Value \ {Zero}
          /\ Identity \subseteq PortValue
        BY NodeDirAssumption DEF Identity, Value, Name, Zero, PortValue, Self
    <2>2. cmd.identity \in Identity /\ cmd.connectTo \in Seq(Peer \cup {Self})
        BY DEF Cmd
    <2>3. cmd.connectTo \in Seq(Value \ {Zero}) /\ cmd.connectTo \in Seq(Value)
        BY <2>1, <2>2
    <2>. QED BY <2>1, <2>2, <2>3 DEF Self, Value, Name
<1>2. fn \in File /\ fp \in File /\ fl \in File /\ fi \in File /\ sc \in File
    BY <1>1, FieldType, SliceType DEF Key
<1>4. GenConf = all
    BY DEF GenConf
<1>. HIDE DEF fn, fp, fl, fi, sc
<1>5. a \in File /\ b \in File /\ c \in File /\ all \in File
    BY <1>2 DEF File
<1>. DEFINE t1 == Unmarshal(fn, NoMain)
            t2 == Unmarshal(fl, t1)
            t3 == Unmarshal(fi, t2)
            t4 == Unmarshal(fp, t3)
            t5 == Unmarshal(sc, t4)
<1>7. Unmarshal(all, NoMain) = t5
    <2>1. Unmarshal(a, NoMain) = t2
        BY <1>2, UnmarshalConcat DEF File
    <2>. HIDE DEF a
    <2>2. Unmarshal(b, NoMain) = t3
        BY <1>2, <1>5, <2>1, UnmarshalConcat DEF File
    <2>. HIDE DEF b
    <2>3. Unmarshal(c, NoMain) = t4
        BY <1>2, <1>5, <2>2, UnmarshalConcat DEF File
    <2>. HIDE DEF c
    <2>. QED BY <1>2, <1>5, <2>3, UnmarshalConcat DEF File
<1>. HIDE DEF all
<1>8. /\ NoMain \in MainStruct /\ NoMain.Name = Zero /\ NoMain.Port = Zero
      /\ NoMain.LocalDiscovery = Zero /\ NoMain.Interface = Zero /\ NoMain.ConnectTo = <<>>
    BY NoMainType DEF NoMain
<1>9. t1 = [NoMain EXCEPT !.Name = Self]
    BY <1>1, <1>8, FieldIntoMain DEF fn
<1>. HIDE DEF t1
<1>10. /\ t1 \in MainStruct /\ t1.Name = Self /\ t1.Port = Zero
       /\ t1.LocalDiscovery = Zero /\ t1.Interface = Zero /\ t1.ConnectTo = <<>>
    BY <1>1, <1>8, <1>9 DEF MainStruct
<1>11. t2 = [t1 EXCEPT !.LocalDiscovery = 1]
    BY <1>1, <1>10, FieldIntoMain DEF fl
<1>. HIDE DEF t2
<1>12. /\ t2 \in MainStruct /\ t2.Name = Self /\ t2.Port = Zero
       /\ t2.Interface = Zero /\ t2.ConnectTo = <<>>
    BY <1>1, <1>10, <1>11 DEF MainStruct
<1>13. t3 = [t2 EXCEPT !.Interface = Self]
    BY <1>1, <1>12, FieldIntoMain DEF fi
<1>. HIDE DEF t3
<1>14. t3 \in MainStruct /\ t3.Name = Self /\ t3.Port = Zero /\ t3.ConnectTo = <<>>
    BY <1>1, <1>12, <1>13 DEF MainStruct
<1>15. t4 = [t3 EXCEPT !.Port = cmd.identity % 65536]
    BY <1>1, <1>14, FieldIntoMain DEF fp
<1>. HIDE DEF t4
<1>16. t4 \in MainStruct /\ t4.Name = Self /\ t4.ConnectTo = <<>>
    BY <1>1, <1>14, <1>15, PortModulo DEF MainStruct
<1>17. t5 = [t4 EXCEPT !.ConnectTo = @ \o cmd.connectTo]
    BY <1>1, <1>16, UnmarshalSlice DEF sc
<1>18. t4.ConnectTo \o cmd.connectTo = cmd.connectTo
    BY <1>1, <1>16
<1>19. t5 \in MainStruct /\ t5.Name = Self /\ t5.ConnectTo = cmd.connectTo
    BY <1>1, <1>16, <1>17, <1>18 DEF MainStruct
<1>20. ReadFile(GenConf, NoMain) = t5
    BY <1>4, <1>5, <1>7, ValuesAreNoFile DEF ReadFile
<1>. HIDE DEF t5
<1>. QED BY <1>19, <1>20

-----------------------------------------------------------------------------
(* The monitor's requests and the script.                                  *)

\* What is there of p's host file reads as p's own does.
AsItsOwn(p) == ReadFile(hosts[p], NoNode) = ReadFile(PeerFile(p), NoNode)

\* Of a host file that no append has spoiled, every line is a whole one.
Unspoiled == \A p \in Peer \ spoiled : hosts[p] = NoFile \/ hosts[p] \in Seq(PeerLines(p))

\* gen is the script's, run with what is in the script, and what gen and the script
\* have written by now is there.
Installing ==
    /\ Unspoiled
    /\ gen \in {"off", "conf", "host", "keys", "done", "failed"}
    /\ install = "off" => gen = "off" /\ left = {}
    /\ gen \in {"conf", "host", "keys"} => install = "gen"
    /\ install \in {"key", "priv", "peers", "done"} => gen = "done"
    /\ install # "off" =>
          /\ cmd.identity = script /\ cmd.genKey = FALSE /\ cmd.standalone = TRUE
          /\ cmd.connectTo = SetToSeq(Listed(script))
          /\ gen \in {"host", "keys", "done"} => conf = GenConf
    /\ install = "gen" /\ gen \in {"keys", "done"} => hosts[Self] = GenHost
    /\ install = "key" => hosts[Self] = GenHost
    /\ install = "priv" => hosts[Self] = WholeHost
    /\ install \in {"peers", "done"} /\ Self \notin Listed(script) => hosts[Self] = WholeHost
    /\ install \in {"gen", "key", "priv"} => left = Listed(script)
    /\ install \in {"peers", "done"} =>
          /\ priv = script
          /\ \A p \in (Listed(script) \cap Peer) \ (left \cup spoiled) : AsItsOwn(p)
    /\ install = "done" => left = {}

\* A key that has been pushed comes from a request that is past generating, and so
\* does a push that replaces it.
Expected ==
    \A k \in Identity :
       /\ request[k] = "handed" => took[k] = TRUE
       /\ todo[k] # {} => request[k] = "pushing"
       /\ k > drawn => request[k] = "none"
       /\ \A p \in Peer : keyAt[p] = k =>
             request[k] \notin {"none", "generating"} /\ p \notin todo[k]
       /\ took[k] = TRUE =>
             \/ \E p \in Public : keyAt[p] = k
             \/ \E j \in Identity \ {k} : request[j] \notin {"none", "generating"}

ScriptInv ==
    /\ NodeTypeOK /\ GenTypeOK /\ ScriptTypeOK
    /\ Installing /\ Expected /\ stored = given

\* Facts that every step's proof uses.
LEMMA ScriptFacts ==
    ASSUME NodeTypeOK, GenTypeOK, ScriptTypeOK
    PROVE  /\ Public \subseteq Peer /\ Here \in Peer /\ Watched \subseteq Peer /\ Here \notin Watched
           /\ request \in [Identity -> {"none", "generating", "pushing", "handed", "undelivered"}]
           /\ connect \in [Identity -> [Named -> File \cup {NoFile}]]
           /\ todo \in [Identity -> SUBSET Watched]
           /\ took \in [Identity -> BOOLEAN] /\ keyAt \in [Peer -> Identity \cup {Zero}]
           /\ script \in Identity /\ Zero \notin Identity
           /\ Self \in Name /\ Self \notin Peer /\ Named \subseteq Name /\ Peer \subseteq Named
<1>1. Self \in Identity /\ Self \notin Peer /\ Zero \notin Identity
    BY NodeDirAssumption DEF Self, Identity, Zero
<1>. QED BY <1>1, NodeScriptAssumption DEF ScriptTypeOK, Watched, Named, Name

\* What a script is run with.
LEMMA ScriptOptions ==
    ASSUME NEW k \in Identity
    PROVE  SetToSeq(Listed(k)) \in Seq(Peer \cup {Self}) /\ Range(SetToSeq(Listed(k))) = Listed(k)
<1>1. Listed(k) \in SUBSET Named
    BY DEF Listed
<1>2. IsFiniteSet(Named)
    BY NodeDirAssumption, FS_AddElement DEF Named
<1>3. IsFiniteSet(Listed(k))
    BY <1>1, <1>2, FS_Subset
<1>4. SetToSeq(Listed(k)) \in Seq(Listed(k)) /\ Range(SetToSeq(Listed(k))) = Listed(k)
    BY <1>3, SequenceOfSet
<1>. QED BY <1>1, <1>4 DEF Named

\* A step of the monitor leaves the script as it is; a push that fails is a fault.
LEMMA MonitorKeeps ==
    ASSUME ScriptInv, UNCHANGED <<dirVars, genVars, installVars>>,
           faults' = faults \/ Fault, drawn' \in 0..MaxIdentity, drawn <= drawn',
           connect'[script] = connect[script] \/ install = "off"
    PROVE  NodeTypeOK' /\ GenTypeOK' /\ Installing' /\ stored' = given'
<1>. USE DEF dirVars, genVars, installVars
<1>0. NodeTypeOK /\ GenTypeOK /\ ScriptTypeOK /\ Installing /\ stored = given
    BY DEF ScriptInv
<1>1. faults' \in 0..MaxFaults /\ drawn \in Nat
    BY <1>0, GenFacts
<1>2. priv \in 0..drawn' /\ drawn' \in Nat
    BY <1>0, <1>1, NodeDirAssumption DEF NodeTypeOK
<1>3. NodeTypeOK'
    BY <1>0, <1>1, <1>2 DEF NodeTypeOK
<1>4. GenTypeOK'
    <2>1. gen' = "import" => handler[Boot[url']][cmd.identity] = "answered"
        BY <1>0 DEF Installing
    <2>2. gen' \in {"off", "conf", "host", "keys", "boot", "waiting", "import", "list",
                    "done", "gaveup", "failed"}
        BY <1>0 DEF GenTypeOK
    <2>. QED BY <1>0, <1>1, <1>2, <2>1, <2>2, GenFacts, GenTypeKept
<1>5. Installing'
    <2>1. GenConf' = GenConf /\ GenHost' = GenHost /\ WholeHost' = WholeHost
        BY GenFilesKept
    <2>2. Unspoiled' /\ \A p : AsItsOwn(p)' = AsItsOwn(p)
        BY <1>0 DEF Installing, Unspoiled, AsItsOwn
    <2>3. CASE install = "off"
        BY <1>0, <2>1, <2>2, <2>3 DEF Installing
    <2>4. CASE install # "off"
        <3>1. Listed(script)' = Listed(script)
            BY <2>4 DEF Listed
        <3>. QED BY <1>0, <2>1, <2>2, <2>4, <3>1 DEF Installing
    <2>. QED BY <2>3, <2>4
<1>. QED BY <1>0, <1>3, <1>4, <1>5

\* A copy of p's host file, or what there is of it.
LEMMA WriteCopyInv ==
    ASSUME ScriptInv, NEW p \in Peer, WriteCopy(p)
    PROVE  ScriptInv'
<1>. USE DEF nodeVars, dirVars, genVars, installVars
<1>0. NodeTypeOK /\ GenTypeOK /\ ScriptTypeOK /\ Expected
    BY DEF ScriptInv
<1>1. /\ \E file \in File : copies' = [copies EXCEPT ![p] = file]
      /\ UNCHANGED <<conf, hosts, priv, drawn, faults, genVars, fetched, request, connect, todo,
                     took, keyAt, installVars>>
    <2>1. Torn(PeerFile(p)) \cup {PeerFile(p)} \subseteq File
        BY PeerFileType, TornLines
    <2>. QED BY <2>1 DEF WriteCopy
<1>2. NodeTypeOK' /\ GenTypeOK' /\ Installing' /\ stored' = given'
    BY <1>0, <1>1, GenFacts, MonitorKeeps
<1>3. ScriptTypeOK'
    <2>1. copies' \in [Named -> File \cup {NoFile}]
        BY <1>0, <1>1 DEF ScriptTypeOK
    <2>2. Listed(script)' = Listed(script)
        BY <1>1 DEF Listed
    <2>. QED BY <1>0, <1>1, <2>1, <2>2 DEF ScriptTypeOK
<1>4. Expected'
    BY <1>0, <1>1 DEF Expected
<1>. QED BY <1>2, <1>3, <1>4 DEF ScriptInv

\* A host file more that the monitor has.
LEMMA FetchInv ==
    ASSUME ScriptInv, NEW p \in Peer, Fetch(p)
    PROVE  ScriptInv'
<1>. USE DEF nodeVars, dirVars, genVars, installVars
<1>0. NodeTypeOK /\ GenTypeOK /\ ScriptTypeOK /\ Expected
    BY DEF ScriptInv
<1>1. /\ fetched' = fetched \cup {p}
      /\ UNCHANGED <<conf, hosts, priv, drawn, faults, genVars, copies, request, connect, todo,
                     took, keyAt, install, script, left, spoiled>>
    BY DEF Fetch
<1>2. NodeTypeOK' /\ GenTypeOK' /\ Installing' /\ stored' = given'
    BY <1>0, <1>1, GenFacts, MonitorKeeps
<1>3. ScriptTypeOK'
    BY <1>0, <1>1 DEF ScriptTypeOK, Listed
<1>4. Expected'
    BY <1>0, <1>1 DEF Expected
<1>. QED BY <1>2, <1>3, <1>4 DEF ScriptInv

\* Nothing has been asked or pushed for an identity that is drawn.
LEMMA GenerateInv ==
    ASSUME ScriptInv, Generate
    PROVE  ScriptInv'
<1>. USE DEF nodeVars, dirVars, genVars, fetchVars, installVars
<1>. DEFINE k0 == drawn + 1
            files == [m \in Named |-> IF Addressed(m) THEN copies[m] ELSE NoFile]
<1>0. NodeTypeOK /\ GenTypeOK /\ ScriptTypeOK /\ Installing /\ Expected
    BY DEF ScriptInv
<1>1. /\ drawn < MaxIdentity /\ drawn' = k0
      /\ request' = [request EXCEPT ![k0] = "generating"]
      /\ connect' = [connect EXCEPT ![k0] = files]
      /\ UNCHANGED <<conf, hosts, priv, faults, genVars, copies, fetched, todo, took, keyAt,
                     install, script, left, spoiled>>
    BY DEF Generate
<1>2. /\ k0 \in Identity /\ k0 \in 0..MaxIdentity /\ k0 > drawn /\ drawn <= k0
      /\ drawn \in Nat /\ \A k \in Identity : k > k0 => k > drawn /\ k # k0
    BY <1>0, <1>1, NodeDirAssumption DEF NodeTypeOK, Identity
<1>a. files \in [Named -> File \cup {NoFile}]
    <2>1. copies \in [Named -> File \cup {NoFile}]
        BY <1>0 DEF ScriptTypeOK
    <2>. QED BY <2>1
<1>. HIDE DEF k0, files
<1>3. request[k0] = "none" /\ (install # "off" => script # k0)
    BY <1>0, <1>2 DEF Expected, ScriptTypeOK
<1>4. /\ request' \in [Identity -> {"none", "generating", "pushing", "handed", "undelivered"}]
      /\ request'[k0] = "generating"
      /\ \A k \in Identity : k # k0 => request'[k] = request[k]
      /\ connect' \in [Identity -> [Named -> File \cup {NoFile}]]
      /\ \A k \in Identity : k # k0 => connect'[k] = connect[k]
    BY <1>0, <1>1, <1>2, <1>a, ScriptFacts
<1>5. NodeTypeOK' /\ GenTypeOK' /\ Installing' /\ stored' = given'
    <2>1. connect'[script] = connect[script] \/ install = "off"
        BY <1>0, <1>3, <1>4, ScriptFacts
    <2>. QED BY <1>0, <1>1, <1>2, <2>1, MonitorKeeps
<1>6. ScriptTypeOK'
    <2>1. install # "off" => request'[script] = "handed" /\ Listed(script)' = Listed(script)
        BY <1>0, <1>1, <1>3, <1>4 DEF ScriptTypeOK, Listed
    <2>2. install = "off" => left = {}
        BY <1>0, <1>1 DEF Installing
    <2>3. left' \subseteq Listed(script)'
        BY <1>0, <1>1, <2>1, <2>2 DEF ScriptTypeOK
    <2>. QED BY <1>0, <1>1, <1>4, <2>1, <2>3 DEF ScriptTypeOK
<1>7. Expected'
    <2>1. \A k \in Identity : request[k] \notin {"none", "generating"} =>
             k # k0 /\ request'[k] = request[k]
        BY <1>3, <1>4
    <2>2. todo[k0] = {}
        BY <1>0, <1>2, <1>3 DEF Expected
    <2>. SUFFICES ASSUME NEW k \in Identity
                  PROVE  /\ request'[k] = "handed" => took[k] = TRUE
                         /\ todo[k] # {} => request'[k] = "pushing"
                         /\ k > k0 => request'[k] = "none"
                         /\ \A p \in Peer : keyAt[p] = k =>
                               request'[k] \notin {"none", "generating"} /\ p \notin todo[k]
                         /\ took[k] = TRUE =>
                               \/ \E p \in Public : keyAt[p] = k
                               \/ \E j \in Identity \ {k} : request'[j] \notin {"none", "generating"}
        BY <1>1 DEF Expected
    <2>3. request'[k] = "handed" => took[k] = TRUE
        BY <1>0, <1>4 DEF Expected
    <2>4. todo[k] # {} => request'[k] = "pushing"
        BY <1>0, <1>4, <2>2 DEF Expected
    <2>5. k > k0 => request'[k] = "none"
        BY <1>0, <1>2, <1>4 DEF Expected
    <2>6. \A p \in Peer : keyAt[p] = k =>
             request'[k] \notin {"none", "generating"} /\ p \notin todo[k]
        BY <1>0, <2>1 DEF Expected
    <2>7. took[k] = TRUE =>
             \/ \E p \in Public : keyAt[p] = k
             \/ \E j \in Identity \ {k} : request'[j] \notin {"none", "generating"}
        <3>1. CASE \E p \in Public : keyAt[p] = k
            BY <3>1
        <3>2. CASE \E j \in Identity \ {k} : request[j] \notin {"none", "generating"}
            BY <2>1, <3>2
        <3>. QED BY <1>0, <3>1, <3>2 DEF Expected
    <2>. QED BY <2>3, <2>4, <2>5, <2>6, <2>7
<1>. QED BY <1>5, <1>6, <1>7 DEF ScriptInv

\* The nodes are listed, and none of them has the key yet.
LEMMA DistributeInv ==
    ASSUME ScriptInv, NEW k0 \in Identity, Distribute(k0)
    PROVE  ScriptInv'
<1>. USE DEF nodeVars, dirVars, genVars, fetchVars, installVars, Listed
<1>0. NodeTypeOK /\ GenTypeOK /\ ScriptTypeOK /\ Installing /\ Expected
    BY DEF ScriptInv
<1>. PICK nodes \in SUBSET Watched : todo' = [todo EXCEPT ![k0] = nodes]
    BY DEF Distribute
<1>1. /\ request[k0] = "generating"
      /\ request' = [request EXCEPT ![k0] = "pushing"]
      /\ UNCHANGED <<conf, hosts, priv, drawn, faults, genVars, copies, fetched, connect, took,
                     keyAt, install, script, left, spoiled>>
    BY DEF Distribute
<1>2. /\ request' \in [Identity -> {"none", "generating", "pushing", "handed", "undelivered"}]
      /\ request'[k0] = "pushing"
      /\ \A k \in Identity : k # k0 => request'[k] = request[k]
      /\ todo' \in [Identity -> SUBSET Watched]
      /\ \A k \in Identity : k # k0 => todo'[k] = todo[k]
    BY <1>0, <1>1, ScriptFacts
<1>3. NodeTypeOK' /\ GenTypeOK' /\ Installing' /\ stored' = given'
    BY <1>0, <1>1, GenFacts, MonitorKeeps
<1>4. ScriptTypeOK'
    BY <1>0, <1>1, <1>2 DEF ScriptTypeOK
<1>5. Expected'
    <2>1. \A j \in Identity : request[j] \notin {"none", "generating"} =>
             request'[j] \notin {"none", "generating"}
        BY <1>1, <1>2
    <2>2. \A p \in Peer : keyAt[p] # k0
        BY <1>0, <1>1 DEF Expected
    <2>3. ~ (k0 > drawn) /\ (took[k0] = TRUE => \E j \in Identity \ {k0} :
                               request[j] \notin {"none", "generating"})
        <3>1. Public \subseteq Peer
            BY <1>0, ScriptFacts
        <3>. QED BY <1>0, <1>1, <2>2, <3>1 DEF Expected
    <2>4. /\ took[k0] = TRUE => \E j \in Identity \ {k0} : request'[j] \notin {"none", "generating"}
          /\ \A k \in Identity \ {k0} :
                /\ request'[k] = "handed" => took[k] = TRUE
                /\ todo'[k] # {} => request'[k] = "pushing"
                /\ k > drawn => request'[k] = "none"
                /\ \A p \in Peer : keyAt[p] = k =>
                      request'[k] \notin {"none", "generating"} /\ p \notin todo'[k]
                /\ took[k] = TRUE =>
                      \/ \E p \in Public : keyAt[p] = k
                      \/ \E j \in Identity \ {k} : request'[j] \notin {"none", "generating"}
        BY <1>0, <1>2, <2>1, <2>3 DEF Expected
    <2>. QED BY <1>1, <1>2, <2>2, <2>3, <2>4 DEF Expected
<1>. QED BY <1>3, <1>4, <1>5 DEF ScriptInv

\* The key takes the place of the one that p had; that one's request is not alone.
LEMMA PushInv ==
    ASSUME ScriptInv, NEW k0 \in Identity, NEW p0 \in Peer, Push(k0, p0)
    PROVE  ScriptInv'
<1>. USE DEF nodeVars, dirVars, genVars, fetchVars, installVars, Listed
<1>0. NodeTypeOK /\ GenTypeOK /\ ScriptTypeOK /\ Installing /\ Expected
    BY DEF ScriptInv
<1>1. /\ p0 \in todo[k0]
      /\ keyAt' = [keyAt EXCEPT ![p0] = k0]
      /\ todo' = [todo EXCEPT ![k0] = @ \ {p0}]
      /\ UNCHANGED <<conf, hosts, priv, drawn, faults, genVars, copies, fetched, request,
                     connect, install, script, left, spoiled>>
    BY DEF Push
<1>2. /\ keyAt' \in [Peer -> Identity \cup {Zero}] /\ keyAt'[p0] = k0 /\ p0 # Here
      /\ \A p \in Peer : p # p0 => keyAt'[p] = keyAt[p]
      /\ todo' \in [Identity -> SUBSET Watched] /\ todo'[k0] = todo[k0] \ {p0}
      /\ \A k \in Identity : k # k0 => todo'[k] = todo[k]
    BY <1>0, <1>1, ScriptFacts
<1>3. /\ took' \in [Identity -> BOOLEAN]
      /\ \A k \in Identity : took[k] = TRUE => took'[k] = TRUE
      /\ \A k \in Identity : took'[k] = TRUE => took[k] = TRUE \/ (k = k0 /\ p0 \in Public)
    <2>1. took' = [took EXCEPT ![k0] = took[k0] \/ p0 \in fetched \cap Public]
        BY DEF Push
    <2>2. CASE took[k0] = TRUE \/ p0 \in fetched \cap Public
        <3>1. took' = [took EXCEPT ![k0] = TRUE]
            BY <2>1, <2>2, Zenon
        <3>. QED BY <1>0, <2>2, <3>1, ScriptFacts
    <2>3. CASE took[k0] = FALSE /\ p0 \notin fetched \cap Public
        <3>1. took' = [took EXCEPT ![k0] = FALSE]
            BY <2>1, <2>3, Zenon
        <3>. QED BY <1>0, <2>3, <3>1, ScriptFacts
    <2>4. took[k0] \in BOOLEAN
        BY <1>0, ScriptFacts
    <2>. QED BY <2>2, <2>3, <2>4
<1>4. NodeTypeOK' /\ GenTypeOK' /\ Installing' /\ stored' = given'
    BY <1>0, <1>1, GenFacts, MonitorKeeps
<1>5. ScriptTypeOK'
    BY <1>0, <1>1, <1>2, <1>3 DEF ScriptTypeOK
<1>6. request[k0] = "pushing"
    BY <1>0, <1>1 DEF Expected
<1>7. Expected'
    <2>. SUFFICES ASSUME NEW k \in Identity
                  PROVE  /\ request[k] = "handed" => took'[k] = TRUE
                         /\ todo'[k] # {} => request[k] = "pushing"
                         /\ k > drawn => request[k] = "none"
                         /\ \A p \in Peer : keyAt'[p] = k =>
                               request[k] \notin {"none", "generating"} /\ p \notin todo'[k]
                         /\ took'[k] = TRUE =>
                               \/ \E p \in Public : keyAt'[p] = k
                               \/ \E j \in Identity \ {k} : request[j] \notin {"none", "generating"}
        BY <1>1 DEF Expected
    <2>1. /\ request[k] = "handed" => took'[k] = TRUE
          /\ k > drawn => request[k] = "none"
        BY <1>0, <1>3 DEF Expected
    <2>2. CASE k = k0
        <3>1. took'[k] = TRUE => took[k] = TRUE \/ p0 \in Public
            BY <1>3, <2>2
        <3>2. took[k] = TRUE => \/ \E p \in Public : keyAt'[p] = k
                                \/ \E j \in Identity \ {k} : request[j] \notin {"none", "generating"}
            <4>1. \A p \in Public : keyAt[p] = k => keyAt'[p] = k
                BY <1>0, <1>2, <2>2, ScriptFacts
            <4>. QED BY <1>0, <4>1 DEF Expected
        <3>3. \A p \in Peer : keyAt'[p] = k => p \notin todo'[k]
            BY <1>0, <1>2, <2>2 DEF Expected
        <3>. QED BY <1>2, <1>6, <2>1, <2>2, <3>1, <3>2, <3>3
    <2>3. CASE k # k0
        <3>1. k0 \in Identity \ {k} /\ request[k0] \notin {"none", "generating"}
            BY <1>6, <2>3
        <3>2. todo'[k] = todo[k] /\ \A p \in Peer : keyAt'[p] = k => keyAt[p] = k
            BY <1>2, <2>3
        <3>. QED BY <1>0, <2>1, <3>1, <3>2 DEF Expected
    <2>. QED BY <2>2, <2>3
<1>. QED BY <1>4, <1>5, <1>7 DEF ScriptInv

\* A push that fails may spoil the key that p had, but none that this request has pushed.
LEMMA FailPushInv ==
    ASSUME ScriptInv, NEW k0 \in Identity, NEW p0 \in Peer, FailPush(k0, p0)
    PROVE  ScriptInv'
<1>. USE DEF nodeVars, dirVars, genVars, fetchVars, installVars, Listed
<1>0. NodeTypeOK /\ GenTypeOK /\ ScriptTypeOK /\ Installing /\ Expected
    BY DEF ScriptInv
<1>1. /\ p0 \in todo[k0] /\ Fault
      /\ keyAt' \in {keyAt, [keyAt EXCEPT ![p0] = k0], [keyAt EXCEPT ![p0] = Zero]}
      /\ todo' = [todo EXCEPT ![k0] = @ \ {p0}]
      /\ UNCHANGED <<conf, hosts, priv, drawn, genVars, copies, fetched, request, connect,
                     took, install, script, left, spoiled>>
    BY DEF FailPush
<1>2. /\ keyAt' \in [Peer -> Identity \cup {Zero}] /\ keyAt'[p0] \in {keyAt[p0], k0, Zero}
      /\ p0 # Here /\ \A p \in Peer : p # p0 => keyAt'[p] = keyAt[p]
      /\ todo' \in [Identity -> SUBSET Watched] /\ todo'[k0] = todo[k0] \ {p0}
      /\ \A k \in Identity : k # k0 => todo'[k] = todo[k]
    <2>1. p0 # Here /\ keyAt \in [Peer -> Identity \cup {Zero}] /\ todo \in [Identity -> SUBSET Watched]
        BY <1>0, <1>1, ScriptFacts
    <2>2. /\ keyAt' \in [Peer -> Identity \cup {Zero}] /\ keyAt'[p0] \in {keyAt[p0], k0, Zero}
          /\ \A p \in Peer : p # p0 => keyAt'[p] = keyAt[p]
        BY <1>1, <2>1
    <2>3. /\ todo' \in [Identity -> SUBSET Watched] /\ todo'[k0] = todo[k0] \ {p0}
          /\ \A k \in Identity : k # k0 => todo'[k] = todo[k]
        BY <1>1, <2>1
    <2>. QED BY <2>1, <2>2, <2>3
<1>4. NodeTypeOK' /\ GenTypeOK' /\ Installing' /\ stored' = given'
    BY <1>0, <1>1, GenFacts, MonitorKeeps
<1>5. ScriptTypeOK'
    BY <1>0, <1>1, <1>2 DEF ScriptTypeOK
<1>6. request[k0] = "pushing" /\ Zero \notin Identity /\ Public \subseteq Peer
    BY <1>0, <1>1, ScriptFacts DEF Expected
<1>7. Expected'
    <2>. SUFFICES ASSUME NEW k \in Identity
                  PROVE  /\ request[k] = "handed" => took[k] = TRUE
                         /\ todo'[k] # {} => request[k] = "pushing"
                         /\ k > drawn => request[k] = "none"
                         /\ \A p \in Peer : keyAt'[p] = k =>
                               request[k] \notin {"none", "generating"} /\ p \notin todo'[k]
                         /\ took[k] = TRUE =>
                               \/ \E p \in Public : keyAt'[p] = k
                               \/ \E j \in Identity \ {k} : request[j] \notin {"none", "generating"}
        BY <1>1 DEF Expected
    <2>1. /\ request[k] = "handed" => took[k] = TRUE
          /\ k > drawn => request[k] = "none"
        BY <1>0 DEF Expected
    <2>2. CASE k = k0
        <3>1. \A p \in Peer : keyAt[p] = k => keyAt'[p] = k
            BY <1>0, <1>1, <1>2, <2>2 DEF Expected
        <3>2. took[k] = TRUE => \/ \E p \in Public : keyAt'[p] = k
                                \/ \E j \in Identity \ {k} : request[j] \notin {"none", "generating"}
            BY <1>0, <1>6, <3>1 DEF Expected
        <3>3. \A p \in Peer : keyAt'[p] = k => p \notin todo'[k]
            BY <1>0, <1>2, <2>2 DEF Expected
        <3>. QED BY <1>2, <1>6, <2>1, <2>2, <3>2, <3>3
    <2>3. CASE k # k0
        <3>1. k0 \in Identity \ {k} /\ request[k0] \notin {"none", "generating"}
            BY <1>6, <2>3
        <3>2. todo'[k] = todo[k] /\ \A p \in Peer : keyAt'[p] = k => keyAt[p] = k
            BY <1>2, <1>6, <2>3
        <3>. QED BY <1>0, <2>1, <3>1, <3>2 DEF Expected
    <2>. QED BY <2>2, <2>3
<1>. QED BY <1>4, <1>5, <1>7 DEF ScriptInv

\* The script is handed out if a public node has taken the key.
LEMMA HandOutInv ==
    ASSUME ScriptInv, NEW k0 \in Identity, HandOut(k0)
    PROVE  ScriptInv'
<1>. USE DEF nodeVars, dirVars, genVars, fetchVars, installVars, Listed
<1>0. NodeTypeOK /\ GenTypeOK /\ ScriptTypeOK /\ Installing /\ Expected
    BY DEF ScriptInv
<1>1. /\ request[k0] = "pushing" /\ todo[k0] = {}
      /\ UNCHANGED <<conf, hosts, priv, drawn, faults, genVars, copies, fetched, connect, todo,
                     took, keyAt, install, script, left, spoiled>>
    BY DEF HandOut
<1>2. PICK v \in {"handed", "undelivered"} :
         /\ request' = [request EXCEPT ![k0] = v]
         /\ v = "handed" => took[k0] = TRUE
    <2>1. request' = [request EXCEPT ![k0] = IF took[k0] THEN "handed" ELSE "undelivered"]
        BY DEF HandOut
    <2>2. took[k0] \in BOOLEAN
        BY <1>0, ScriptFacts
    <2>3. CASE took[k0] = TRUE
        <3>1. request' = [request EXCEPT ![k0] = "handed"]
            BY <2>1, <2>3, Zenon
        <3>. QED BY <2>3, <3>1
    <2>4. CASE took[k0] = FALSE
        <3>1. request' = [request EXCEPT ![k0] = "undelivered"]
            BY <2>1, <2>4, Zenon
        <3>. QED BY <3>1
    <2>. QED BY <2>2, <2>3, <2>4
<1>3. /\ request' \in [Identity -> {"none", "generating", "pushing", "handed", "undelivered"}]
      /\ request'[k0] = v
      /\ \A k \in Identity : k # k0 => request'[k] = request[k]
    BY <1>0, <1>2, ScriptFacts
<1>4. NodeTypeOK' /\ GenTypeOK' /\ Installing' /\ stored' = given'
    BY <1>0, <1>1, GenFacts, MonitorKeeps
<1>5. ScriptTypeOK'
    <2>1. install # "off" => script # k0
        BY <1>0, <1>1 DEF ScriptTypeOK
    <2>. QED BY <1>0, <1>1, <1>3, <2>1 DEF ScriptTypeOK
<1>6. Expected'
    <2>1. \A j \in Identity : request[j] \notin {"none", "generating"} <=>
             request'[j] \notin {"none", "generating"}
        BY <1>1, <1>2, <1>3
    <2>2. ~ (k0 > drawn)
        BY <1>0, <1>1 DEF Expected
    <2>. SUFFICES ASSUME NEW k \in Identity
                  PROVE  /\ request'[k] = "handed" => took[k] = TRUE
                         /\ todo[k] # {} => request'[k] = "pushing"
                         /\ k > drawn => request'[k] = "none"
                         /\ \A p \in Peer : keyAt[p] = k =>
                               request'[k] \notin {"none", "generating"} /\ p \notin todo[k]
                         /\ took[k] = TRUE =>
                               \/ \E p \in Public : keyAt[p] = k
                               \/ \E j \in Identity \ {k} : request'[j] \notin {"none", "generating"}
        BY <1>1 DEF Expected
    <2>3. CASE k = k0
        BY <1>0, <1>1, <1>2, <1>3, <2>1, <2>2, <2>3 DEF Expected
    <2>4. CASE k # k0
        BY <1>0, <1>3, <2>1, <2>4 DEF Expected
    <2>. QED BY <2>3, <2>4
<1>. QED BY <1>4, <1>5, <1>6 DEF ScriptInv

\* The script runs gen anew, and nothing of what it has done before matters.
LEMMA RunScriptInv ==
    ASSUME ScriptInv, NEW k0 \in Identity, RunScript(k0)
    PROVE  ScriptInv'
<1>. USE DEF nodeVars, dirVars
<1>. DEFINE options == Options(k0)
<1>0. NodeTypeOK /\ GenTypeOK /\ ScriptTypeOK /\ Installing /\ Expected /\ stored = given
    BY DEF ScriptInv
<1>1. /\ request[k0] = "handed" /\ install' = "gen" /\ script' = k0 /\ left' = Listed(k0)
      /\ cmd' = options /\ gen' = (IF options.prefixOK THEN "conf" ELSE "failed") /\ url' = 1
      /\ UNCHANGED <<conf, hosts, priv, drawn, faults, stored, handler, sent, given,
                     copies, fetched, request, connect, todo, took, keyAt, spoiled>>
    BY DEF RunScript, RunGen, uiVars, fetchVars
<1>2. gen' \in {"conf", "failed"}
    BY <1>1, Zenon
<1>a. Listed(script)' = Listed(k0)
    BY <1>1 DEF Listed
<1>3. /\ cmd' \in Cmd /\ cmd'.identity = script' /\ cmd'.genKey = FALSE /\ cmd'.standalone = TRUE
      /\ cmd'.connectTo = SetToSeq(Listed(script)')
    <2>1. SetToSeq(Listed(k0)) \in Seq(Peer \cup {Self}) /\ (Listed(k0) # {}) \in BOOLEAN
        BY ScriptOptions
    <2>. QED BY <1>1, <1>a, <2>1 DEF Cmd, Options
<1>. HIDE DEF options
<1>4. url' \in DOMAIN Boot
    BY <1>1, BootAssumption
<1>5. NodeTypeOK'
    BY <1>0, <1>1 DEF NodeTypeOK
<1>6. GenTypeOK'
    BY <1>0, <1>1, <1>2, <1>3, <1>4 DEF GenTypeOK
<1>7. ScriptTypeOK'
    BY <1>0, <1>1, <1>a DEF ScriptTypeOK
<1>8. Installing'
    <2>1. Unspoiled'
        BY <1>0, <1>1 DEF Installing, Unspoiled
    <2>. QED BY <1>1, <1>2, <1>3, <1>a, <2>1 DEF Installing
<1>9. Expected'
    BY <1>0, <1>1 DEF Expected
<1>. QED BY <1>0, <1>1, <1>5, <1>6, <1>7, <1>8, <1>9 DEF ScriptInv

\* What is known of the peers' host files depends on nothing else.
LEMMA FilesKept ==
    ASSUME UNCHANGED spoiled, \A p \in Peer : hosts'[p] = hosts[p]
    PROVE  /\ Unspoiled => Unspoiled'
           /\ \A p \in Peer : AsItsOwn(p)' = AsItsOwn(p)
BY DEF Unspoiled, AsItsOwn

\* The steps of its gen.
LEMMA ScriptGenInv ==
    ASSUME ScriptInv, WriteConf \/ WriteHost \/ RunKeyGen \/ Interrupt, UNCHANGED scriptVars
    PROVE  ScriptInv'
<1>. USE DEF nodeVars, dirVars, scriptVars, uiVars, fetchVars, installVars
<1>0. NodeTypeOK /\ GenTypeOK /\ ScriptTypeOK /\ Installing /\ Expected /\ stored = given
    BY DEF ScriptInv
<1>1. ASSUME drawn' = drawn PROVE ScriptTypeOK' /\ Expected'
    BY <1>0, <1>1 DEF ScriptTypeOK, Expected, Listed
<1>a. Listed(script)' = Listed(script)
    BY DEF Listed
<1>b. ASSUME \A p \in Peer : hosts'[p] = hosts[p]
      PROVE  Unspoiled' /\ \A p \in Peer : AsItsOwn(p)' = AsItsOwn(p)
    BY <1>0, <1>b, FilesKept DEF Installing
<1>2. CASE WriteConf
    <2>1. /\ NodeTypeOK' /\ GenTypeOK'
          /\ \/ gen' = "host" /\ conf' = GenConf
             \/ gen' = "failed"
        BY <1>0, <1>2, WriteConfType
    <2>2. gen = "conf" /\ UNCHANGED <<hosts, priv, drawn, cmd, url, stored, handler, sent, given>>
        BY <1>2 DEF WriteConf
    <2>3. Installing'
        BY <1>0, <1>a, <1>b, <2>1, <2>2, GenFilesKept DEF Installing
    <2>. QED BY <1>0, <1>1, <2>1, <2>2, <2>3 DEF ScriptInv
<1>3. CASE WriteHost
    <2>1. /\ NodeTypeOK' /\ GenTypeOK'
          /\ \/ gen' = "keys" /\ hosts'[Self] = GenHost
             \/ gen' = "failed"
        BY <1>0, <1>3, WriteHostType
    <2>2. gen = "host" /\ UNCHANGED <<conf, priv, drawn, cmd, url, stored, handler, sent, given>>
        BY <1>3 DEF WriteHost
    <2>4. \A p \in Peer : hosts'[p] = hosts[p]
        BY <1>0, <1>3, ScriptFacts DEF WriteHost
    <2>3. Installing'
        BY <1>0, <1>a, <1>b, <2>1, <2>2, <2>4, GenFilesKept DEF Installing
    <2>. QED BY <1>0, <1>1, <2>1, <2>2, <2>3 DEF ScriptInv
<1>4. CASE RunKeyGen
    <2>1. gen = "keys" /\ install = "gen" /\ cmd.genKey = FALSE /\ cmd.standalone = TRUE
        BY <1>0, <1>4 DEF RunKeyGen, Installing
    <2>2. priv' = priv /\ hosts' = hosts /\ gen' = "done" /\ faults' = faults
        BY <1>4, <2>1, Zenon DEF RunKeyGen
    <2>3. UNCHANGED <<conf, drawn, cmd, url, stored, handler, sent, given>>
        BY <1>4 DEF RunKeyGen
    <2>4. NodeTypeOK'
        BY <1>0, <2>2, <2>3 DEF NodeTypeOK
    <2>5. GenTypeOK'
        BY <1>0, <2>2, <2>3 DEF GenTypeOK
    <2>6. Installing'
        BY <1>0, <1>a, <1>b, <2>1, <2>2, <2>3, GenFilesKept DEF Installing
    <2>. QED BY <1>0, <1>1, <2>3, <2>4, <2>5, <2>6 DEF ScriptInv
<1>5. CASE Interrupt
    <2>1. /\ gen \in {"conf", "host", "keys"} /\ gen' = "failed" /\ Fault
          /\ UNCHANGED <<conf, hosts, priv, drawn, cmd, url, stored, handler, sent, given>>
        BY <1>0, <1>5 DEF Interrupt, Installing
    <2>2. NodeTypeOK'
        BY <1>0, <2>1, GenFacts DEF NodeTypeOK
    <2>3. GenTypeOK'
        BY <1>0, <2>1 DEF GenTypeOK
    <2>4. Installing'
        BY <1>0, <1>a, <1>b, <2>1, GenFilesKept DEF Installing
    <2>. QED BY <1>0, <1>1, <2>1, <2>2, <2>3, <2>4 DEF ScriptInv
<1>. QED BY <1>2, <1>3, <1>4, <1>5

\* The script goes on with what its gen has written.
LEMMA GenEndsInv ==
    ASSUME ScriptInv, GenEnds
    PROVE  ScriptInv'
<1>. USE DEF nodeVars, dirVars, genVars, uiVars, fetchVars, installVars, Listed
<1>0. NodeTypeOK /\ GenTypeOK /\ ScriptTypeOK /\ Installing /\ Expected /\ stored = given
    BY DEF ScriptInv
<1>1. /\ install = "gen" /\ gen \in {"done", "failed"}
      /\ install' = IF gen = "done" THEN "key" ELSE "failed"
      /\ UNCHANGED <<conf, hosts, priv, drawn, faults, gen, cmd, url, stored, handler, sent, given,
                     copies, fetched, request, connect, todo, took, keyAt, script, left,
                     spoiled>>
    BY DEF GenEnds
<1>2. NodeTypeOK' /\ GenTypeOK' /\ ScriptTypeOK' /\ Expected'
    <2>1. NodeTypeOK' /\ GenTypeOK'
        BY <1>0, <1>1 DEF NodeTypeOK, GenTypeOK
    <2>2. ScriptTypeOK'
        BY <1>0, <1>1 DEF ScriptTypeOK
    <2>3. Expected'
        BY <1>0, <1>1 DEF Expected
    <2>. QED BY <2>1, <2>2, <2>3
<1>3. Installing'
    BY <1>0, <1>1, FilesKept, GenFilesKept DEF Installing
<1>. QED BY <1>0, <1>1, <1>2, <1>3 DEF ScriptInv

\* What the script adds to the directory, which gen has left as it is.
LEMMA ScriptWrites ==
    ASSUME ScriptInv, UNCHANGED <<conf, drawn, genVars, uiVars, script>>,
           hosts' \in [Name -> File \cup {NoFile}], priv' \in {priv, script, Zero},
           faults' = faults \/ Fault, left' \subseteq left, spoiled' \subseteq Named,
           install # "off", install' \in {"priv", "peers", "done", "failed"}
    PROVE  NodeTypeOK' /\ GenTypeOK' /\ ScriptTypeOK' /\ Expected' /\ stored' = given'
<1>. USE DEF genVars, uiVars, fetchVars, Listed
<1>0. NodeTypeOK /\ GenTypeOK /\ ScriptTypeOK /\ Expected /\ stored = given
    BY DEF ScriptInv
<1>1. script \in 0..drawn /\ Zero \in 0..drawn
    <2>1. script \in Identity /\ request[script] = "handed" /\ ~ (script > drawn) /\ drawn \in Nat
        BY <1>0, GenFacts DEF ScriptTypeOK, Expected
    <2>. QED BY <2>1 DEF Identity, Zero
<1>2. faults' \in 0..MaxFaults
    BY <1>0, GenFacts
<1>3. NodeTypeOK'
    BY <1>0, <1>1, <1>2 DEF NodeTypeOK
<1>4. GenTypeOK' /\ ScriptTypeOK' /\ Expected'
    BY <1>0 DEF GenTypeOK, ScriptTypeOK, Expected
<1>. QED BY <1>0, <1>3, <1>4

\* The public key, behind gen's host file.
LEMMA AppendKeyInv ==
    ASSUME ScriptInv, AppendKey
    PROVE  ScriptInv'
<1>. USE DEF nodeVars, dirVars, genVars, uiVars, fetchVars, installVars, Listed
<1>0. NodeTypeOK /\ GenTypeOK /\ ScriptTypeOK /\ Installing /\ Expected
    BY DEF ScriptInv
<1>1. /\ install = "key"
      /\ \/ /\ hosts' = [hosts EXCEPT ![Self] = Append(@, KeyLine(script))]
            /\ install' = "priv" /\ UNCHANGED faults
         \/ UNCHANGED hosts /\ install' = "failed" /\ Fault
      /\ UNCHANGED <<conf, priv, drawn, gen, cmd, url, stored, handler, sent, given,
                     copies, fetched, request, connect, todo, took, keyAt, script, left,
                     spoiled>>
    BY DEF AppendKey, Step, FailStep
<1>2. /\ hosts[Self] = GenHost /\ cmd.identity = script /\ gen = "done" /\ WholeHost \in File
      /\ Append(GenHost, KeyLine(script)) = WholeHost
    BY <1>0, <1>1, GenFacts, GenFiles DEF Installing, WholeHost
<1>3. /\ hosts' \in [Name -> File \cup {NoFile}]
      /\ install' = "priv" => hosts'[Self] = WholeHost
    BY <1>0, <1>1, <1>2, GenFacts, BootNodes
<1>4. NodeTypeOK' /\ GenTypeOK' /\ ScriptTypeOK' /\ Expected' /\ stored' = given'
    BY <1>0, <1>1, <1>3, ScriptWrites DEF ScriptTypeOK
<1>5. Installing'
    <2>1. \A p \in Peer : hosts'[p] = hosts[p]
        BY <1>0, <1>1, ScriptFacts DEF NodeTypeOK, Name
    <2>. QED BY <1>0, <1>1, <1>2, <1>3, <2>1, FilesKept, GenFilesKept DEF Installing
<1>. QED BY <1>4, <1>5 DEF ScriptInv

\* Nothing of a peer's host file is known to be there when the peers begin.
LEMMA WritePrivInv ==
    ASSUME ScriptInv, WritePriv
    PROVE  ScriptInv'
<1>. USE DEF nodeVars, dirVars, genVars, uiVars, fetchVars, installVars, Listed
<1>0. NodeTypeOK /\ GenTypeOK /\ ScriptTypeOK /\ Installing /\ Expected
    BY DEF ScriptInv
<1>1. /\ install = "priv"
      /\ \/ priv' = script /\ install' = "peers" /\ UNCHANGED faults
         \/ priv' = Zero /\ install' = "failed" /\ Fault
      /\ UNCHANGED <<conf, hosts, drawn, gen, cmd, url, stored, handler, sent, given,
                     copies, fetched, request, connect, todo, took, keyAt, script, left,
                     spoiled>>
    BY DEF WritePriv, Step, FailStep
<1>2. hosts' \in [Name -> File \cup {NoFile}]
    BY <1>0, <1>1, GenFacts
<1>3. NodeTypeOK' /\ GenTypeOK' /\ ScriptTypeOK' /\ Expected' /\ stored' = given'
    BY <1>0, <1>1, <1>2, ScriptWrites DEF ScriptTypeOK
<1>4. Installing'
    BY <1>0, <1>1, FilesKept, GenFilesKept DEF Installing
<1>. QED BY <1>3, <1>4 DEF ScriptInv

\* What was appended of p's host file, if it is not cut off within a line.
LEMMA WholeLines ==
    ASSUME NEW p \in Peer, NEW old \in Seq(PeerLines(p)),
           NEW part \in {PeerFile(p)} \cup Torn(PeerFile(p)), ~ Ragged(old \o part)
    PROVE  part \in Seq(PeerLines(p))
<1>1. PeerFile(p) \in Seq(PeerLines(p))
    BY PeerLinesWhole
<1>2. CASE part = PeerFile(p)
    BY <1>1, <1>2
<1>3. CASE part \in Torn(PeerFile(p))
    <2>. DEFINE S == PeerLines(p)
                whole(n) == SubSeq(PeerFile(p), 1, n - 1)
    <2>1. PICK n \in 1..2 :
             part \in {whole(n), Append(whole(n), NoSeparator),
                       Append(whole(n), Line(PeerFile(p)[n].key, Zero))}
        <3>1. DOMAIN PeerFile(p) = 1..2
            BY DEF PeerFile
        <3>. QED BY <1>3, <3>1, Zenon DEF Torn
    <2>2. whole(n) \in Seq(S)
        BY <1>1, <2>1 DEF PeerFile
    <2>. HIDE DEF whole, S
    <2>3. ASSUME NEW x, x.value = Zero, part = Append(whole(n), x)
          PROVE  Ragged(old \o part)
        <3>. DEFINE T == S \cup {x}
                    c == old \o part
        <3>1. old \in Seq(T) /\ part \in Seq(T) /\ Len(part) = Len(whole(n)) + 1
              /\ part[Len(part)] = x /\ Len(whole(n)) \in Nat
            BY <2>2, <2>3 DEF S
        <3>2. c \in Seq(T) /\ Len(c) = Len(old) + Len(part) /\ c[Len(c)] = x /\ Len(c) # 0
            BY <3>1
        <3>. HIDE DEF c
        <3>3. c # <<>> /\ Last(c) = x
            BY <3>2 DEF Last
        <3>. QED BY <2>3, <3>3 DEF Ragged, c
    <2>4. NoSeparator.value = Zero /\ \A key : Line(key, Zero).value = Zero
        BY DEF NoSeparator, Line
    <2>. QED BY <2>1, <2>2, <2>3, <2>4 DEF S
<1>. QED BY <1>2, <1>3

\* The file of one name: the others' stay.
LEMMA AppendPeerInv ==
    ASSUME ScriptInv, NEW m \in Named, AppendPeer(m)
    PROVE  ScriptInv'
<1>. USE DEF nodeVars, dirVars, genVars, uiVars, fetchVars
<1>. DEFINE old == IF hosts[m] = NoFile THEN <<>> ELSE hosts[m]
            lines == Ended(connect[script][m])
<1>0. NodeTypeOK /\ GenTypeOK /\ ScriptTypeOK /\ Installing /\ Expected
    BY DEF ScriptInv
<1>1. /\ install = "peers" /\ m \in left /\ left' = left \ {m}
      /\ UNCHANGED <<conf, priv, drawn, gen, cmd, url, stored, handler, sent, given,
                     copies, fetched, request, connect, todo, took, keyAt, script>>
    BY DEF AppendPeer
<1>2. /\ m \in Name /\ Named \subseteq Name /\ Self \in Name /\ Self \notin Peer
      /\ hosts \in [Name -> File \cup {NoFile}] /\ m \in Listed(script)
    BY <1>0, <1>1, GenFacts, ScriptFacts DEF ScriptTypeOK
<1>3. old \in File /\ lines \in File /\ Torn(lines) \subseteq File
    <2>1. <<>> \in File
        BY DEF File
    <2>2. connect[script][m] \in File
        BY <1>0, <1>2, ScriptFacts DEF Listed
    <2>3. lines \in File
        BY <2>2, EndedType
    <2>. QED BY <1>2, <2>1, <2>3, TornLines
<1>4. PICK part \in {lines} \cup Torn(lines) :
         /\ hosts' = [hosts EXCEPT ![m] = Behind(old, part)]
         /\ \/ part = lines /\ install' = "peers" /\ UNCHANGED faults
            \/ install' = "failed" /\ Fault
    BY DEF AppendPeer, Step, FailStep
<1>5. spoiled' = IF connect[script][m] = PeerFile(m) /\ ~ Ragged(hosts'[m])
                 THEN spoiled ELSE spoiled \cup {m}
    BY DEF AppendPeer
<1>. HIDE DEF old, lines
<1>6. Behind(old, part) \in File
    BY <1>3, BehindType
<1>7. /\ hosts' \in [Name -> File \cup {NoFile}] /\ hosts'[m] = Behind(old, part)
      /\ \A n \in Name : n # m => hosts'[n] = hosts[n]
    BY <1>2, <1>4, <1>6
<1>8. spoiled' \subseteq Named /\ spoiled \subseteq spoiled'
    BY <1>0, <1>5 DEF ScriptTypeOK
<1>9. NodeTypeOK' /\ GenTypeOK' /\ ScriptTypeOK' /\ Expected' /\ stored' = given'
    BY <1>1, <1>4, <1>7, <1>8, ScriptWrites
<1>10. ASSUME m \in Peer, m \notin spoiled'
       PROVE  /\ old \in Seq(PeerLines(m)) /\ lines = PeerFile(m)
              /\ hosts'[m] = old \o part /\ ~ Ragged(hosts'[m])
    <2>1. m \notin spoiled /\ connect[script][m] = PeerFile(m) /\ ~ Ragged(hosts'[m])
        BY <1>5, <1>10
    <2>2. old \in Seq(PeerLines(m))
        BY <1>0, <1>10, <2>1 DEF Installing, Unspoiled, old
    <2>. QED BY <1>7, <1>10, <2>1, <2>2, PeerLinesWhole DEF lines
<1>11. ASSUME m \in Peer, m \notin spoiled'
       PROVE  hosts'[m] \in Seq(PeerLines(m))
    <2>1. part \in Seq(PeerLines(m))
        <3>1. part \in {PeerFile(m)} \cup Torn(PeerFile(m)) /\ ~ Ragged(old \o part)
            BY <1>10, <1>11
        <3>. QED BY <1>10, <1>11, <3>1, WholeLines
    <2>2. \A S : \A a, b \in Seq(S) : a \o b \in Seq(S)
        OBVIOUS
    <2>3. hosts'[m] = old \o part /\ old \in Seq(PeerLines(m))
        BY <1>10, <1>11
    <2>. QED BY <2>1, <2>2, <2>3
<1>12. Unspoiled'
    <2>. SUFFICES ASSUME NEW p \in Peer, p \notin spoiled'
                  PROVE  hosts'[p] = NoFile \/ hosts'[p] \in Seq(PeerLines(p))
        BY DEF Unspoiled
    <2>1. CASE p = m
        BY <1>11, <2>1
    <2>2. CASE p # m
        <3>1. hosts'[p] = hosts[p] /\ p \notin spoiled
            BY <1>2, <1>7, <1>8, <2>2 DEF Named
        <3>. QED BY <1>0, <3>1 DEF Installing, Unspoiled
    <2>. QED BY <2>1, <2>2
<1>13. CASE install' = "failed"
    <2>1. Installing'
        BY <1>0, <1>1, <1>12, <1>13, GenFilesKept DEF Installing, Listed
    <2>. QED BY <1>9, <2>1 DEF ScriptInv
<1>14. CASE install' = "peers" /\ part = lines
    <2>1. Listed(script)' = Listed(script)
        BY <1>1 DEF Listed
    <2>2. \A p \in (Listed(script) \cap Peer) \ (left' \cup spoiled') : AsItsOwn(p)'
        <3>. SUFFICES ASSUME NEW p \in (Listed(script) \cap Peer) \ (left' \cup spoiled')
                      PROVE  AsItsOwn(p)'
            OBVIOUS
        <3>1. CASE p = m
            <4>1. hosts'[m] = old \o PeerFile(m) /\ old \in Seq(PeerLines(m))
                BY <1>10, <1>14, <3>1
            <4>. QED BY <3>1, <4>1, PeerFileRead DEF AsItsOwn
        <3>2. CASE p # m
            <4>1. hosts'[p] = hosts[p] /\ p \notin left \cup spoiled
                BY <1>1, <1>2, <1>7, <1>8, <3>2 DEF Named
            <4>2. AsItsOwn(p)
                BY <1>0, <1>1, <4>1 DEF Installing
            <4>. QED BY <4>1, <4>2 DEF AsItsOwn
        <3>. QED BY <3>1, <3>2
    <2>3. Self \notin Listed(script) => hosts'[Self] = hosts[Self]
        BY <1>2, <1>7
    <2>4. Installing'
        BY <1>0, <1>1, <1>12, <1>14, <2>1, <2>2, <2>3, GenFilesKept DEF Installing
    <2>. QED BY <1>9, <2>4 DEF ScriptInv
<1>. QED BY <1>4, <1>13, <1>14

\* All peers have been added.
LEMMA FinishInv ==
    ASSUME ScriptInv, Finish
    PROVE  ScriptInv'
<1>. USE DEF nodeVars, dirVars, genVars, uiVars, fetchVars, installVars, Listed
<1>0. NodeTypeOK /\ GenTypeOK /\ ScriptTypeOK /\ Installing /\ Expected /\ stored = given
    BY DEF ScriptInv
<1>1. /\ install = "peers" /\ left = {} /\ install' = "done"
      /\ UNCHANGED <<conf, hosts, priv, drawn, faults, gen, cmd, url, stored, handler, sent, given,
                     copies, fetched, request, connect, todo, took, keyAt, script, left,
                     spoiled>>
    BY DEF Finish
<1>2. NodeTypeOK' /\ GenTypeOK' /\ ScriptTypeOK' /\ Expected'
    <2>1. NodeTypeOK' /\ GenTypeOK'
        BY <1>0, <1>1 DEF NodeTypeOK, GenTypeOK
    <2>2. ScriptTypeOK'
        BY <1>0, <1>1 DEF ScriptTypeOK
    <2>3. Expected'
        BY <1>0, <1>1 DEF Expected
    <2>. QED BY <2>1, <2>2, <2>3
<1>3. Installing'
    BY <1>0, <1>1, FilesKept, GenFilesKept DEF Installing
<1>. QED BY <1>0, <1>1, <1>2, <1>3 DEF ScriptInv

\* Steps of others do not matter.
LEMMA ScriptStutterInv ==
    ASSUME ScriptInv, UNCHANGED <<nodeVars, genVars, scriptVars>>
    PROVE  ScriptInv'
<1>. USE DEF nodeVars, dirVars, genVars, scriptVars, uiVars, fetchVars, installVars, Listed
<1>1. NodeTypeOK' /\ GenTypeOK' /\ ScriptTypeOK' /\ stored' = given'
    BY DEF ScriptInv, NodeTypeOK, GenTypeOK, ScriptTypeOK
<1>2. Installing' /\ Expected'
    BY FilesKept, GenFilesKept DEF ScriptInv, Installing, Expected
<1>. QED BY <1>1, <1>2 DEF ScriptInv

\* Every step of the monitor and of the script preserves the invariant.
LEMMA ScriptStepInv ==
    ASSUME ScriptInv, ScriptNext
    PROVE  ScriptInv'
BY WriteCopyInv, FetchInv, GenerateInv, DistributeInv, PushInv, FailPushInv, HandOutInv, RunScriptInv,
   ScriptGenInv, GenEndsInv, AppendKeyInv, WritePrivInv, AppendPeerInv, FinishInv, Zenon
   DEF ScriptNext

\* What the invariant is for.
LEMMA ScriptInvImplies ==
    ASSUME ScriptInv
    PROVE  Introduced /\ Installed
<1>0. NodeTypeOK /\ GenTypeOK /\ ScriptTypeOK /\ Installing /\ Expected
    BY DEF ScriptInv
<1>1. Introduced
    BY <1>0 DEF Expected, Introduced
<1>2. Installed
    <2>. SUFFICES ASSUME install = "done"
                  PROVE  Installed
        BY DEF Installed
    <2>1. /\ cmd \in Cmd /\ cmd.identity = script /\ cmd.connectTo = SetToSeq(Listed(script))
          /\ conf = GenConf /\ priv = script /\ left = {} /\ script \in Identity
          /\ Self \notin Listed(script) => hosts[Self] = WholeHost
          /\ \A p \in (Listed(script) \cap Peer) \ spoiled : AsItsOwn(p)
        BY <1>0, GenFacts, ScriptFacts DEF Installing
    <2>2. Main \in MainStruct /\ Main.Name = Self /\ Main.ConnectTo = cmd.connectTo
        BY <2>1, GenConfReadBack DEF Main
    <2>3. Self \notin Listed(script) => KeyOf(hosts[Self]) = script
        BY <2>1, GenFiles
    <2>4. Range(Main.ConnectTo) = Listed(script)
        BY <2>1, <2>2, ScriptOptions
    <2>5. \A p \in Listed(script) \ (spoiled \cup {Self}) :
             ReadFile(hosts[p], NoNode) = ReadFile(PeerFile(p), NoNode)
        <3>1. Listed(script) \ {Self} \subseteq Peer
            BY DEF Listed, Named
        <3>. QED BY <2>1, <3>1 DEF AsItsOwn
    <2>. QED BY <2>1, <2>2, <2>3, <2>4, <2>5, ValuesAreNoFile DEF Installed
<1>. QED BY <1>1, <1>2

-----------------------------------------------------------------------------
(* Setup: a node uses one of the tools, and the other two stay as they were.*)

SetupInv ==
    \/ tool = "run" /\ StartInv /\ GenInit /\ ScriptInit
    \/ tool = "gen" /\ GenInv /\ StartupInit /\ ScriptInit
    \/ tool = "script" /\ ScriptInv /\ StartupInit

\* The host file of another node of the name is one.
LEMMA ForeignType == Foreign \in File
<1>1. Line("Subnet", Zero) \in TextLine
    BY LineType, ValuesAreNoFile DEF Key
<1>. QED BY <1>1 DEF Foreign, File

\* What has not been used has its types, whatever the directory has become.
LEMMA UnusedTypes ==
    ASSUME NodeTypeOK
    PROVE  /\ StartupInit => StartupTypeOK
           /\ GenInit => GenTypeOK
           /\ ScriptInit => ScriptTypeOK
<1>1. drawn \in Nat /\ faults \in Nat /\ 0 \in 0..faults
    BY NodeDirAssumption DEF NodeTypeOK
<1>2. StartupInit => StartupTypeOK
    <2>. SUFFICES ASSUME StartupInit PROVE StartupTypeOK
        OBVIOUS
    <2>. USE DEF StartupInit
    <2>1. faulty \in BOOLEAN /\ (self # Zero) = (start = "up")
        BY DEF Zero
    <2>. QED BY <1>1, <2>1 DEF StartupTypeOK
<1>3. GenInit => GenTypeOK
    <2>. SUFFICES ASSUME GenInit PROVE GenTypeOK
        OBVIOUS
    <2>1. 1 \in DOMAIN Boot /\ Self \in Identity
        BY BootAssumption, NodeDirAssumption DEF Self, Identity
    <2>2. cmd \in Cmd
        BY <2>1 DEF GenInit, Cmd
    <2>3. Foreign \in File
        BY ForeignType
    <2>4. stored \in [BootNode -> File \cup {NoFile}] /\ given \in [BootNode -> File \cup {NoFile}]
        BY <2>3 DEF GenInit
    <2>. QED BY <2>1, <2>2, <2>4 DEF GenInit, GenTypeOK
<1>4. ScriptInit => ScriptTypeOK
    <2>. SUFFICES ASSUME ScriptInit PROVE ScriptTypeOK
        OBVIOUS
    <2>1. Self \in Identity
        BY NodeDirAssumption DEF Self, Identity
    <2>2. took \in [Identity -> BOOLEAN]
        BY DEF ScriptInit
    <2>3. copies \in [Named -> File \cup {NoFile}]
        <3>1. Foreign \in File /\ PeerFile(Here) \in File
            BY ForeignType, PeerFileType, NodeScriptAssumption
        <3>2. PICK own \in {NoFile, Foreign} :
                 copies = [m \in Named |-> IF m = Here THEN PeerFile(Here)
                                           ELSE IF m = Self THEN own ELSE NoFile]
            BY DEF ScriptInit
        <3>. QED BY <3>1, <3>2
    <2>4. connect \in [Identity -> [Named -> File \cup {NoFile}]]
        BY DEF ScriptInit
    <2>. QED BY <2>1, <2>2, <2>3, <2>4, NodeScriptAssumption DEF ScriptInit, ScriptTypeOK
<1>. QED BY <1>2, <1>3, <1>4

\* None of the tools has done anything in the beginning.
LEMMA SetupInit == Init => SetupInv
<1>. SUFFICES ASSUME Init PROVE SetupInv
    OBVIOUS
<1>0. NodeInit /\ StartupInit /\ GenInit /\ ScriptInit /\ tool \in {"run", "gen", "script"}
    BY DEF Init
<1>1. StartInv /\ NodeTypeOK
    BY <1>0, InitInv DEF StartInv
<1>2. GenTypeOK /\ ScriptTypeOK
    BY <1>0, <1>1, UnusedTypes
<1>3. GenInv
    <2>1. Progress /\ Requests /\ LetIn
        BY <1>0, <1>2 DEF GenInit, GenTypeOK, Progress, Requests, LetIn, Joining, Cmd
    <2>2. Undisturbed
        BY <1>0 DEF GenInit, Undisturbed, Joining
    <2>. QED BY <1>1, <1>2, <2>1, <2>2 DEF GenInv
<1>4. ScriptInv
    <2>1. Unspoiled
        BY <1>0 DEF NodeInit, Unspoiled, Name
    <2>3. Installing
        BY <1>0, <2>1 DEF GenInit, ScriptInit, Installing
    <2>2. Expected
        <3>1. Zero \notin Identity
            BY NodeDirAssumption DEF Identity, Zero
        <3>. QED BY <1>0, <3>1 DEF ScriptInit, Expected
    <2>. QED BY <1>0, <1>1, <1>2, <2>2, <2>3 DEF GenInit, ScriptInv
<1>. QED BY <1>0, <1>1, <1>3, <1>4 DEF SetupInv

\* Each step is one of the tool that the node uses.
LEMMA SetupStep == SetupInv /\ [Next]_vars => SetupInv'
<1>. SUFFICES ASSUME SetupInv, [Next]_vars PROVE SetupInv'
    OBVIOUS
<1>1. ASSUME UNCHANGED genVars, GenInit PROVE GenInit'
    BY <1>1 DEF genVars, GenInit
<1>2. ASSUME UNCHANGED scriptVars, ScriptInit PROVE ScriptInit'
    BY <1>2 DEF scriptVars, uiVars, fetchVars, installVars, ScriptInit
<1>3. ASSUME UNCHANGED startVars, StartupInit PROVE StartupInit'
    BY <1>3 DEF startVars, StartupInit
<1>4. CASE tool = "run" /\ StartInv /\ GenInit /\ ScriptInit
    <2>1. /\ StartupNext \/ UNCHANGED <<nodeVars, startVars>>
          /\ UNCHANGED <<genVars, scriptVars, tool>>
        BY <1>4 DEF Next, vars
    <2>2. StartInv'
        BY <1>4, <2>1, StartupStepInv, StutterInv
    <2>. QED BY <1>1, <1>2, <1>4, <2>1, <2>2 DEF SetupInv
<1>5. CASE tool = "gen" /\ GenInv /\ StartupInit /\ ScriptInit
    <2>1. /\ GenNext \/ UNCHANGED <<nodeVars, genVars>>
          /\ UNCHANGED <<startVars, scriptVars, tool>>
        BY <1>5 DEF Next, vars
    <2>2. GenInv'
        BY <1>5, <2>1, GenStepInv, GenStutterInv
    <2>. QED BY <1>2, <1>3, <1>5, <2>1, <2>2 DEF SetupInv
<1>6. CASE tool = "script" /\ ScriptInv /\ StartupInit
    <2>1. /\ ScriptNext \/ UNCHANGED <<nodeVars, genVars, scriptVars>>
          /\ UNCHANGED <<startVars, tool>>
        BY <1>6 DEF Next, vars
    <2>2. ScriptInv'
        BY <1>6, <2>1, ScriptStepInv, ScriptStutterInv
    <2>. QED BY <1>3, <1>6, <2>1, <2>2 DEF SetupInv
<1>. QED BY <1>4, <1>5, <1>6 DEF SetupInv

\* The invariant of the specification.
THEOREM SetupInvariant == Spec => []SetupInv
<1>1. Init => SetupInv
    BY SetupInit
<1>2. SetupInv /\ [Next]_vars => SetupInv'
    BY SetupStep
<1>. QED BY <1>1, <1>2, PTL DEF Spec

\* All variables of the three tools and the directory have their types, and what
\* belongs to a tool that is not used stays as it was.
THEOREM TypeCorrect == Spec => []TypeOK
<1>1. SetupInv => TypeOK
    <2>. SUFFICES ASSUME SetupInv PROVE TypeOK
        OBVIOUS
    <2>1. NodeTypeOK
        BY DEF SetupInv, StartInv, GenInv, ScriptInv
    <2>2. StartupTypeOK /\ GenTypeOK /\ ScriptTypeOK
        BY <2>1, UnusedTypes DEF SetupInv, StartInv, GenInv, ScriptInv
    <2>3. tool \in {"run", "gen", "script"} /\ (tool # "run" => start = "off")
        BY DEF SetupInv, StartupInit
    <2>4. tool # "gen" => stored = given
        BY DEF SetupInv, GenInit, ScriptInv
    <2>5. tool # "script" => install = "off"
        BY DEF SetupInv, ScriptInit
    <2>. QED BY <2>1, <2>2, <2>3, <2>4, <2>5 DEF TypeOK
<1>. QED BY <1>1, SetupInvariant, PTL

\* The run command never fails because of the state it finds the directory in.
THEOREM StartsUnlessFaulty == Spec => []NoDeadEnd
<1>1. SetupInv => NoDeadEnd
    BY StartInvImplies DEF SetupInv, StartupInit, NoDeadEnd
<1>. QED BY <1>1, SetupInvariant, PTL

\* A node that runs under an identity created undisturbed has that identity's keys.
THEOREM RunsWithItsKeys == Spec => []Keyed
<1>1. SetupInv => Keyed
    BY StartInvImplies DEF SetupInv, StartupInit, Keyed
<1>. QED BY <1>1, SetupInvariant, PTL

\* Every identity but the first is paid for by a torn save of tinc.conf.
THEOREM IdentitiesArePaidFor == Spec => []OneIdentity
<1>1. SetupInv => OneIdentity
    <2>1. StartupInit => OneIdentity
        BY FS_EmptySet DEF StartupInit, OneIdentity
    <2>. QED BY <2>1, StartInvImplies DEF SetupInv
<1>. QED BY <1>1, SetupInvariant, PTL

\* A gen that says it is done is in some boot node's hosts, with the key it has.
THEOREM DoneMeansAdmitted == Spec => []Admitted
<1>1. SetupInv => Admitted
    <2>1. GenInit => Admitted
        BY DEF GenInit, Admitted
    <2>2. ScriptInv => Admitted
        <3>. SUFFICES ASSUME ScriptInv, gen = "done" PROVE cmd.standalone
            BY DEF Admitted
        <3>1. install # "off" /\ cmd.standalone = TRUE
            BY DEF ScriptInv, Installing
        <3>. QED BY <3>1
    <2>. QED BY <2>1, <2>2, GenInvImplies DEF SetupInv
<1>. QED BY <1>1, SetupInvariant, PTL

\* Undisturbed, gen gives up only if every boot node already had the name.
THEOREM GivesUpOnlyIfRefused == Spec => []GivesUp
<1>1. SetupInv => GivesUp
    BY GenInvImplies DEF SetupInv, GenInit, ScriptInv, Installing, GivesUp
<1>. QED BY <1>1, SetupInvariant, PTL

\* A script that is handed out carries a key that a public node has, unless another
\* request for the same name has pushed one.
THEOREM ScriptsAreExpected == Spec => []Introduced
<1>1. SetupInv => Introduced
    BY ScriptInvImplies DEF SetupInv, ScriptInit, Introduced
<1>. QED BY <1>1, SetupInvariant, PTL

\* A script that runs to its end leaves a directory that belongs together.
THEOREM ScriptsInstallAll == Spec => []Installed
<1>1. SetupInv => Installed
    BY ScriptInvImplies DEF SetupInv, ScriptInit, Installed
<1>. QED BY <1>1, SetupInvariant, PTL

=============================================================================
