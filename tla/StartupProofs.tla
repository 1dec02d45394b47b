---------------------------- MODULE StartupProofs ----------------------------
(***************************************************************************)
(* The start of the run command, by itself: what its steps preserve, for   *)
(* any number of identities, peers and faults.  SetupProofs has the        *)
(* theorems about the specification, of which Startup is a part.           *)
(***************************************************************************)
EXTENDS Startup, NodeDirProofs, FiniteSetTheorems

\* The lines of tinc.conf name the identity that was drawn last, if any.
NamedLast == conf # NoFile =>
    \A i \in 1..Len(conf) : conf[i].key = "Name" => conf[i].value \in {Zero, drawn}

\* An identity that is being created has not been in use, and what has been written
\* of it is as it should be, unless something has failed: then it is known as cut.
Fresh ==
    /\ start = "conf" => faulty = FALSE /\ drawn < MaxIdentity
    /\ start \in {"host", "keys"} =>
          /\ drawn # 0 /\ drawn \notin used
          /\ faulty = TRUE => drawn \in cut
          /\ faulty = FALSE => conf = MarshalMain(OwnMain(drawn, <<>>))
    /\ start = "keys" =>
          /\ hosts[drawn] # NoFile
          /\ faulty = FALSE => hosts[drawn] = MarshalNode(OwnNode(drawn))

\* Without a fault, what Configured has found out still holds when it is relied upon.
Checked ==
    /\ start \in {"self", "index", "spawn"} /\ faulty = FALSE => Whole(Main)
    /\ start = "index" => Main # NoFile
    /\ start = "up" => self = drawn

\* The keys of the last identity, unless its creation was disturbed or goes on.
Paired == start \notin {"host", "keys"} /\ drawn # 0 /\ drawn \notin cut =>
              priv = drawn /\ KeyOf(hosts[drawn]) = drawn

\* The names in use so far are paid for by torn saves, but for one while the
\* directory is whole and belongs to a name that has been in use.
Counted ==
    /\ start = "conf" => Cardinality(used) <= tears
    /\ \/ Cardinality(used) <= tears
       \/ Cardinality(used) = tears + 1 /\ drawn \in used /\ Whole(Main)

Failing == start = "failed" => faulty = TRUE

StartInv == NodeTypeOK /\ StartupTypeOK /\ NamedLast /\ Fresh /\ Checked /\ Paired /\ Counted /\ Failing

-----------------------------------------------------------------------------
(* Facts about the directory.                                              *)

\* Facts about numbers and names that every proof uses.
LEMMA Identities ==
    ASSUME NodeTypeOK
    PROVE  /\ MaxIdentity \in Nat /\ drawn \in Nat /\ faults \in Nat
           /\ drawn # 0 => drawn \in Identity
           /\ drawn < MaxIdentity => drawn + 1 \in Identity /\ drawn + 1 \in 0..MaxIdentity
           /\ \A p \in Peer : p # drawn /\ p # Zero /\ p \notin Nat
           /\ \A k \in Identity : k \in Name /\ k # Zero /\ k \in Nat
           /\ Peer \subseteq Name /\ Name \subseteq Value
BY NodeDirAssumption DEF NodeTypeOK, Identity, Name, Value, Zero

\* tinc.conf is read as a Main, or not at all, ...
LEMMA MainType ==
    ASSUME NodeTypeOK
    PROVE  Main \in MainStruct \cup {NoFile}
BY ReadMainType DEF NodeTypeOK, Main

\* ... whose name is the last identity, if it has one.
LEMMA MainName ==
    ASSUME NodeTypeOK, NamedLast, Main # NoFile
    PROVE  Main.Name \in {Zero, drawn}
<1>1. conf # NoFile
    BY DEF Main, ReadFile
<1>2. conf \in File /\ ReadFile(conf, NoMain) # NoFile
    BY <1>1 DEF NodeTypeOK, Main
<1>. QED BY <1>1, <1>2, ReadMainName DEF NamedLast, Main

\* What Configured accepts has the name of the last identity.
LEMMA WholeName ==
    ASSUME NodeTypeOK, NamedLast, Whole(Main)
    PROVE  Main # NoFile /\ Main.Name = drawn /\ drawn # 0 /\ drawn \in Identity
<1>1. Main # NoFile /\ Node(Main.Name).Subnet # Zero
    BY DEF Whole
<1>2. Main.Name # Zero
    BY <1>1 DEF Node, NoNode
<1>3. Main.Name = drawn
    BY <1>1, <1>2, MainName
<1>. QED BY <1>1, <1>2, <1>3, Identities DEF Zero

\* A tinc.conf that has been saved is read back.
LEMMA MainSaved ==
    ASSUME NEW m \in MainStruct, conf' = MarshalMain(m)
    PROVE  /\ conf' \in File /\ conf' # NoFile
           /\ \A i \in 1..Len(conf') : conf'[i].key = "Name" => conf'[i].value = m.Name
           /\ Main' \in MainStruct /\ Main' # NoFile
           /\ Main'.Name = m.Name /\ Main'.Interface = m.Interface
BY MarshalMainReadBack, ValuesAreNoFile DEF Main

\* A torn tinc.conf names nobody, or whom the whole one names.
LEMMA MainTorn ==
    ASSUME NEW m \in MainStruct, conf' \in Torn(MarshalMain(m))
    PROVE  /\ conf' \in File /\ conf' # NoFile
           /\ \A i \in 1..Len(conf') : conf'[i].key = "Name" => conf'[i].value \in {Zero, m.Name}
<1>. DEFINE lines == MarshalMain(m)
<1>1. lines \in File /\ \A n \in 1..Len(lines) : lines[n].key = "Name" => lines[n].value = m.Name
    BY MarshalMainReadBack
<1>. HIDE DEF lines
<1>2. /\ conf' \in File
      /\ \A i \in 1..Len(conf') :
            \/ conf'[i] = NoSeparator
            \/ \E n \in 1..Len(lines) : conf'[i] = lines[n] \/ conf'[i] = Line(lines[n].key, Zero)
    BY <1>1, TornLines DEF lines
<1>3. NoSeparator.key # "Name" /\ \A key : Line(key, Zero).value = Zero
    BY DEF NoSeparator, Line
<1>. QED BY <1>1, <1>2, <1>3, ValuesAreNoFile

\* What createConfig writes is a Main.
LEMMA OwnMainType ==
    ASSUME NEW k \in Identity
    PROVE  /\ OwnMain(k, <<>>) \in MainStruct
           /\ OwnMain(k, <<>>).Name = k /\ OwnMain(k, <<>>).Interface = k
<1>1. k \in Value /\ k \in PortValue /\ 1 \in Value /\ Zero \in Value
    BY NodeDirAssumption DEF Value, Name, Identity, PortValue, Zero
<1>2. <<>> \in Seq(Value)
    OBVIOUS
<1>. QED BY <1>1, <1>2 DEF OwnMain, NoMain, MainStruct

\* With another list of hosts, Main is whole if it was.
LEMMA WholeKept ==
    ASSUME Main # NoFile, Main' # NoFile, Main'.Name = Main.Name,
           Main'.Interface = Main.Interface, UNCHANGED hosts
    PROVE  Whole(Main) => Whole(Main)'
BY DEF Whole, Node

\* SetToSeq lists the members of a finite set, all of them and nothing else.
LEMMA SequenceOfSet ==
    ASSUME NEW S, IsFiniteSet(S)
    PROVE  SetToSeq(S) \in Seq(S) /\ Range(SetToSeq(S)) = S
<1>. DEFINE n == Cardinality(S)
            f == SetToSeq(S)
<1>1. n \in Nat /\ ExistsBijection(1..n, S)
    BY FS_CardinalityType
<1>2. \E g \in [1..n -> S] : IsInjective(g)
    BY <1>1 DEF ExistsBijection, Bijection, Injection
<1>3. f \in [1..n -> S] /\ IsInjective(f)
    BY <1>2 DEF SetToSeq
<1>4. f \in Injection(1..n, S)
    BY <1>3 DEF Injection
<1>5. Cardinality(1..n) = n
    BY <1>1, FS_Interval
<1>. HIDE DEF n, f
<1>6. f \in Surjection(1..n, S)
    BY <1>4, <1>5, FS_Injection DEF n
<1>7. Range(f) = S
    BY <1>3, <1>6 DEF Surjection, Range
<1>8. f \in Seq(S)
    BY <1>1, <1>3
<1>. QED BY <1>7, <1>8 DEF f

\* What IndexHosts lists are names.
LEMMA HostList ==
    ASSUME NodeTypeOK
    PROVE  SetToSeq(HostNames) \in Seq(Value)
<1>1. IsFiniteSet(Name)
    <2>1. IsFiniteSet(Identity)
        BY NodeDirAssumption, FS_Interval DEF Identity
    <2>. QED BY <2>1, NodeDirAssumption, FS_Union DEF Name
<1>2. HostNames \in SUBSET Name
    BY DEF HostNames
<1>3. IsFiniteSet(HostNames)
    BY <1>1, <1>2, FS_Subset
<1>4. SetToSeq(HostNames) \in Seq(HostNames)
    BY <1>3, SequenceOfSet
<1>5. HostNames \subseteq Value
    BY <1>2 DEF Value
<1>. QED BY <1>4, <1>5

-----------------------------------------------------------------------------
(* One lemma for each step.                                                *)

\* Before the first start nothing is there.
LEMMA InitInv ==
    ASSUME NodeInit, StartupInit
    PROVE  StartInv
<1>. USE DEF NodeInit, StartupInit
<1>1. NodeTypeOK
    <2>1. 0 \in 0..0 /\ 0 \in 0..MaxIdentity /\ 0 \in 0..MaxFaults
        BY NodeDirAssumption
    <2>2. hosts \in [Name -> File \cup {NoFile}]
        OBVIOUS
    <2>. QED BY <2>1, <2>2 DEF NodeTypeOK, Zero
<1>2. StartupTypeOK
    <2>1. faulty \in BOOLEAN /\ (self # Zero) = (start = "up")
        BY DEF Zero
    <2>. QED BY <2>1 DEF StartupTypeOK
<1>3. NamedLast /\ Fresh /\ Checked /\ Paired /\ Failing
    BY DEF NamedLast, Fresh, Checked, Paired, Failing
<1>4. Counted
    BY FS_EmptySet DEF Counted
<1>. QED BY <1>1, <1>2, <1>3, <1>4 DEF StartInv

\* Steps of others do not matter.
LEMMA StutterInv ==
    ASSUME StartInv, UNCHANGED <<nodeVars, startVars>>
    PROVE  StartInv'
<1>. USE DEF nodeVars, dirVars, startVars
<1>1. NodeTypeOK' /\ StartupTypeOK'
    BY DEF StartInv, NodeTypeOK, StartupTypeOK
<1>2. NamedLast' /\ Fresh' /\ Checked' /\ Paired' /\ Failing'
    BY DEF StartInv, NamedLast, Fresh, Checked, Paired, Failing, Whole, Main, Node, KeyOf
<1>3. Counted'
    BY DEF StartInv, Counted, Whole, Main, Node
<1>. QED BY <1>1, <1>2, <1>3 DEF StartInv

\* Launch: what Configured has found out is what Checked says.
LEMMA LaunchInv ==
    ASSUME StartInv, Launch
    PROVE  StartInv'
<1>. USE DEF nodeVars, dirVars
<1>0. /\ start \in {"off", "failed"} /\ start' \in {"self", "conf"} /\ faulty' = FALSE
      /\ start' = "self" => Whole(Main)
      /\ start' = "conf" => ~ Whole(Main) /\ drawn < MaxIdentity
      /\ UNCHANGED <<conf, hosts, priv, drawn, faults, self, adding, cut, used, tears>>
    BY DEF Launch, Configured
<1>1. NodeTypeOK'
    BY <1>0 DEF StartInv, NodeTypeOK
<1>2. StartupTypeOK'
    BY <1>0 DEF StartInv, StartupTypeOK
<1>3. NamedLast' /\ Fresh' /\ Paired' /\ Failing'
    BY <1>0 DEF StartInv, NamedLast, Fresh, Paired, Failing
<1>4. Whole(Main)' <=> Whole(Main)
    BY <1>0 DEF Whole, Main, Node
<1>5. Checked'
    BY <1>0, <1>4 DEF Checked
<1>6. Counted'
    BY <1>0, <1>4 DEF StartInv, Counted
<1>. QED BY <1>1, <1>2, <1>3, <1>5, <1>6 DEF StartInv

\* A new identity: all that is known of the directory is what has just been written.
LEMMA CreateMainInv ==
    ASSUME StartInv, CreateMain
    PROVE  StartInv'
<1>. USE DEF nodeVars, dirVars
<1>. DEFINE k == drawn + 1
            m == OwnMain(k, <<>>)
<1>0. NodeTypeOK /\ StartupTypeOK /\ start = "conf" /\ drawn' = k
      /\ NamedLast /\ Fresh /\ Checked /\ Paired /\ Counted /\ Failing
    BY DEF StartInv, CreateMain
<1>a. UNCHANGED <<hosts, priv, self, adding, used, tears>>
    BY DEF CreateMain
<1>b. faulty = FALSE /\ faulty \in BOOLEAN
    BY <1>0 DEF Fresh, StartupTypeOK
<1>c. \/ conf' = MarshalMain(m) /\ start' = "host" /\ UNCHANGED <<faults, faulty>>
      \/ /\ conf' \in Torn(MarshalMain(m)) /\ start' \in {"host", "failed", "off"}
         /\ faults < MaxFaults /\ faults' = faults + 1 /\ faulty' = TRUE
    BY <1>0 DEF CreateMain, Saved, Fault
<1>d. cut' = IF faulty' THEN cut \cup {k} ELSE cut
    BY <1>0, Zenon DEF CreateMain, Creating
<1>e. k \in Identity /\ k \in 0..MaxIdentity /\ k \in Nat /\ drawn \in Nat /\ k # drawn /\ drawn \in 0..k
    BY <1>0, Identities DEF Fresh
<1>f. m \in MainStruct /\ m.Name = k
    BY <1>e, OwnMainType
<1>. HIDE DEF k, m
<1>g. conf' \in File /\ \A i \in 1..Len(conf') : conf'[i].key = "Name" => conf'[i].value \in {Zero, k}
    <2>1. CASE conf' = MarshalMain(m)
        BY <1>f, <2>1, MainSaved
    <2>2. CASE conf' \in Torn(MarshalMain(m))
        BY <1>f, <2>2, MainTorn
    <2>. QED BY <1>c, <2>1, <2>2
<1>h. /\ faults' \in 0..MaxFaults /\ faults \in 0..faults'
      /\ faulty' = TRUE \/ (faulty' = FALSE /\ conf' = MarshalMain(m) /\ start' = "host")
    BY <1>0, <1>b, <1>c, NodeDirAssumption DEF NodeTypeOK
<1>i. /\ cut' \subseteq 1..k
      /\ faulty' = TRUE => k \in cut'
    <2>1. cut \subseteq 1..k
        BY <1>0, <1>e DEF StartupTypeOK, k
    <2>2. k \in 1..k
        BY <1>e DEF k
    <2>3. cut' = cut \/ cut' = cut \cup {k}
        BY <1>d
    <2>4. faulty' = TRUE => cut' = cut \cup {k}
        BY <1>d
    <2>. QED BY <2>1, <2>2, <2>3, <2>4
<1>j. used \subseteq 1..drawn /\ k \notin used
    BY <1>0, <1>e DEF StartupTypeOK, k
<1>1. NodeTypeOK'
    BY <1>0, <1>a, <1>e, <1>g, <1>h DEF NodeTypeOK, k
<1>2. StartupTypeOK'
    <2>1. faulty' \in BOOLEAN
        BY <1>h
    <2>2. start' # "up" /\ start # "up" /\ start' \in {"host", "failed", "off"}
        BY <1>0, <1>c
    <2>3. used' \subseteq 1..drawn'
        BY <1>0, <1>a, <1>e, <1>j
    <2>4. tears' \in 0..faults'
        BY <1>0, <1>a, <1>h DEF StartupTypeOK, NodeTypeOK
    <2>5. /\ self' \in Identity \cup {Zero} /\ adding' \in Peer \cup {NoFile}
          /\ (self' # Zero) = (start' = "up") /\ adding' = NoFile
        BY <1>0, <1>a, <2>2 DEF StartupTypeOK
    <2>. QED BY <1>0, <1>i, <2>1, <2>2, <2>3, <2>4, <2>5 DEF StartupTypeOK
<1>3. NamedLast'
    BY <1>0, <1>g DEF NamedLast
<1>4. Fresh'
    BY <1>0, <1>a, <1>c, <1>e, <1>h, <1>i, <1>j DEF Fresh, Zero, m, k
<1>5. Checked' /\ Failing'
    BY <1>c, <1>h DEF Checked, Failing
<1>6. Paired'
    BY <1>0, <1>c, <1>h, <1>i DEF Paired
<1>7. Counted'
    BY <1>0, <1>a, <1>c DEF Counted
<1>. QED BY <1>1, <1>2, <1>3, <1>4, <1>5, <1>6, <1>7 DEF StartInv

\* The steps of createConfig that follow, and Stop, may take the identity for spoilt.
LEMMA CutType ==
    ASSUME StartInv, drawn # 0, UNCHANGED drawn, cut' = cut \/ cut' = cut \cup {drawn}
    PROVE  cut' \subseteq 1..drawn
<1>1. drawn \in 1..drawn /\ cut \subseteq 1..drawn
    BY Identities DEF StartInv, StartupTypeOK
<1>. QED BY <1>1

\* The host file of the new identity; a torn one counts against it.
LEMMA CreateHostInv ==
    ASSUME StartInv, CreateHost
    PROVE  StartInv'
<1>. USE DEF nodeVars, dirVars
<1>. DEFINE whole == MarshalNode(OwnNode(drawn))
<1>0. /\ NodeTypeOK /\ StartupTypeOK /\ start = "host"
      /\ NamedLast /\ Fresh /\ Checked /\ Paired /\ Counted /\ Failing
    BY DEF StartInv, CreateHost
<1>a. UNCHANGED <<conf, priv, drawn, self, adding, used, tears>>
    BY DEF CreateHost
<1>b. /\ drawn # 0 /\ drawn \notin used /\ drawn \in Identity /\ drawn \in Name
      /\ faulty = TRUE => drawn \in cut
      /\ faulty = FALSE => conf = MarshalMain(OwnMain(drawn, <<>>))
    BY <1>0, Identities DEF Fresh
<1>c. PICK file \in {whole} \cup Torn(whole) :
         /\ hosts' = [hosts EXCEPT ![drawn] = file]
         /\ Saved(file, whole, "keys", "failed")
    BY DEF CreateHost
<1>d. \/ file = whole /\ start' = "keys" /\ UNCHANGED <<faults, faulty>>
      \/ /\ file \in Torn(whole) /\ start' \in {"keys", "failed", "off"}
         /\ faults < MaxFaults /\ faults' = faults + 1 /\ faulty' = TRUE
    BY <1>c DEF Saved, Fault
<1>e. cut' = IF faulty' THEN cut \cup {drawn} ELSE cut
    BY Zenon DEF CreateHost, Creating
<1>. HIDE DEF whole
<1>f. file \in File /\ file # NoFile
    BY <1>b, <1>c, OwnNodeReadBack, TornLines, ValuesAreNoFile DEF whole
<1>g. /\ faults' \in 0..MaxFaults /\ faults \in 0..faults' /\ tears \in 0..faults'
      /\ faulty' = TRUE \/ (UNCHANGED faulty /\ file = whole /\ start' = "keys")
    BY <1>0, <1>d, NodeDirAssumption DEF NodeTypeOK, StartupTypeOK
<1>h. faulty \in BOOLEAN /\ faulty' \in BOOLEAN
    BY <1>0, <1>g DEF StartupTypeOK
<1>i. /\ cut' = cut \/ cut' = cut \cup {drawn}
      /\ faulty' = TRUE => drawn \in cut'
    BY <1>b, <1>e
<1>j. hosts'[drawn] = file /\ hosts' \in [Name -> File \cup {NoFile}]
    BY <1>0, <1>b, <1>c, <1>f DEF NodeTypeOK
<1>1. NodeTypeOK'
    BY <1>0, <1>a, <1>g, <1>j DEF NodeTypeOK
<1>2. StartupTypeOK'
    <2>1. cut' \subseteq 1..drawn'
        BY <1>a, <1>b, <1>i, CutType
    <2>2. start' \in {"keys", "failed", "off"}
        BY <1>d
    <2>3. /\ self' \in Identity \cup {Zero} /\ adding' \in Peer \cup {NoFile}
          /\ (self' # Zero) = (start' = "up") /\ adding' = NoFile
        BY <1>0, <1>a, <2>2 DEF StartupTypeOK
    <2>. QED BY <1>0, <1>a, <1>g, <1>h, <2>1, <2>2, <2>3 DEF StartupTypeOK
<1>3. NamedLast'
    BY <1>0, <1>a DEF NamedLast
<1>4. Fresh'
    BY <1>0, <1>a, <1>b, <1>d, <1>f, <1>g, <1>h, <1>i, <1>j DEF Fresh, whole
<1>5. Checked' /\ Failing'
    BY <1>d DEF Checked, Failing
<1>6. Paired'
    BY <1>a, <1>d, <1>i DEF Paired
<1>7. Counted'
    BY <1>0, <1>a, <1>b, <1>d DEF Counted
<1>. QED BY <1>1, <1>2, <1>3, <1>4, <1>5, <1>6, <1>7 DEF StartInv

\* The keys: undisturbed, tinc.conf and the host file are as they were written.
LEMMA KeygenInv ==
    ASSUME StartInv, Keygen
    PROVE  StartInv'
<1>. USE DEF nodeVars, dirVars
<1>. DEFINE file == Append(hosts[drawn], KeyLine(drawn))
<1>0. /\ NodeTypeOK /\ StartupTypeOK /\ start = "keys" /\ Main # NoFile
      /\ NamedLast /\ Fresh /\ Checked /\ Paired /\ Counted /\ Failing
    BY DEF StartInv, Keygen
<1>a. /\ UNCHANGED <<conf, drawn, faults, self, adding, faulty, cut, used, tears>>
      /\ priv' = drawn /\ start' = "self"
    BY DEF Keygen
<1>b. /\ drawn # 0 /\ drawn \notin used /\ drawn \in Identity /\ drawn \in Name /\ hosts[drawn] # NoFile
      /\ faulty = TRUE => drawn \in cut
      /\ faulty = FALSE => /\ conf = MarshalMain(OwnMain(drawn, <<>>))
                           /\ hosts[drawn] = MarshalNode(OwnNode(drawn))
    BY <1>0, Identities DEF Fresh
<1>c. Main.Name \in {Zero, drawn}
    BY <1>0, MainName
<1>d. /\ Main.Name = Zero => hosts' = hosts
      /\ Main.Name = drawn => hosts' = [hosts EXCEPT ![drawn] = file]
    BY <1>b DEF Keygen, Zero
<1>e. file \in File
    <2>1. hosts[drawn] \in Seq(TextLine)
        BY <1>0, <1>b DEF NodeTypeOK, File
    <2>2. KeyLine(drawn) \in TextLine
        BY <1>b, ValuesAreNoFile, LineType DEF KeyLine, Key
    <2>. QED BY <2>1, <2>2 DEF File
<1>. HIDE DEF file
<1>f. hosts' \in [Name -> File \cup {NoFile}] /\ (Main.Name = drawn => hosts'[drawn] = file)
    BY <1>0, <1>b, <1>c, <1>d, <1>e DEF NodeTypeOK
<1>g. ASSUME faulty = FALSE
      PROVE  /\ Main.Name = drawn /\ Main.Interface # Zero
             /\ hosts'[drawn] = Append(MarshalNode(OwnNode(drawn)), KeyLine(drawn))
             /\ Whole(Main)' /\ KeyOf(hosts'[drawn]) = drawn
    <2>1. Main.Name = drawn /\ Main.Interface = drawn
        BY <1>b, <1>g, OwnMainType, MarshalMainReadBack DEF Main
    <2>2. hosts'[drawn] = Append(MarshalNode(OwnNode(drawn)), KeyLine(drawn))
        BY <1>b, <1>f, <1>g, <2>1 DEF file
    <2>3. Main' = Main
        BY <1>a DEF Main
    <2>4. Node(Main.Name)' = ReadFile(hosts'[drawn], NoNode)
        BY <1>a, <1>b, <2>1, <2>3 DEF Node, Zero
    <2>5. Whole(Main)'
        BY <1>0, <1>b, <2>1, <2>2, <2>3, <2>4, OwnNodeReadBack DEF Whole, Zero
    <2>6. KeyOf(hosts'[drawn]) = drawn
        BY <1>b, <2>2, OwnNodeReadBack
    <2>. QED BY <1>b, <2>1, <2>2, <2>5, <2>6 DEF Zero
<1>1. NodeTypeOK'
    BY <1>0, <1>a, <1>f, Identities DEF NodeTypeOK
<1>2. StartupTypeOK'
    BY <1>0, <1>a DEF StartupTypeOK
<1>3. NamedLast'
    BY <1>0, <1>a DEF NamedLast
<1>4. Fresh' /\ Failing'
    BY <1>a DEF Fresh, Failing
<1>5. Checked'
    BY <1>a, <1>g DEF Checked
<1>6. Paired'
    <2>1. faulty \in BOOLEAN
        BY <1>0 DEF StartupTypeOK
    <2>. QED BY <1>a, <1>b, <1>g, <2>1 DEF Paired
<1>7. Counted'
    BY <1>0, <1>a, <1>b DEF Counted
<1>. QED BY <1>1, <1>2, <1>3, <1>4, <1>5, <1>6, <1>7 DEF StartInv

\* tincd -K failing is a fault, since an undisturbed tinc.conf can be read.
LEMMA FailKeygenInv ==
    ASSUME StartInv, FailKeygen
    PROVE  StartInv'
<1>. USE DEF nodeVars, dirVars
<1>0. /\ NodeTypeOK /\ StartupTypeOK /\ start = "keys"
      /\ NamedLast /\ Fresh /\ Checked /\ Paired /\ Counted /\ Failing
    BY DEF StartInv, FailKeygen
<1>a. /\ UNCHANGED <<conf, hosts, drawn, self, adding, used, tears>>
      /\ faulty' = TRUE /\ priv' \in {priv, drawn} /\ start' \in {"failed", "off"}
      /\ UNCHANGED faults \/ (faults < MaxFaults /\ faults' = faults + 1)
    BY DEF FailKeygen, Fault
<1>b. drawn # 0 /\ drawn \notin used
    BY <1>0 DEF Fresh
<1>c. cut' = cut \cup {drawn}
    BY <1>a, Zenon DEF FailKeygen, Creating
<1>d. faults' \in 0..MaxFaults /\ tears \in 0..faults'
    BY <1>0, <1>a, NodeDirAssumption DEF NodeTypeOK, StartupTypeOK
<1>1. NodeTypeOK'
    BY <1>0, <1>a, <1>d, Identities DEF NodeTypeOK
<1>2. StartupTypeOK'
    <2>1. cut' \subseteq 1..drawn'
        BY <1>a, <1>b, <1>c, CutType
    <2>2. /\ self' \in Identity \cup {Zero} /\ adding' \in Peer \cup {NoFile}
          /\ (self' # Zero) = (start' = "up") /\ adding' = NoFile
        BY <1>0, <1>a DEF StartupTypeOK
    <2>3. faulty' \in BOOLEAN
        BY <1>a
    <2>. QED BY <1>0, <1>a, <1>d, <2>1, <2>2, <2>3 DEF StartupTypeOK
<1>3. NamedLast'
    BY <1>0, <1>a DEF NamedLast
<1>4. Fresh' /\ Failing' /\ Checked'
    BY <1>a DEF Fresh, Failing, Checked
<1>5. Paired'
    BY <1>a, <1>c DEF Paired
<1>6. Counted'
    BY <1>0, <1>a, <1>b DEF Counted
<1>. QED BY <1>1, <1>2, <1>3, <1>4, <1>5, <1>6 DEF StartInv

\* ReadNodeConfig reads what Configured has read.
LEMMA ReadSelfInv ==
    ASSUME StartInv, ReadSelf
    PROVE  StartInv'
<1>. USE DEF nodeVars, dirVars
<1>0. /\ NodeTypeOK /\ StartupTypeOK /\ start = "self"
      /\ NamedLast /\ Fresh /\ Checked /\ Paired /\ Counted /\ Failing
    BY DEF StartInv, ReadSelf
<1>a. /\ UNCHANGED <<conf, hosts, priv, drawn, faults, self, adding, faulty, cut, used, tears>>
      /\ start' = IF Main = NoFile \/ Node(Main.Name) = NoFile THEN "failed" ELSE "index"
    BY DEF ReadSelf
<1>b. faulty = TRUE \/ faulty = FALSE
    BY <1>0 DEF StartupTypeOK
<1>c. faulty = FALSE => Whole(Main) /\ start' = "index"
    BY <1>0, <1>a DEF Checked, Whole
<1>d. Main' = Main /\ (Whole(Main)' <=> Whole(Main))
    BY <1>a DEF Main, Whole, Node
<1>1. NodeTypeOK' /\ NamedLast' /\ Fresh' /\ Failing' /\ Paired'
    BY <1>0, <1>a, <1>b, <1>c DEF NodeTypeOK, NamedLast, Fresh, Failing, Paired
<1>2. StartupTypeOK'
    BY <1>0, <1>a DEF StartupTypeOK
<1>3. Checked'
    BY <1>a, <1>c, <1>d DEF Checked
<1>4. Counted'
    BY <1>0, <1>a, <1>d DEF Counted
<1>. QED BY <1>1, <1>2, <1>3, <1>4 DEF StartInv

\* There are finitely many names in use, so that they can be counted.
LEMMA UsedFinite ==
    ASSUME NodeTypeOK, StartupTypeOK
    PROVE  IsFiniteSet(used) /\ Cardinality(used) \in Nat /\ tears \in Nat
<1>1. used \in SUBSET (1..drawn) /\ drawn \in Int /\ 1 \in Int /\ tears \in Nat
    BY Identities DEF StartupTypeOK
<1>2. IsFiniteSet(1..drawn)
    BY <1>1, FS_Interval, Zenon
<1>3. IsFiniteSet(used)
    BY <1>1, <1>2, FS_Subset
<1>. QED BY <1>1, <1>3, FS_CardinalityType

\* A save of a tinc.conf that has been read: done, it leaves the directory as whole as
\* it was; torn, it is counted.
LEMMA Rewritten ==
    ASSUME StartInv, Main # NoFile, NEW list \in Seq(Value), NEW next, NEW error,
           Saved(conf', MarshalMain([Main EXCEPT !.ConnectTo = list]), next, error),
           Updating, UNCHANGED <<hosts, priv, drawn, used>>
    PROVE  /\ NodeTypeOK' /\ NamedLast' /\ tears' \in 0..faults' /\ faulty' \in BOOLEAN
           /\ start' \in {next, error, "off"}
           /\ \/ /\ start' = next /\ UNCHANGED <<faults, faulty, tears>> /\ Main' # NoFile
                 /\ Main'.Name = Main.Name /\ (Whole(Main) => Whole(Main)')
              \/ faulty' = TRUE /\ tears' = tears + 1
           /\ start \notin {"conf", "host", "keys"} =>
                 \/ Cardinality(used') <= tears'
                 \/ Cardinality(used') = tears' + 1 /\ drawn' \in used' /\ Whole(Main)'
<1>. DEFINE m == [Main EXCEPT !.ConnectTo = list]
<1>0. NodeTypeOK /\ StartupTypeOK /\ NamedLast /\ Counted
    BY DEF StartInv
<1>a. /\ Main \in MainStruct /\ Main.Name \in {Zero, drawn}
    BY <1>0, MainType, MainName
<1>b. m \in MainStruct /\ m.Name = Main.Name /\ m.Interface = Main.Interface
    BY <1>a DEF MainStruct
<1>. HIDE DEF m
<1>c. \/ conf' = MarshalMain(m) /\ start' = next /\ UNCHANGED <<faults, faulty>>
      \/ /\ conf' \in Torn(MarshalMain(m)) /\ start' \in {next, error, "off"}
         /\ faults < MaxFaults /\ faults' = faults + 1 /\ faulty' = TRUE
    BY DEF Saved, Fault, m
<1>d. /\ faults \in Nat /\ tears \in 0..faults /\ faults \in 0..MaxFaults /\ faulty \in BOOLEAN
      /\ tears \in Nat /\ MaxFaults \in Nat
    BY <1>0, NodeDirAssumption DEF NodeTypeOK, StartupTypeOK
<1>e. tears' = IF faults' > faults THEN tears + 1 ELSE tears
    BY DEF Updating
<1>f. /\ faults' \in 0..MaxFaults /\ tears' \in 0..faults'
    BY <1>c, <1>d, <1>e
<1>g. conf' \in File /\ \A i \in 1..Len(conf') : conf'[i].key = "Name" => conf'[i].value \in {Zero, drawn}
    <2>1. CASE conf' = MarshalMain(m)
        BY <1>a, <1>b, <2>1, MainSaved
    <2>2. CASE conf' \in Torn(MarshalMain(m))
        BY <1>a, <1>b, <2>2, MainTorn
    <2>. QED BY <1>c, <2>1, <2>2
<1>h. IsFiniteSet(used) /\ Cardinality(used) \in Nat
    BY <1>0, UsedFinite
<1>1. NodeTypeOK'
    BY <1>0, <1>f, <1>g DEF NodeTypeOK
<1>2. NamedLast'
    BY <1>g DEF NamedLast
<1>3. faulty' \in BOOLEAN /\ start' \in {next, error, "off"}
    BY <1>c, <1>d
<1>4. CASE conf' = MarshalMain(m) /\ start' = next /\ UNCHANGED <<faults, faulty>>
    <2>1. tears' = tears
        BY <1>d, <1>e, <1>4
    <2>2. Main' # NoFile /\ Main'.Name = Main.Name /\ Main'.Interface = Main.Interface
        BY <1>b, <1>4, MainSaved
    <2>3. Whole(Main) => Whole(Main)'
        BY <2>2, WholeKept
    <2>4. \/ Cardinality(used') <= tears'
          \/ Cardinality(used') = tears' + 1 /\ drawn' \in used' /\ Whole(Main)'
        BY <1>0, <2>1, <2>3 DEF Counted
    <2>. QED BY <1>1, <1>2, <1>3, <1>4, <1>f, <2>1, <2>2, <2>3, <2>4
<1>5. CASE faults' = faults + 1 /\ faulty' = TRUE
    <2>1. tears' = tears + 1
        BY <1>d, <1>e, <1>5
    <2>2. Cardinality(used') <= tears'
        BY <1>0, <1>d, <1>h, <2>1 DEF Counted
    <2>. QED BY <1>1, <1>2, <1>3, <1>5, <1>f, <2>1, <2>2
<1>. QED BY <1>c, <1>4, <1>5

\* IndexHosts rewrites tinc.conf.
LEMMA IndexHostsInv ==
    ASSUME StartInv, IndexHosts
    PROVE  StartInv'
<1>. USE DEF nodeVars, dirVars
<1>0. /\ NodeTypeOK /\ StartupTypeOK /\ start = "index" /\ Main # NoFile
      /\ NamedLast /\ Fresh /\ Checked /\ Paired /\ Counted /\ Failing
    BY DEF StartInv, IndexHosts, Checked
<1>a. UNCHANGED <<hosts, priv, drawn, self, adding, cut, used>>
    BY DEF IndexHosts
<1>b. SetToSeq(HostNames) \in Seq(Value)
    BY <1>0, HostList
<1>c. /\ NodeTypeOK' /\ NamedLast' /\ tears' \in 0..faults' /\ faulty' \in BOOLEAN
      /\ start' \in {"spawn", "failed", "off"}
      /\ \/ /\ start' = "spawn" /\ UNCHANGED <<faults, faulty, tears>> /\ Main' # NoFile
            /\ Main'.Name = Main.Name /\ (Whole(Main) => Whole(Main)')
         \/ faulty' = TRUE /\ tears' = tears + 1
      /\ start \notin {"conf", "host", "keys"} =>
            \/ Cardinality(used') <= tears'
            \/ Cardinality(used') = tears' + 1 /\ drawn' \in used' /\ Whole(Main)'
    BY <1>0, <1>a, <1>b, Rewritten DEF IndexHosts
<1>1. StartupTypeOK'
    <2>1. /\ self' \in Identity \cup {Zero} /\ adding' \in Peer \cup {NoFile}
          /\ (self' # Zero) = (start' = "up") /\ adding' = NoFile
        BY <1>0, <1>a, <1>c DEF StartupTypeOK
    <2>. QED BY <1>0, <1>a, <1>c, <2>1 DEF StartupTypeOK
<1>2. Fresh' /\ Failing'
    BY <1>c DEF Fresh, Failing
<1>3. Checked'
    BY <1>0, <1>c DEF Checked
<1>4. Paired'
    BY <1>0, <1>a, <1>c DEF Paired
<1>5. Counted'
    BY <1>0, <1>c DEF Counted
<1>. QED BY <1>c, <1>1, <1>2, <1>3, <1>4, <1>5 DEF StartInv

\* AddHost, the second half: tinc.conf is rewritten, or left as it is.
LEMMA ListHostInv ==
    ASSUME StartInv, ListHost
    PROVE  StartInv'
<1>. USE DEF nodeVars, dirVars
<1>0. /\ NodeTypeOK /\ StartupTypeOK /\ start = "up" /\ adding # NoFile
      /\ NamedLast /\ Fresh /\ Checked /\ Paired /\ Counted /\ Failing
    BY DEF StartInv, ListHost
<1>a. /\ UNCHANGED <<hosts, priv, drawn, cut, used>> /\ adding' = NoFile
      /\ self' = IF start' = "up" THEN self ELSE Zero
    BY DEF ListHost
<1>b. /\ NodeTypeOK' /\ NamedLast' /\ tears' \in 0..faults' /\ faulty' \in BOOLEAN
      /\ start' \in {"up", "off"}
      /\ \/ Cardinality(used') <= tears'
         \/ Cardinality(used') = tears' + 1 /\ drawn' \in used' /\ Whole(Main)'
    <2>1. CASE Main = NoFile \/ adding \in Range(Main.ConnectTo)
        <3>1. UNCHANGED <<conf, start, faults, faulty>>
            BY <2>1 DEF ListHost
        <3>2. faults \in Nat
            BY <1>0, Identities
        <3>3. tears' = tears
            BY <3>1, <3>2 DEF ListHost, Updating
        <3>4. Main' = Main /\ (Whole(Main)' <=> Whole(Main))
            BY <1>a, <3>1 DEF Main, Whole, Node
        <3>5. faulty' \in BOOLEAN
            BY <1>0, <3>1 DEF StartupTypeOK
        <3>6. NodeTypeOK' /\ NamedLast' /\ tears' \in 0..faults'
            BY <1>0, <1>a, <3>1, <3>3 DEF NodeTypeOK, NamedLast, StartupTypeOK
        <3>. QED BY <1>0, <1>a, <3>1, <3>3, <3>4, <3>5, <3>6 DEF Counted
    <2>2. CASE ~ (Main = NoFile \/ adding \in Range(Main.ConnectTo))
        <3>1. Main \in MainStruct
            BY <1>0, <2>2, MainType
        <3>. DEFINE list == Append(Main.ConnectTo, adding)
        <3>2. list \in Seq(Value)
            <4>1. Main.ConnectTo \in Seq(Value)
                BY <3>1 DEF MainStruct
            <4>2. adding \in Value
                BY <1>0 DEF StartupTypeOK, Value, Name
            <4>. QED BY <4>1, <4>2
        <3>3. Saved(conf', MarshalMain([Main EXCEPT !.ConnectTo = list]), "up", "up")
            BY <2>2 DEF ListHost
        <3>4. Updating /\ Main # NoFile
            BY <2>2 DEF ListHost
        <3>. HIDE DEF list
        <3>. QED BY <1>0, <1>a, <3>2, <3>3, <3>4, Rewritten
    <2>. QED BY <2>1, <2>2
<1>1. StartupTypeOK'
    <2>1. /\ self' \in Identity \cup {Zero} /\ (self' # Zero) = (start' = "up")
        BY <1>0, <1>a, <1>b DEF StartupTypeOK
    <2>. QED BY <1>0, <1>a, <1>b, <2>1 DEF StartupTypeOK
<1>2. Fresh' /\ Failing'
    BY <1>b DEF Fresh, Failing
<1>3. Checked'
    BY <1>0, <1>a, <1>b DEF Checked
<1>4. Paired'
    BY <1>0, <1>a, <1>b DEF Paired
<1>5. Counted'
    BY <1>b DEF Counted
<1>. QED BY <1>b, <1>1, <1>2, <1>3, <1>4, <1>5 DEF StartInv

\* Spawn: a name that comes into use while the last one was gone is paid for.
LEMMA SpawnInv ==
    ASSUME StartInv, Spawn
    PROVE  StartInv'
<1>. USE DEF nodeVars, dirVars
<1>0. /\ NodeTypeOK /\ StartupTypeOK /\ start = "spawn"
      /\ NamedLast /\ Fresh /\ Checked /\ Paired /\ Counted /\ Failing
    BY DEF StartInv, Spawn
<1>a. UNCHANGED <<conf, hosts, priv, drawn, faults, adding, faulty, cut, tears>>
    BY DEF Spawn
<1>b. Main' = Main /\ (Whole(Main)' <=> Whole(Main))
    BY <1>a DEF Main, Whole, Node
<1>1. NodeTypeOK' /\ NamedLast'
    BY <1>0, <1>a DEF NodeTypeOK, NamedLast
<1>2. CASE ~ Whole(Main)
    <2>1. start' = "failed" /\ UNCHANGED <<self, used>>
        BY <1>2 DEF Spawn
    <2>2. StartupTypeOK'
        BY <1>0, <1>a, <2>1 DEF StartupTypeOK
    <2>3. faulty = TRUE
        BY <1>0, <1>2 DEF Checked, StartupTypeOK
    <2>4. Fresh' /\ Checked' /\ Failing' /\ Paired'
        BY <1>0, <1>a, <2>1, <2>3 DEF Fresh, Checked, Failing, Paired
    <2>5. Counted'
        BY <1>0, <1>a, <1>b, <2>1 DEF Counted
    <2>. QED BY <1>1, <2>2, <2>4, <2>5 DEF StartInv
<1>3. CASE Whole(Main)
    <2>1. Main.Name = drawn /\ drawn # 0 /\ drawn \in Identity /\ drawn \in 1..drawn
        BY <1>0, <1>3, WholeName, Identities
    <2>2. start' = "up" /\ self' = drawn /\ used' = used \cup {drawn}
        BY <1>3, <2>1 DEF Spawn
    <2>3. StartupTypeOK'
        <3>1. /\ self' \in Identity \cup {Zero} /\ (self' # Zero) = (start' = "up")
            BY <2>1, <2>2 DEF Zero
        <3>2. used' \subseteq 1..drawn'
            BY <1>0, <1>a, <2>1, <2>2 DEF StartupTypeOK
        <3>. QED BY <1>0, <1>a, <2>2, <3>1, <3>2 DEF StartupTypeOK
    <2>4. Fresh' /\ Checked' /\ Failing' /\ Paired'
        BY <1>0, <1>a, <2>2 DEF Fresh, Checked, Failing, Paired
    <2>5. Counted'
        <3>1. IsFiniteSet(used) /\ Cardinality(used) \in Nat /\ tears \in Nat
            BY <1>0, UsedFinite
        <3>2. Cardinality(used') = IF drawn \in used THEN Cardinality(used) ELSE Cardinality(used) + 1
            BY <2>2, <3>1, FS_AddElement
        <3>. QED BY <1>0, <1>a, <1>b, <1>3, <2>2, <3>1, <3>2 DEF Counted
    <2>. QED BY <1>1, <2>3, <2>4, <2>5 DEF StartInv
<1>. QED BY <1>2, <1>3

\* AddHost, the first half: the host file is that of a peer, not the own one.
LEMMA AddHostInv ==
    ASSUME StartInv, NEW p \in Peer, AddHost(p)
    PROVE  StartInv'
<1>. USE DEF nodeVars, dirVars
<1>0. /\ NodeTypeOK /\ StartupTypeOK /\ start = "up"
      /\ NamedLast /\ Fresh /\ Checked /\ Paired /\ Counted /\ Failing
    BY DEF StartInv, AddHost
<1>b. /\ PeerFile(p) \in File /\ Torn(PeerFile(p)) \subseteq File /\ NoFile \notin File
      /\ p \in Name /\ p # drawn /\ p # Zero
    BY <1>0, PeerFileType, TornLines, Identities, ValuesAreNoFile
<1>a. /\ UNCHANGED <<conf, priv, drawn, start, self, cut, used, tears>>
      /\ faults' \in 0..MaxFaults /\ tears' \in 0..faults' /\ faulty' \in BOOLEAN
      /\ adding' \in {NoFile, p}
      /\ \E file \in File : hosts' = [hosts EXCEPT ![p] = file]
    <2>1. UNCHANGED <<conf, priv, drawn, start, self, cut, used, tears>>
        BY DEF AddHost
    <2>2. faults' \in 0..MaxFaults /\ tears' \in 0..faults'
        <3>1. faults' = faults \/ Fault
            BY DEF AddHost
        <3>2. faults \in 0..MaxFaults /\ tears \in 0..faults /\ MaxFaults \in Nat
            BY <1>0, NodeDirAssumption DEF NodeTypeOK, StartupTypeOK
        <3>. QED BY <2>1, <3>1, <3>2 DEF Fault
    <2>3. faulty' \in BOOLEAN /\ adding' \in {NoFile, p}
        BY <1>0 DEF AddHost, StartupTypeOK
    <2>4. \E file \in File : hosts' = [hosts EXCEPT ![p] = file]
        BY <1>b DEF AddHost
    <2>. QED BY <2>1, <2>2, <2>3, <2>4
<1>c. /\ hosts' \in [Name -> File \cup {NoFile}] /\ hosts'[p] # NoFile
      /\ \A k : k # p => hosts'[k] = hosts[k]
    BY <1>0, <1>a, <1>b DEF NodeTypeOK
<1>d. Main' = Main /\ (Whole(Main) => Whole(Main)')
    <2>1. Main' = Main
        BY <1>a DEF Main
    <2>2. Main # NoFile => Main.Name # p
        BY <1>0, <1>b, MainName
    <2>. QED BY <1>c, <2>1, <2>2 DEF Whole, Node
<1>1. NodeTypeOK' /\ NamedLast'
    BY <1>0, <1>a, <1>c DEF NodeTypeOK, NamedLast
<1>2. StartupTypeOK'
    <2>1. adding' \in Peer \cup {NoFile} /\ (adding' # NoFile => hosts'[adding'] # NoFile)
        BY <1>a, <1>c
    <2>. QED BY <1>0, <1>a, <2>1 DEF StartupTypeOK
<1>3. Fresh' /\ Checked' /\ Failing'
    BY <1>0, <1>a, <1>d DEF Fresh, Checked, Failing
<1>4. Paired'
    BY <1>0, <1>a, <1>b, <1>c DEF Paired
<1>5. Counted'
    BY <1>0, <1>a, <1>d DEF Counted
<1>. QED BY <1>1, <1>2, <1>3, <1>4, <1>5 DEF StartInv

\* The process ends; if it was creating an identity, that one is cut.
LEMMA StopInv ==
    ASSUME StartInv, Stop
    PROVE  StartInv'
<1>. USE DEF nodeVars, dirVars
<1>0. /\ NodeTypeOK /\ StartupTypeOK
      /\ NamedLast /\ Fresh /\ Checked /\ Paired /\ Counted /\ Failing
    BY DEF StartInv
<1>a. /\ UNCHANGED <<conf, hosts, priv, drawn, faults, faulty, used, tears>>
      /\ start' = "off" /\ self' = Zero /\ adding' = NoFile
      /\ cut' = IF start \in {"host", "keys"} THEN cut \cup {drawn} ELSE cut
    BY DEF Stop
<1>b. Main' = Main /\ (Whole(Main)' <=> Whole(Main))
    BY <1>a DEF Main, Whole, Node
<1>1. NodeTypeOK' /\ NamedLast'
    BY <1>0, <1>a DEF NodeTypeOK, NamedLast
<1>2. StartupTypeOK'
    <2>1. cut' \subseteq 1..drawn'
        <3>1. CASE start \in {"host", "keys"}
            BY <1>0, <1>a, <3>1, CutType DEF Fresh
        <3>2. CASE start \notin {"host", "keys"}
            BY <1>0, <1>a, <3>2 DEF StartupTypeOK
        <3>. QED BY <3>1, <3>2
    <2>2. faulty' \in BOOLEAN
        BY <1>0, <1>a DEF StartupTypeOK
    <2>. QED BY <1>0, <1>a, <2>1, <2>2 DEF StartupTypeOK
<1>3. Fresh' /\ Checked' /\ Failing'
    BY <1>a DEF Fresh, Checked, Failing
<1>4. Paired'
    BY <1>0, <1>a DEF Paired
<1>5. Counted'
    BY <1>0, <1>a, <1>b DEF Counted
<1>. QED BY <1>1, <1>2, <1>3, <1>4, <1>5 DEF StartInv

\* Every step of the run command preserves the invariant.
LEMMA StartupStepInv ==
    ASSUME StartInv, StartupNext
    PROVE  StartInv'
BY LaunchInv, CreateMainInv, CreateHostInv, KeygenInv, FailKeygenInv, ReadSelfInv, IndexHostsInv,
   SpawnInv, AddHostInv, ListHostInv, StopInv, Zenon DEF StartupNext

\* What the invariant is for.
LEMMA StartInvImplies ==
    ASSUME StartInv
    PROVE  NoDeadEnd /\ Keyed /\ OneIdentity
<1>1. NoDeadEnd
    BY DEF StartInv, Failing, NoDeadEnd
<1>2. Keyed
    BY DEF StartInv, StartupTypeOK, Checked, Paired, Keyed, Zero
<1>3. OneIdentity
    <2>1. Cardinality(used) \in Nat /\ tears \in Nat
        BY UsedFinite DEF StartInv
    <2>. QED BY <2>1 DEF StartInv, Counted, OneIdentity
<1>. QED BY <1>1, <1>2, <1>3
=============================================================================
