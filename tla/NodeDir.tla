------------------------------ MODULE NodeDir ------------------------------
(***************************************************************************)
(* The directory of a node: tinc.conf, hosts/ and rsa_key.priv, which three*)
(* tools set up, each in its own module: the start of the run command      *)
(* (Startup), gen with its boot nodes (Gen), and the scripts that the      *)
(* monitor hands out (NodeScript).                                         *)
(*                                                                         *)
(* What a tool draws at random, a name, a port, an address and a key pair, *)
(* is one identity k, and each of these values is k.                       *)
(***************************************************************************)
EXTENDS TincConf, FiniteSets

CONSTANTS
    Peer,          \* the other nodes
    MaxIdentity,   \* bound: how many identities are drawn
    MaxFaults      \* bound: writes that are torn, calls and answers that fail

Identity == 1..MaxIdentity
Name == Identity \cup Peer

\* What the files say: a line, a file, and the structs that are read from them.
Value == Name \cup {Zero}
PortValue == 0..MaxIdentity
Key == {"Name", "LocalDiscovery", "Interface", "ConnectTo", "Subnet", "PublicKey", NoSeparator.key,
        UnknownKey}
TextLine == [key : Key, value : Value] \cup [key : {"Port"}, value : PortValue]
File == Seq(TextLine)
MainStruct == [Name : Value, Port : PortValue, LocalDiscovery : Value, Interface : Value,
               ConnectTo : Seq(Value)]
NodeStruct == [Subnet : Value, Address : Seq(Value), Port : PortValue, PublicKey : Value]

\* A name that is drawn is none that a peer has, and NoFile is nothing else.
ASSUME NodeDirAssumption ==
    /\ MaxIdentity \in Nat \ {0} /\ MaxFaults \in Nat
    /\ IsFiniteSet(Peer) /\ Peer \cap Nat = {}
    /\ NoFile \notin Nat \cup Peer \cup Seq(Value) \cup File \cup MainStruct \cup NodeStruct

VARIABLES
    conf,    \* tinc.conf
    hosts,   \* hosts[m]: the host file of m
    priv,    \* whose private key is in rsa_key.priv; Zero: nobody's
    drawn,   \* how many identities have been drawn
    faults   \* how many faults have been spent

dirVars == <<conf, hosts, priv>>
nodeVars == <<dirVars, drawn, faults>>

NodeInit ==
    /\ conf = NoFile
    /\ hosts = [m \in Name |-> NoFile]
    /\ priv = Zero
    /\ drawn = 0
    /\ faults = 0

NodeTypeOK ==
    /\ conf \in File \cup {NoFile}
    /\ hosts \in [Name -> File \cup {NoFile}]
    /\ priv \in 0..drawn /\ drawn \in 0..MaxIdentity /\ faults \in 0..MaxFaults

\* HostNames: the names that the host directory lists.
HostNames == {m \in Name : hosts[m] # NoFile}

\* Config.Main.
Main == ReadFile(conf, NoMain)

\* The second half of ReadNodeConfig.  Without a name it opens the host directory
\* itself, from which the scanner reads nothing and reports nothing.
Node(m) == IF m = Zero THEN NoNode ELSE ReadFile(hosts[m], NoNode)

\* Of a host file, as tincd reads it: the key.
KeyOf(file) == LET node == ReadFile(file, NoNode) IN IF node = NoFile THEN Zero ELSE node.PublicKey

\* What createConfig, the templates of gen and tincd -K write.
OwnMain(k, connectTo) == [NoMain EXCEPT !.Name = k, !.Port = k, !.LocalDiscovery = 1,
                                        !.Interface = k, !.ConnectTo = connectTo]
OwnNode(k) == [NoNode EXCEPT !.Subnet = k, !.Port = k]
KeyLine(k) == Line("PublicKey", k)
PeerFile(p) == <<Line("Subnet", p), KeyLine(p)>>

Fault == faults < MaxFaults /\ faults' = faults + 1
=============================================================================
