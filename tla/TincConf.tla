------------------------------ MODULE TincConf ------------------------------
(***************************************************************************)
(* The text files of tinc as tincd/config writes and reads them: tinc.conf *)
(* (Main) and a host file (Node).  A file is a sequence of lines           *)
(* "key = value"; the blob of a public key is one line.  A value is a      *)
(* number, or a name of any kind; Zero is the zero value of every type, the*)
(* empty string, port 0 and false.                                         *)
(***************************************************************************)
EXTENDS Naturals, Sequences, SequencesExt

CONSTANT NoFile   \* what a name has that has no file; what a failed read returns

Zero == 0

Line(key, value) == [key |-> key, value |-> value]
NoSeparator == Line("text without a separator", Zero)
UnknownKey == "a key that is none"

\* The structs Main and Node, with nothing read into them yet.
NoMain == [Name |-> Zero, Port |-> Zero, LocalDiscovery |-> Zero,
           Interface |-> Zero, ConnectTo |-> <<>>]
NoNode == [Subnet |-> Zero, Address |-> <<>>, Port |-> Zero, PublicKey |-> Zero]

\* marshalType: a zero value writes no line, a slice one for each element.
Field(key, value) == IF value = Zero THEN <<>> ELSE <<Line(key, value)>>
Slice(key, values) == FlattenSeq([i \in DOMAIN values |-> Field(key, values[i])])

MarshalMain(main) ==
    Field("Name", main.Name) \o Field("Port", main.Port)
    \o Field("LocalDiscovery", main.LocalDiscovery)
    \o Field("Interface", main.Interface) \o Slice("ConnectTo", main.ConnectTo)

\* Address is left out: nothing here depends on where a node can be reached,
\* and the field is marshalled as ConnectTo is.
MarshalNode(node) == Field("Subnet", node.Subnet) \o Field("Port", node.Port)
                     \o Field("PublicKey", node.PublicKey)

\* parseValue: of a slice, the value is appended; of a uint16, ParseUint takes
\* 64 bits, of which SetUint keeps 16, and refuses an empty value.
Parsed(key, value, old) ==
    CASE key \in {"ConnectTo", "Address"} -> Append(old, value)
      [] key = "Port" -> IF value = Zero THEN NoFile ELSE value % 65536
      [] OTHER -> value

\* parseLine: a line without a separator is an error, an unknown key is skipped.
ParseLine(target, line) ==
    IF target = NoFile \/ line.key = NoSeparator.key THEN NoFile
    ELSE IF line.key \notin DOMAIN target THEN target
    ELSE LET value == Parsed(line.key, line.value, target[line.key]) IN
         IF value = NoFile THEN NoFile ELSE [target EXCEPT ![line.key] = value]

Unmarshal(lines, target) == FoldLeft(ParseLine, target, lines)

\* ReadFile: the struct, or NoFile for an error.
ReadFile(file, target) == IF file = NoFile THEN NoFile ELSE Unmarshal(file, target)

\* What is left of lines when the truncated file is not written to its end: it
\* stops after a line, within a key, or before a value.
Torn(lines) ==
    UNION {LET whole == SubSeq(lines, 1, n - 1)
           IN {whole, Append(whole, NoSeparator), Append(whole, Line(lines[n].key, Zero))} :
           n \in DOMAIN lines}

-----------------------------------------------------------------------------
(* Files that are appended to.                                             *)

\* The last line is cut off: there is no newline behind it, or the END line of
\* its blob is missing.
Ragged(file) == file # <<>> /\ Last(file).value = Zero

\* A newline behind lines.  It does not close a blob.
Ended(lines) == IF lines # <<>> /\ Last(lines) = NoSeparator
                THEN Append(Front(lines), Line(NoSeparator.key, 1)) ELSE lines

\* A line runs on in the one that was cut: in its key, which then is none that a
\* struct has, or in its value, which then makes no sense.
Merged(cut, line) ==
    IF cut = NoSeparator /\ line.key \notin {"PublicKey", NoSeparator.key}
    THEN Line(UnknownKey, line.value) ELSE cut

\* parseBlob: a blob that is not closed takes in all lines up to the next END line.
Beyond(lines) ==
    LET ends == {i \in DOMAIN lines : lines[i].key = "PublicKey" /\ lines[i].value # Zero}
    IN IF ends = {} THEN <<>> ELSE SubSeq(lines, Min(ends) + 1, Len(lines))

\* What a file is when lines have been appended to it.
Behind(file, lines) ==
    IF ~ Ragged(file) \/ lines = <<>> THEN file \o lines
    ELSE IF Last(file).key = "PublicKey" THEN file \o Beyond(lines)
    ELSE Front(file) \o <<Merged(Last(file), Head(lines))>> \o Tail(lines)
=============================================================================
