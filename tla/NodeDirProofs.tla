---------------------------- MODULE NodeDirProofs ----------------------------
(***************************************************************************)
(* Lemmas about the files of a node: what FoldLeft and FlattenSeq compute, *)
(* by induction on the lines; the structs that a file is read as; that what*)
(* is marshalled is read back; and what a torn write leaves.               *)
(*                                                                         *)
(* An induction theorem takes a predicate, which the provers can not fill  *)
(* in.  Induction below says the same of a set, and the set of the numbers *)
(* with a property can be defined wherever it is needed.                   *)
(***************************************************************************)
EXTENDS NodeDir, WellFoundedInduction, TLAPS

\* Every set of natural numbers that is not empty has a least member.
LEMMA Least ==
    ASSUME NEW T, T \subseteq Nat, T # {}
    PROVE  \E m \in T : \A k \in T : m <= k
<1>. DEFINE Less == {ss \in Nat \X Nat : ss[1] < ss[2]}
<1>1. IsWellFoundedOn(Less, Nat)
    BY NatLessThanWellFounded, Zenon DEF OpToRel
<1>2. PICK m \in T : \A k \in T : ~ (<<k, m>> \in Less)
    BY <1>1, WFMin, Zenon
<1>3. ASSUME NEW k \in T, k < m PROVE <<k, m>> \in Less
    BY <1>3
<1>4. \A k \in T : ~ (k < m)
    BY <1>2, <1>3
<1>. QED BY <1>4

\* Induction, for a set in the place of a predicate: no least number is left out.
LEMMA Induction ==
    ASSUME NEW S, 0 \in S, \A n \in Nat : n \in S => n + 1 \in S
    PROVE  Nat \subseteq S
<1>. SUFFICES ASSUME Nat \ S # {} PROVE FALSE
    OBVIOUS
<1>1. PICK m \in Nat \ S : \A k \in Nat \ S : m <= k
    BY Least
<1>2. m # 0 /\ m - 1 \in Nat /\ m - 1 \in S
    BY <1>1
<1>. QED BY <1>1, <1>2

\* What MapThenFoldSet computes from, as FoldLeft uses it for the first m lines: the
\* struct after the lines at each set of positions.
IsFold(g, lines, target, m) ==
    g = [s \in SUBSET (1..m) |->
           IF s = {} THEN target ELSE ParseLine(g[s \ {Max(s)}], lines[Max(s)])]

\* Unmarshal is that fold, taken at the set of all the lines' positions.
LEMMA UnmarshalFold ==
    ASSUME NEW lines, NEW target, NEW n \in Nat, DOMAIN lines = 1..n,
           \E g : IsFold(g, lines, target, n)
    PROVE  \E g : IsFold(g, lines, target, n) /\ Unmarshal(lines, target) = g[1..n]
BY DEF IsFold, Unmarshal, FoldLeft, MapThenFoldSet

\* The position that MapThenFoldSet takes out of 1..m first is the last one.
LEMMA MaxTop ==
    ASSUME NEW m \in Nat, NEW s \in SUBSET (1..m), m \in s
    PROVE  Max(s) = m
<1>1. \A y \in s : m >= y
    OBVIOUS
<1>2. \A x \in s : (\A y \in s : x >= y) => x = m
    OBVIOUS
<1>. QED BY <1>1, <1>2 DEF Max

\* The fold exists: the recursion comes to its end.
LEMMA FoldExists ==
    ASSUME NEW lines, NEW target
    PROVE  \A m \in Nat : \E g : IsFold(g, lines, target, m)
<1>. DEFINE Good == {m \in Nat : \E g : IsFold(g, lines, target, m)}
<1>1. 0 \in Good
    <2>1. IsFold([s \in SUBSET (1..0) |-> target], lines, target, 0)
        <3>1. \A s \in SUBSET (1..0) : s = {}
            OBVIOUS
        <3>. QED BY <3>1 DEF IsFold
    <2>. QED BY <2>1
<1>2. ASSUME NEW m \in Nat, m \in Good
      PROVE  m + 1 \in Good
    <2>1. PICK g : IsFold(g, lines, target, m)
        BY <1>2
    <2>. DEFINE h == [s \in SUBSET (1..(m + 1)) |->
                        IF m + 1 \in s THEN ParseLine(g[s \ {m + 1}], lines[m + 1]) ELSE g[s]]
                f == [s \in SUBSET (1..(m + 1)) |->
                        IF s = {} THEN target ELSE ParseLine(h[s \ {Max(s)}], lines[Max(s)])]
    <2>2. ASSUME NEW s \in SUBSET (1..(m + 1))
          PROVE  h[s] = f[s]
        <3>1. CASE m + 1 \in s
            <4>1. Max(s) = m + 1
                BY <3>1, MaxTop
            <4>2. s \ {m + 1} \in SUBSET (1..(m + 1)) /\ s \ {m + 1} \in SUBSET (1..m)
                OBVIOUS
            <4>3. h[s \ {m + 1}] = g[s \ {m + 1}]
                BY <4>2
            <4>. QED BY <3>1, <4>1, <4>3
        <3>2. CASE m + 1 \notin s
            <4>1. s \in SUBSET (1..m)
                BY <3>2
            <4>2. h[s] = g[s]
                BY <3>2
            <4>3. h[s \ {Max(s)}] = g[s \ {Max(s)}]
                BY <3>2
            <4>. QED BY <2>1, <4>1, <4>2, <4>3 DEF IsFold
        <3>. QED BY <3>1, <3>2
    <2>3. h = f
        BY <2>2
    <2>4. IsFold(h, lines, target, m + 1)
        BY <2>3 DEF IsFold
    <2>. QED BY <2>4
<1>3. Nat \subseteq Good
    BY <1>1, <1>2, Induction
<1>. QED BY <1>3

\* Of no line, it is the struct as it was ...
LEMMA FoldFirst ==
    ASSUME NEW lines, NEW target, NEW m \in Nat, NEW g, IsFold(g, lines, target, m)
    PROVE  g[1..0] = target
<1>1. 1..0 = {} /\ 1..0 \in SUBSET (1..m)
    OBVIOUS
<1>. QED BY <1>1 DEF IsFold

\* ... and of one line more, what ParseLine makes of that line.
LEMMA FoldNext ==
    ASSUME NEW lines, NEW target, NEW m \in Nat, NEW g, IsFold(g, lines, target, m),
           NEW k \in Nat, k < m
    PROVE  g[1..(k + 1)] = ParseLine(g[1..k], lines[k + 1])
<1>1. 1..(k + 1) \in SUBSET (1..m) /\ k + 1 \in 1..(k + 1)
    OBVIOUS
<1>2. Max(1..(k + 1)) = k + 1
    BY MaxTop
<1>3. (1..(k + 1)) \ {k + 1} = 1..k
    OBVIOUS
<1>4. g[1..(k + 1)] = ParseLine(g[(1..(k + 1)) \ {Max(1..(k + 1))}], lines[Max(1..(k + 1))])
    BY <1>1 DEF IsFold
<1>. QED BY <1>2, <1>3, <1>4

\* Two sequences that agree as far as k lead to the same struct after k lines.
LEMMA FoldAgrees ==
    ASSUME NEW a, NEW b, NEW target, NEW m \in Nat, NEW n \in Nat, m <= n,
           NEW g, IsFold(g, a, target, m), NEW h, IsFold(h, b, target, n),
           \A i \in 1..m : a[i] = b[i]
    PROVE  g[1..m] = h[1..m]
<1>. DEFINE Good == {k \in Nat : k <= m => g[1..k] = h[1..k]}
<1>1. 0 \in Good
    <2>1. g[1..0] = target
        BY FoldFirst, Zenon
    <2>2. h[1..0] = target
        BY FoldFirst, Zenon
    <2>. QED BY <2>1, <2>2
<1>2. ASSUME NEW k \in Nat, k \in Good
      PROVE  k + 1 \in Good
    <2>1. CASE k < m
        <3>1. g[1..(k + 1)] = ParseLine(g[1..k], a[k + 1])
            BY <2>1, FoldNext
        <3>2. h[1..(k + 1)] = ParseLine(h[1..k], b[k + 1])
            <4>1. k < n
                BY <2>1
            <4>. QED BY <4>1, FoldNext
        <3>. QED BY <1>2, <2>1, <3>1, <3>2
    <2>. QED BY <2>1
<1>3. Nat \subseteq Good
    BY <1>1, <1>2, Induction
<1>. QED BY <1>3

\* All of this for a file, which is a sequence.
LEMMA UnmarshalIsFold ==
    ASSUME NEW S, NEW lines \in Seq(S), NEW target
    PROVE  \E g : IsFold(g, lines, target, Len(lines)) /\ Unmarshal(lines, target) = g[1..Len(lines)]
<1>1. Len(lines) \in Nat /\ DOMAIN lines = 1..Len(lines)
    OBVIOUS
<1>2. \E g : IsFold(g, lines, target, Len(lines))
    BY <1>1, FoldExists, Zenon
<1>. QED BY <1>1, <1>2, UnmarshalFold, Zenon

\* A file without lines leaves the struct as it is; ...
LEMMA UnmarshalEmpty ==
    ASSUME NEW target
    PROVE  Unmarshal(<<>>, target) = target
<1>1. <<>> \in Seq({}) /\ Len(<<>>) = 0
    OBVIOUS
<1>2. PICK g : IsFold(g, <<>>, target, Len(<<>>)) /\ Unmarshal(<<>>, target) = g[1..Len(<<>>)]
    BY <1>1, UnmarshalIsFold, Zenon
<1>3. IsFold(g, <<>>, target, 0) /\ Unmarshal(<<>>, target) = g[1..0]
    BY <1>1, <1>2, Zenon
<1>4. g[1..0] = target
    <2>1. 0 \in Nat
        OBVIOUS
    <2>. QED BY <1>3, <2>1, FoldFirst, Zenon
<1>. QED BY <1>3, <1>4, Zenon

\* Of a sequence, the last line is parsed into what the others have left.
LEMMA UnmarshalAppend ==
    ASSUME NEW S, NEW lines \in Seq(S), NEW line \in S, NEW target
    PROVE  Unmarshal(Append(lines, line), target) = ParseLine(Unmarshal(lines, target), line)
<1>. DEFINE n == Len(lines)
            more == Append(lines, line)
<1>1. /\ n \in Nat /\ n + 1 \in Nat /\ n <= n + 1 /\ Len(more) = n + 1 /\ more \in Seq(S)
      /\ more[n + 1] = line /\ \A i \in 1..n : lines[i] = more[i]
    OBVIOUS
<1>2. PICK g : IsFold(g, lines, target, n) /\ Unmarshal(lines, target) = g[1..n]
    BY UnmarshalIsFold, Zenon
<1>3. PICK h : IsFold(h, more, target, n + 1) /\ Unmarshal(more, target) = h[1..(n + 1)]
    <2>1. \E h : IsFold(h, more, target, Len(more)) /\ Unmarshal(more, target) = h[1..Len(more)]
        BY <1>1, UnmarshalIsFold, Zenon
    <2>. QED BY <1>1, <2>1, Zenon
<1>. HIDE DEF n, more
<1>4. g[1..n] = h[1..n]
    BY <1>1, <1>2, <1>3, FoldAgrees
<1>5. h[1..(n + 1)] = ParseLine(h[1..n], more[n + 1])
    <2>1. n < n + 1
        BY <1>1
    <2>2. n \in Nat /\ n + 1 \in Nat /\ IsFold(h, more, target, n + 1)
        BY <1>1, <1>3
    <2>. QED BY <2>1, <2>2, FoldNext
<1>. QED BY <1>1, <1>2, <1>3, <1>4, <1>5, Zenon DEF more

\* What every line preserves, a file preserves.
LEMMA UnmarshalPreserves ==
    ASSUME NEW S, NEW lines \in Seq(S), NEW I, NEW target \in I,
           \A t \in I : \A i \in 1..Len(lines) : ParseLine(t, lines[i]) \in I
    PROVE  Unmarshal(lines, target) \in I
<1>1. PICK g : IsFold(g, lines, target, Len(lines)) /\ Unmarshal(lines, target) = g[1..Len(lines)]
    BY UnmarshalIsFold, Zenon
<1>. DEFINE Good == {k \in Nat : k <= Len(lines) => g[1..k] \in I}
<1>2. Len(lines) \in Nat
    OBVIOUS
<1>3. 0 \in Good
    <2>1. g[1..0] = target
        BY <1>1, <1>2, FoldFirst, Zenon
    <2>. QED BY <2>1
<1>4. ASSUME NEW k \in Nat, k \in Good
      PROVE  k + 1 \in Good
    <2>. SUFFICES ASSUME k + 1 <= Len(lines) PROVE g[1..(k + 1)] \in I
        OBVIOUS
    <2>1. k < Len(lines) /\ k + 1 \in 1..Len(lines)
        BY <1>2
    <2>2. g[1..(k + 1)] = ParseLine(g[1..k], lines[k + 1])
        BY <1>1, <1>2, <2>1, FoldNext
    <2>3. g[1..k] \in I
        BY <1>4, <2>1
    <2>. QED BY <2>1, <2>2, <2>3
<1>5. Nat \subseteq Good
    BY <1>3, <1>4, Induction
<1>. QED BY <1>1, <1>2, <1>5

\* Two files, one after the other.
LEMMA UnmarshalConcat ==
    ASSUME NEW S, NEW a \in Seq(S), NEW b \in Seq(S), NEW target
    PROVE  Unmarshal(a \o b, target) = Unmarshal(b, Unmarshal(a, target))
<1>. DEFINE Good == {n \in Nat : \A c \in Seq(S) :
                        Len(c) = n => Unmarshal(a \o c, target) = Unmarshal(c, Unmarshal(a, target))}
<1>1. 0 \in Good
    <2>1. \A c \in Seq(S) : Len(c) = 0 => c = <<>> /\ a \o c = a
        OBVIOUS
    <2>. QED BY <2>1, UnmarshalEmpty
<1>2. ASSUME NEW n \in Nat, n \in Good
      PROVE  n + 1 \in Good
    <2>. SUFFICES ASSUME NEW c \in Seq(S), Len(c) = n + 1
                  PROVE  Unmarshal(a \o c, target) = Unmarshal(c, Unmarshal(a, target))
        OBVIOUS
    <2>. DEFINE d == SubSeq(c, 1, n)
                x == c[n + 1]
    <2>1. d \in Seq(S) /\ Len(d) = n /\ x \in S
        OBVIOUS
    <2>2. c = Append(d, x)
        OBVIOUS
    <2>3. a \o c = Append(a \o d, x) /\ a \o d \in Seq(S)
        BY <2>1, <2>2
    <2>. HIDE DEF d, x
    <2>4. Unmarshal(a \o c, target) = ParseLine(Unmarshal(a \o d, target), x)
        BY <2>1, <2>3, UnmarshalAppend
    <2>5. Unmarshal(c, Unmarshal(a, target)) = ParseLine(Unmarshal(d, Unmarshal(a, target)), x)
        BY <2>1, <2>2, UnmarshalAppend
    <2>6. Unmarshal(a \o d, target) = Unmarshal(d, Unmarshal(a, target))
        BY <1>2, <2>1
    <2>. QED BY <2>4, <2>5, <2>6
<1>. HIDE DEF Good
<1>3. Nat \subseteq Good
    BY <1>1, <1>2, Induction
<1>4. Len(b) \in Nat
    OBVIOUS
<1>. QED BY <1>3, <1>4 DEF Good

-----------------------------------------------------------------------------
(* FlattenSeq and Slice.                                                   *)

\* What FlattenSeq computes from: the first i parts, one behind the other.
IsFlat(f, seqs, n) == f = [i \in 1..n |-> IF i = 1 THEN seqs[i] ELSE f[i-1] \o seqs[i]]

\* The recursion of FlattenSeq comes to its end, ...
LEMMA FlatExists ==
    ASSUME NEW seqs
    PROVE  \A n \in Nat : \E f : IsFlat(f, seqs, n)
<1>. DEFINE Good == {n \in Nat : \E f : IsFlat(f, seqs, n)}
<1>1. 0 \in Good
    <2>1. IsFlat([i \in 1..0 |-> seqs[i]], seqs, 0)
        BY DEF IsFlat
    <2>. QED BY <2>1
<1>2. ASSUME NEW n \in Nat, n \in Good
      PROVE  n + 1 \in Good
    <2>1. PICK f : IsFlat(f, seqs, n)
        BY <1>2
    <2>. DEFINE h == [i \in 1..(n + 1) |->
                        IF i = n + 1 THEN IF i = 1 THEN seqs[i] ELSE f[i-1] \o seqs[i] ELSE f[i]]
    <2>2. h = [i \in 1..(n + 1) |-> IF i = 1 THEN seqs[i] ELSE h[i-1] \o seqs[i]]
        <3>1. ASSUME NEW i \in 1..(n + 1)
              PROVE  h[i] = IF i = 1 THEN seqs[i] ELSE h[i-1] \o seqs[i]
            <4>1. i # 1 => h[i-1] = f[i-1]
                OBVIOUS
            <4>2. CASE i = n + 1
                BY <4>1, <4>2
            <4>3. CASE i # n + 1
                <5>1. i \in 1..n /\ h[i] = f[i]
                    BY <4>3
                <5>2. f[i] = IF i = 1 THEN seqs[i] ELSE f[i-1] \o seqs[i]
                    BY <2>1, <5>1 DEF IsFlat
                <5>. QED BY <4>1, <5>1, <5>2
            <4>. QED BY <4>2, <4>3
        <3>. QED BY <3>1
    <2>3. IsFlat(h, seqs, n + 1)
        BY <2>2, Zenon DEF IsFlat
    <2>. QED BY <2>3
<1>3. Nat \subseteq Good
    BY <1>1, <1>2, Induction
<1>. QED BY <1>3

\* ... FlattenSeq is its value at the last part, ...
LEMMA FlattenIsFlat ==
    ASSUME NEW seqs, Len(seqs) \in Nat, Len(seqs) # 0
    PROVE  \E f : IsFlat(f, seqs, Len(seqs)) /\ FlattenSeq(seqs) = f[Len(seqs)]
<1>1. \E f : IsFlat(f, seqs, Len(seqs))
    BY FlatExists, Zenon
<1>. QED BY <1>1 DEF IsFlat, FlattenSeq

\* ... the first part is taken as it is, ...
LEMMA FlatFirst ==
    ASSUME NEW seqs, NEW n \in Nat, n # 0, NEW f, IsFlat(f, seqs, n)
    PROVE  f[1] = seqs[1]
BY DEF IsFlat

\* ... and each other one is put behind what there is.
LEMMA FlatNext ==
    ASSUME NEW seqs, NEW n \in Nat, NEW f, IsFlat(f, seqs, n), NEW k \in Nat, k # 0, k < n
    PROVE  f[k + 1] = f[k] \o seqs[k + 1]
<1>1. k + 1 \in 1..n /\ k + 1 # 1 /\ (k + 1) - 1 = k
    OBVIOUS
<1>2. f[k + 1] = f[(k + 1) - 1] \o seqs[k + 1]
    BY <1>1 DEF IsFlat
<1>. QED BY <1>1, <1>2

\* What all of the parts lie in when they are empty or put behind one another.
LEMMA FlattenPreserves ==
    ASSUME NEW T, NEW seqs \in Seq(T), seqs # <<>>, NEW I,
           \A i \in 1..Len(seqs) : seqs[i] \in I,
           \A u, w \in I : u \o w \in I
    PROVE  FlattenSeq(seqs) \in I
<1>1. Len(seqs) \in Nat /\ Len(seqs) # 0
    OBVIOUS
<1>2. PICK f : IsFlat(f, seqs, Len(seqs)) /\ FlattenSeq(seqs) = f[Len(seqs)]
    BY <1>1, FlattenIsFlat, Zenon
<1>. DEFINE Good == {k \in Nat : k # 0 /\ k <= Len(seqs) => f[k] \in I}
<1>3. 0 \in Good
    OBVIOUS
<1>4. ASSUME NEW k \in Nat, k \in Good
      PROVE  k + 1 \in Good
    <2>. SUFFICES ASSUME k + 1 <= Len(seqs) PROVE f[k + 1] \in I
        OBVIOUS
    <2>1. k + 1 \in 1..Len(seqs) /\ (k + 1) - 1 = k
        BY <1>1
    <2>2. f[k + 1] = IF k + 1 = 1 THEN seqs[k + 1] ELSE f[(k + 1) - 1] \o seqs[k + 1]
        BY <1>2, <2>1, Zenon DEF IsFlat
    <2>3. k # 0 => f[k] \in I
        BY <1>4, <1>1
    <2>. QED BY <2>1, <2>2, <2>3
<1>5. Nat \subseteq Good
    BY <1>3, <1>4, Induction
<1>. QED BY <1>1, <1>2, <1>5

\* Parts of one element each make a sequence of these elements.
LEMMA FlattenSingles ==
    ASSUME NEW T, NEW S, NEW seqs \in Seq(T), NEW x \in Seq(S), Len(seqs) = Len(x),
           \A i \in 1..Len(x) : seqs[i] = <<x[i]>>
    PROVE  FlattenSeq(seqs) = x
<1>1. CASE Len(x) = 0
    BY <1>1 DEF FlattenSeq
<1>2. CASE Len(x) # 0
    <2>1. Len(seqs) \in Nat /\ Len(seqs) # 0
        BY <1>2
    <2>2. PICK f : IsFlat(f, seqs, Len(seqs)) /\ FlattenSeq(seqs) = f[Len(seqs)]
        BY <2>1, FlattenIsFlat, Zenon
    <2>. DEFINE Good == {k \in Nat : k < Len(seqs) =>
                            /\ f[k + 1] \in Seq(S) /\ Len(f[k + 1]) = k + 1
                            /\ \A i \in 1..(k + 1) : f[k + 1][i] = x[i]}
    <2>3. 0 \in Good
        <3>1. f[1] = <<x[1]>> /\ x[1] \in S
            BY <2>1, <2>2, FlatFirst
        <3>2. f[1] \in Seq(S) /\ Len(f[1]) = 1 /\ f[1][1] = x[1]
            BY <3>1
        <3>. QED BY <3>2
    <2>4. ASSUME NEW k \in Nat, k \in Good
          PROVE  k + 1 \in Good
        <3>. DEFINE n == k + 1
        <3>. SUFFICES ASSUME n < Len(seqs)
                      PROVE  /\ f[n + 1] \in Seq(S) /\ Len(f[n + 1]) = n + 1
                             /\ \A i \in 1..(n + 1) : f[n + 1][i] = x[i]
            OBVIOUS
        <3>1. f[n] \in Seq(S) /\ Len(f[n]) = n /\ \A i \in 1..n : f[n][i] = x[i]
            BY <2>1, <2>4
        <3>2. n \in Nat /\ n # 0
            OBVIOUS
        <3>. HIDE DEF n
        <3>3. n + 1 \in 1..Len(x)
            BY <2>1, <3>2
        <3>4. f[n + 1] = f[n] \o <<x[n + 1]>> /\ x[n + 1] \in S
            <4>1. n < Len(seqs) /\ x[n + 1] \in S /\ seqs[n + 1] = <<x[n + 1]>>
                BY <3>3
            <4>2. f[n + 1] = f[n] \o seqs[n + 1]
                BY <2>1, <2>2, <3>2, <4>1, FlatNext
            <4>. QED BY <4>1, <4>2
        <3>. QED BY <3>1, <3>2, <3>4
    <2>. HIDE DEF Good
    <2>5. Nat \subseteq Good
        BY <2>3, <2>4, Induction
    <2>. DEFINE m == Len(x) - 1
    <2>6. m \in Nat /\ m \in Good /\ m + 1 = Len(x) /\ m < Len(seqs)
        BY <1>2, <2>5
    <2>. HIDE DEF m
    <2>7. f[m + 1] \in Seq(S) /\ Len(f[m + 1]) = m + 1 /\ \A i \in 1..(m + 1) : f[m + 1][i] = x[i]
        BY <2>6 DEF Good
    <2>8. f[m + 1] = x
        BY <2>6, <2>7
    <2>. QED BY <2>2, <2>6, <2>8
<1>. QED BY <1>1, <1>2

-----------------------------------------------------------------------------
(* What a file of a node is read as.                                       *)

\* No value, file or struct is taken for a missing file.
LEMMA ValuesAreNoFile ==
    /\ NoFile \notin Value /\ NoFile \notin Seq(Value) /\ NoFile \notin PortValue
    /\ NoFile \notin File /\ NoFile \notin MainStruct /\ NoFile \notin NodeStruct
    /\ Zero \in Value /\ Zero \in PortValue /\ Identity \subseteq Value
BY NodeDirAssumption DEF Value, Name, Identity, Zero, PortValue

\* A line has a value, and its key is known or has no meaning to the parser.
LEMMA LineTypes ==
    ASSUME NEW line \in TextLine
    PROVE  /\ line.value \in Value
           /\ line.key = "Port" => line.value \in PortValue
<1>1. PortValue \subseteq Value
    BY NodeDirAssumption DEF PortValue, Value, Name, Identity, Zero
<1>2. "Port" \notin Key
    BY DEF Key, NoSeparator, UnknownKey, Line
<1>. QED BY <1>1, <1>2 DEF TextLine

\* The 16 bits that are kept of a port are a port.
LEMMA PortModulo ==
    ASSUME NEW n \in PortValue
    PROVE  n % 65536 \in PortValue
BY NodeDirAssumption DEF PortValue

\* parseLine into Main, by the key of the line.
LEMMA ParseMainLine ==
    ASSUME NEW m \in MainStruct, NEW line \in TextLine, line.key # NoSeparator.key
    PROVE  /\ line.key = "Name" => ParseLine(m, line) = [m EXCEPT !.Name = line.value]
           /\ line.key = "LocalDiscovery" =>
                  ParseLine(m, line) = [m EXCEPT !.LocalDiscovery = line.value]
           /\ line.key = "Interface" => ParseLine(m, line) = [m EXCEPT !.Interface = line.value]
           /\ line.key = "ConnectTo" =>
                  ParseLine(m, line) = [m EXCEPT !.ConnectTo = Append(@, line.value)]
           /\ line.key = "Port" =>
                  ParseLine(m, line) = IF line.value = Zero THEN NoFile
                                       ELSE [m EXCEPT !.Port = line.value % 65536]
           /\ line.key \notin {"Name", "LocalDiscovery", "Interface", "ConnectTo", "Port"} =>
                  ParseLine(m, line) = m
<1>1. m # NoFile /\ DOMAIN m = {"Name", "Port", "LocalDiscovery", "Interface", "ConnectTo"}
    BY ValuesAreNoFile DEF MainStruct
<1>2. line.value # NoFile
    BY ValuesAreNoFile, LineTypes
<1>3. m.ConnectTo \in Seq(Value) /\ Append(m.ConnectTo, line.value) # NoFile
    <2>1. m.ConnectTo \in Seq(Value) /\ line.value \in Value
        BY LineTypes DEF MainStruct
    <2>2. Append(m.ConnectTo, line.value) \in Seq(Value)
        BY <2>1
    <2>. QED BY <2>1, <2>2, ValuesAreNoFile
<1>4. line.key = "Port" => line.value % 65536 # NoFile
    BY ValuesAreNoFile, LineTypes, PortModulo
<1>. DEFINE value == Parsed(line.key, line.value, m[line.key])
<1>5. /\ line.key \notin DOMAIN m => ParseLine(m, line) = m
      /\ line.key \in DOMAIN m /\ value = NoFile => ParseLine(m, line) = NoFile
      /\ line.key \in DOMAIN m /\ value # NoFile => ParseLine(m, line) = [m EXCEPT ![line.key] = value]
    BY <1>1, Zenon DEF ParseLine
<1>6. CASE line.key = "Name"
    <2>1. value = line.value
        BY <1>6 DEF Parsed
    <2>. QED BY <1>1, <1>2, <1>5, <1>6, <2>1
<1>7. CASE line.key = "LocalDiscovery"
    <2>1. value = line.value
        BY <1>7 DEF Parsed
    <2>. QED BY <1>1, <1>2, <1>5, <1>7, <2>1
<1>8. CASE line.key = "Interface"
    <2>1. value = line.value
        BY <1>8 DEF Parsed
    <2>. QED BY <1>1, <1>2, <1>5, <1>8, <2>1
<1>9. CASE line.key = "ConnectTo"
    <2>1. value = Append(m.ConnectTo, line.value)
        BY <1>9 DEF Parsed
    <2>. QED BY <1>1, <1>3, <1>5, <1>9, <2>1
<1>10. CASE line.key = "Port"
    <2>1. value = IF line.value = Zero THEN NoFile ELSE line.value % 65536
        BY <1>10 DEF Parsed
    <2>. QED BY <1>1, <1>4, <1>5, <1>10, <2>1
<1>11. CASE line.key \notin {"Name", "LocalDiscovery", "Interface", "ConnectTo", "Port"}
    BY <1>1, <1>5, <1>11
<1>. QED BY <1>6, <1>7, <1>8, <1>9, <1>10, <1>11

\* A line makes a Main of a Main, or an error, ...
LEMMA ParseMainType ==
    ASSUME NEW m \in MainStruct \cup {NoFile}, NEW line \in TextLine
    PROVE  ParseLine(m, line) \in MainStruct \cup {NoFile}
<1>1. CASE m = NoFile \/ line.key = NoSeparator.key
    BY <1>1 DEF ParseLine
<1>2. CASE m # NoFile /\ line.key # NoSeparator.key
    <2>1. /\ line.value \in Value
          /\ line.key = "Port" => line.value % 65536 \in PortValue
        BY LineTypes, PortModulo
    <2>2. m \in MainStruct
        BY <1>2
    <2>3. m.ConnectTo \in Seq(Value)
        BY <2>2 DEF MainStruct
    <2>4. Append(m.ConnectTo, line.value) \in Seq(Value)
        BY <2>1, <2>3
    <2>. DEFINE p == ParseLine(m, line)
    <2>5. CASE line.key = "Name"
        BY <1>2, <2>1, <2>2, <2>5, ParseMainLine DEF MainStruct
    <2>6. CASE line.key = "LocalDiscovery"
        BY <1>2, <2>1, <2>2, <2>6, ParseMainLine DEF MainStruct
    <2>7. CASE line.key = "Interface"
        BY <1>2, <2>1, <2>2, <2>7, ParseMainLine DEF MainStruct
    <2>8. CASE line.key = "ConnectTo"
        BY <1>2, <2>2, <2>4, <2>8, ParseMainLine DEF MainStruct
    <2>9. CASE line.key = "Port"
        BY <1>2, <2>1, <2>2, <2>9, ParseMainLine DEF MainStruct
    <2>10. CASE line.key \notin {"Name", "LocalDiscovery", "Interface", "ConnectTo", "Port"}
        BY <1>2, <2>2, <2>10, ParseMainLine
    <2>. QED BY <2>5, <2>6, <2>7, <2>8, <2>9, <2>10
<1>. QED BY <1>1, <1>2

\* ... and only a Name line changes the name.
LEMMA ParseMainName ==
    ASSUME NEW m \in MainStruct, NEW line \in TextLine, line.key # NoSeparator.key
    PROVE  \/ ParseLine(m, line) = NoFile
           \/ ParseLine(m, line).Name = IF line.key = "Name" THEN line.value ELSE m.Name
<1>1. CASE line.key = "Name"
    BY <1>1, ParseMainLine DEF MainStruct
<1>2. CASE line.key = "LocalDiscovery"
    BY <1>2, ParseMainLine DEF MainStruct
<1>3. CASE line.key = "Interface"
    BY <1>3, ParseMainLine DEF MainStruct
<1>4. CASE line.key = "ConnectTo"
    BY <1>4, ParseMainLine DEF MainStruct
<1>5. CASE line.key = "Port"
    BY <1>5, ParseMainLine DEF MainStruct
<1>6. CASE line.key \notin {"Name", "LocalDiscovery", "Interface", "ConnectTo", "Port"}
    BY <1>6, ParseMainLine
<1>. QED BY <1>1, <1>2, <1>3, <1>4, <1>5, <1>6

\* Reading main from the lines of a file gives a struct or an error, ...
LEMMA UnmarshalMainType ==
    ASSUME NEW lines \in File, NEW m \in MainStruct \cup {NoFile}
    PROVE  Unmarshal(lines, m) \in MainStruct \cup {NoFile}
<1>1. \A t \in MainStruct \cup {NoFile} : \A i \in 1..Len(lines) :
          ParseLine(t, lines[i]) \in MainStruct \cup {NoFile}
    <2>1. \A i \in 1..Len(lines) : lines[i] \in TextLine
        BY DEF File
    <2>. QED BY <2>1, ParseMainType
<1>. QED BY <1>1, UnmarshalPreserves DEF File

\* ... an error is never made good, ...
LEMMA UnmarshalError ==
    ASSUME NEW lines \in File
    PROVE  Unmarshal(lines, NoFile) = NoFile
<1>1. \A t \in {NoFile} : \A i \in 1..Len(lines) : ParseLine(t, lines[i]) \in {NoFile}
    BY DEF ParseLine
<1>2. Unmarshal(lines, NoFile) \in {NoFile}
    BY <1>1, UnmarshalPreserves DEF File
<1>. QED BY <1>2

\* ... and the name is that of the struct or of one of the lines.
LEMMA UnmarshalName ==
    ASSUME NEW lines \in File, NEW V, NEW m \in MainStruct, m.Name \in V,
           \A i \in 1..Len(lines) : lines[i].key = "Name" => lines[i].value \in V,
           Unmarshal(lines, m) # NoFile
    PROVE  Unmarshal(lines, m).Name \in V
<1>. DEFINE I == {u \in MainStruct : u.Name \in V} \cup {NoFile}
<1>1. \A t \in I : \A i \in 1..Len(lines) : ParseLine(t, lines[i]) \in I
    <2>. SUFFICES ASSUME NEW t \in I, NEW i \in 1..Len(lines)
                  PROVE  ParseLine(t, lines[i]) \in I
        OBVIOUS
    <2>1. lines[i] \in TextLine
        BY DEF File
    <2>2. ParseLine(t, lines[i]) \in MainStruct \cup {NoFile}
        BY <2>1, ParseMainType
    <2>3. CASE t = NoFile \/ lines[i].key = NoSeparator.key
        BY <2>3 DEF ParseLine
    <2>4. CASE t # NoFile /\ lines[i].key # NoSeparator.key
        <3>1. t \in MainStruct /\ t.Name \in V
            BY <2>4
        <3>4. ParseLine(t, lines[i]) = NoFile
              \/ ParseLine(t, lines[i]).Name = IF lines[i].key = "Name" THEN lines[i].value ELSE t.Name
            BY <2>1, <2>4, <3>1, ParseMainName
        <3>5. ParseLine(t, lines[i]) = NoFile \/ ParseLine(t, lines[i]).Name \in V
            BY <3>1, <3>4
        <3>. QED BY <2>2, <3>5
    <2>. QED BY <2>3, <2>4
<1>2. m \in I
    OBVIOUS
<1>. HIDE DEF I
<1>3. Unmarshal(lines, m) \in I
    BY <1>1, <1>2, UnmarshalPreserves DEF File
<1>. QED BY <1>3 DEF I

\* The empty Main is one.
LEMMA NoMainType == NoMain \in MainStruct
<1>1. <<>> \in Seq(Value)
    OBVIOUS
<1>. QED BY <1>1, ValuesAreNoFile DEF NoMain, MainStruct

\* Config.Main.
LEMMA ReadMainType ==
    ASSUME NEW file \in File \cup {NoFile}
    PROVE  ReadFile(file, NoMain) \in MainStruct \cup {NoFile}
BY NoMainType, UnmarshalMainType DEF ReadFile

\* Its name is in the file, if it has one.
LEMMA ReadMainName ==
    ASSUME NEW file \in File, NEW V, Zero \in V,
           \A i \in 1..Len(file) : file[i].key = "Name" => file[i].value \in V,
           ReadFile(file, NoMain) # NoFile
    PROVE  ReadFile(file, NoMain).Name \in V
<1>1. file # NoFile
    BY ValuesAreNoFile
<1>2. NoMain.Name = Zero
    BY DEF NoMain
<1>. QED BY <1>1, <1>2, NoMainType, UnmarshalName DEF ReadFile

-----------------------------------------------------------------------------
(* What is marshalled is read back.                                        *)

\* A line of a known key and a value is a line of a file.
LEMMA LineType ==
    ASSUME NEW key, NEW value,
           \/ key \in Key /\ value \in Value
           \/ key = "Port" /\ value \in PortValue
    PROVE  Line(key, value) \in TextLine
BY DEF Line, TextLine

\* marshalType of a simple field: at most one line, with the field's key and value.
LEMMA FieldType ==
    ASSUME NEW key, NEW value,
           \/ key \in Key /\ value \in Value
           \/ key = "Port" /\ value \in PortValue
    PROVE  /\ Field(key, value) \in File
           /\ \A i \in 1..Len(Field(key, value)) :
                 Field(key, value)[i] = Line(key, value) /\ value # Zero
BY LineType DEF Field, File

\* ... which is read like any line.
LEMMA UnmarshalField ==
    ASSUME NEW key, NEW value, NEW target, Line(key, value) \in TextLine
    PROVE  Unmarshal(Field(key, value), target) =
              IF value = Zero THEN target ELSE ParseLine(target, Line(key, value))
<1>1. CASE value = Zero
    BY <1>1, UnmarshalEmpty DEF Field
<1>2. CASE value # Zero
    <2>1. <<>> \in Seq(TextLine) /\ <<Line(key, value)>> = Append(<<>>, Line(key, value))
        OBVIOUS
    <2>2. Unmarshal(Append(<<>>, Line(key, value)), target) =
              ParseLine(Unmarshal(<<>>, target), Line(key, value))
        BY <2>1, UnmarshalAppend
    <2>. QED BY <1>2, <2>1, <2>2, UnmarshalEmpty DEF Field
<1>. QED BY <1>1, <1>2

\* Slice, whatever its values are, and when none is empty.
LEMMA SliceType ==
    ASSUME NEW key \in Key, NEW values \in Seq(Value)
    PROVE  /\ Slice(key, values) \in File
           /\ \A i \in 1..Len(Slice(key, values)) : Slice(key, values)[i].key = key
<1>. DEFINE seqs == [i \in DOMAIN values |-> Field(key, values[i])]
            I == {f \in File : \A i \in 1..Len(f) : f[i].key = key}
<1>1. \A i \in 1..Len(values) : Field(key, values[i]) \in I
    <2>. SUFFICES ASSUME NEW i \in 1..Len(values) PROVE Field(key, values[i]) \in I
        OBVIOUS
    <2>1. values[i] \in Value
        OBVIOUS
    <2>2. Line(key, values[i]).key = key
        BY DEF Line
    <2>3. /\ Field(key, values[i]) \in File
          /\ \A j \in 1..Len(Field(key, values[i])) : Field(key, values[i])[j] = Line(key, values[i])
        BY <2>1, FieldType
    <2>. QED BY <2>2, <2>3, Zenon
<1>2. seqs \in Seq(I) /\ Len(seqs) = Len(values) /\ \A i \in 1..Len(seqs) : seqs[i] \in I
    BY <1>1
<1>3. \A u, w \in I : u \o w \in I
    <2>. SUFFICES ASSUME NEW u \in I, NEW w \in I PROVE u \o w \in I
        OBVIOUS
    <2>1. u \in Seq(TextLine) /\ w \in Seq(TextLine)
        BY DEF File
    <2>2. u \o w \in File
        BY <2>1 DEF File
    <2>3. ASSUME NEW i \in 1..Len(u \o w) PROVE (u \o w)[i].key = key
        <3>1. CASE i <= Len(u)
            <4>1. i \in 1..Len(u) /\ (u \o w)[i] = u[i]
                BY <2>1, <3>1
            <4>. QED BY <4>1
        <3>2. CASE i > Len(u)
            <4>1. i - Len(u) \in 1..Len(w) /\ (u \o w)[i] = w[i - Len(u)]
                BY <2>1, <3>2
            <4>. QED BY <4>1
        <3>. QED BY <2>1, <3>1, <3>2
    <2>. QED BY <2>2, <2>3
<1>4. Slice(key, values) \in I
    <2>1. CASE seqs = <<>>
        <3>1. FlattenSeq(seqs) = <<>>
            BY <2>1 DEF FlattenSeq
        <3>2. <<>> \in I
            BY DEF File
        <3>. QED BY <3>1, <3>2, Zenon DEF Slice
    <2>2. CASE seqs # <<>>
        <3>. HIDE DEF seqs, I
        <3>1. FlattenSeq(seqs) \in I
            BY <1>2, <1>3, <2>2, FlattenPreserves
        <3>. QED BY <3>1, Zenon DEF Slice, seqs
    <2>. QED BY <2>1, <2>2
<1>. QED BY <1>4

\* Without zero values, marshalType of a slice writes one line for each element.
LEMMA SliceExact ==
    ASSUME NEW key \in Key, NEW values \in Seq(Value \ {Zero})
    PROVE  Slice(key, values) = [i \in 1..Len(values) |-> Line(key, values[i])]
<1>. DEFINE seqs == [i \in DOMAIN values |-> Field(key, values[i])]
            x == [i \in 1..Len(values) |-> Line(key, values[i])]
<1>1. seqs \in Seq(File) /\ Len(seqs) = Len(values)
    <2>1. \A i \in 1..Len(values) : Field(key, values[i]) \in File
        BY FieldType
    <2>. QED BY <2>1
<1>2. x \in Seq(TextLine) /\ Len(x) = Len(values)
    <2>1. \A i \in 1..Len(values) : Line(key, values[i]) \in TextLine
        BY LineType
    <2>. QED BY <2>1
<1>3. \A i \in 1..Len(x) : seqs[i] = <<x[i]>>
    BY DEF Field
<1>. HIDE DEF seqs, x
<1>4. FlattenSeq(seqs) = x
    BY <1>1, <1>2, <1>3, FlattenSingles
<1>. QED BY <1>4, Zenon DEF Slice, seqs, x

\* ConnectTo lines leave the other fields as they are, ...
LEMMA UnmarshalConnectTo ==
    ASSUME NEW lines \in File, \A i \in 1..Len(lines) : lines[i].key = "ConnectTo",
           NEW m \in MainStruct
    PROVE  /\ Unmarshal(lines, m) \in MainStruct
           /\ Unmarshal(lines, m).Name = m.Name
           /\ Unmarshal(lines, m).Port = m.Port
           /\ Unmarshal(lines, m).LocalDiscovery = m.LocalDiscovery
           /\ Unmarshal(lines, m).Interface = m.Interface
<1>. DEFINE I == {u \in MainStruct : /\ u.Name = m.Name /\ u.Port = m.Port
                                     /\ u.LocalDiscovery = m.LocalDiscovery
                                     /\ u.Interface = m.Interface}
<1>1. \A t \in I : \A i \in 1..Len(lines) : ParseLine(t, lines[i]) \in I
    <2>. SUFFICES ASSUME NEW t \in I, NEW i \in 1..Len(lines)
                  PROVE  ParseLine(t, lines[i]) \in I
        OBVIOUS
    <2>1. lines[i] \in TextLine /\ lines[i].key # NoSeparator.key /\ lines[i].key = "ConnectTo"
        <3>1. NoSeparator.key # "ConnectTo"
            BY DEF NoSeparator, Line
        <3>. QED BY <3>1 DEF File
    <2>2. ParseLine(t, lines[i]) = [t EXCEPT !.ConnectTo = Append(@, lines[i].value)]
        BY <2>1, ParseMainLine
    <2>3. t.ConnectTo \in Seq(Value) /\ lines[i].value \in Value
        BY <2>1, LineTypes DEF MainStruct
    <2>4. Append(t.ConnectTo, lines[i].value) \in Seq(Value)
        BY <2>3
    <2>. QED BY <2>2, <2>4 DEF MainStruct
<1>2. m \in I
    OBVIOUS
<1>. HIDE DEF I
<1>3. Unmarshal(lines, m) \in I
    BY <1>1, <1>2, UnmarshalPreserves DEF File
<1>. QED BY <1>3 DEF I

\* ... and add their values to it.
LEMMA UnmarshalSlice ==
    ASSUME NEW values \in Seq(Value \ {Zero}), NEW m \in MainStruct
    PROVE  Unmarshal(Slice("ConnectTo", values), m) = [m EXCEPT !.ConnectTo = @ \o values]
<1>. DEFINE W == Value \ {Zero}
            L(v) == [i \in 1..Len(v) |-> Line("ConnectTo", v[i])]
            Good == {n \in Nat : \A v \in Seq(W) :
                        Len(v) = n => Unmarshal(L(v), m) = [m EXCEPT !.ConnectTo = @ \o v]}
<1>0. "ConnectTo" \in Key
    BY DEF Key
<1>1. 0 \in Good
    <2>. SUFFICES ASSUME NEW v \in Seq(W), Len(v) = 0
                  PROVE  Unmarshal(L(v), m) = [m EXCEPT !.ConnectTo = @ \o v]
        OBVIOUS
    <2>1. v = <<>> /\ L(v) = <<>>
        OBVIOUS
    <2>2. m.ConnectTo \in Seq(Value)
        BY DEF MainStruct
    <2>3. m.ConnectTo \o v = m.ConnectTo
        BY <2>1, <2>2
    <2>4. [m EXCEPT !.ConnectTo = @ \o v] = m
        BY <2>3 DEF MainStruct
    <2>. QED BY <2>1, <2>4, UnmarshalEmpty, Zenon
<1>. HIDE DEF L
<1>2. ASSUME NEW n \in Nat, n \in Good
      PROVE  n + 1 \in Good
    <2>. SUFFICES ASSUME NEW v \in Seq(W), Len(v) = n + 1
                  PROVE  Unmarshal(L(v), m) = [m EXCEPT !.ConnectTo = @ \o v]
        OBVIOUS
    <2>. DEFINE u == SubSeq(v, 1, n)
                x == v[n + 1]
    <2>1. u \in Seq(W) /\ Len(u) = n /\ x \in W /\ v = Append(u, x)
          /\ \A i \in 1..n : u[i] = v[i]
        OBVIOUS
    <2>. USE DEF L
    <2>2. L(u) \in File /\ Line("ConnectTo", x) \in TextLine
        <3>1. \A i \in 1..Len(u) : Line("ConnectTo", u[i]) \in TextLine
            BY <1>0, <2>1, LineType
        <3>2. Len(u) \in Nat /\ L(u) = [i \in 1..Len(u) |-> Line("ConnectTo", u[i])]
            BY <2>1
        <3>. HIDE DEF L, u, x
        <3>3. L(u) \in Seq(TextLine)
            BY <3>1, <3>2
        <3>4. Line("ConnectTo", x) \in TextLine
            BY <1>0, <2>1, LineType
        <3>. QED BY <3>3, <3>4 DEF File
    <2>3. L(v) = Append(L(u), Line("ConnectTo", x))
        <3>1. Len(L(u)) = n /\ L(u) \in Seq(TextLine)
            BY <2>1, <2>2 DEF File
        <3>. DEFINE b == Append(L(u), Line("ConnectTo", x))
        <3>2. b \in Seq(TextLine) /\ Len(b) = n + 1
            BY <2>2, <3>1
        <3>3. L(v) \in Seq(TextLine) /\ Len(L(v)) = n + 1
            <4>1. \A i \in 1..Len(v) : Line("ConnectTo", v[i]) \in TextLine
                BY <1>0, LineType
            <4>. QED BY <4>1
        <3>4. ASSUME NEW i \in 1..(n + 1) PROVE L(v)[i] = b[i]
            <4>1. CASE i = n + 1
                BY <3>1, <4>1
            <4>2. CASE i # n + 1
                BY <2>1, <3>1, <4>2
            <4>. QED BY <4>1, <4>2
        <3>. HIDE DEF b, L
        <3>5. L(v) = b
            BY <3>2, <3>3, <3>4
        <3>. QED BY <3>5 DEF b
    <2>. HIDE DEF L, u, x
    <2>4. Unmarshal(L(v), m) = ParseLine(Unmarshal(L(u), m), Line("ConnectTo", x))
        BY <2>2, <2>3, UnmarshalAppend DEF File
    <2>5. Unmarshal(L(u), m) = [m EXCEPT !.ConnectTo = @ \o u]
        BY <1>2, <2>1
    <2>6. /\ m.ConnectTo \in Seq(Value) /\ m.ConnectTo \o u \in Seq(Value)
          /\ Append(m.ConnectTo \o u, x) = m.ConnectTo \o v
        <3>1. m.ConnectTo \in Seq(Value) /\ u \in Seq(Value) /\ x \in Value
            BY <2>1 DEF MainStruct
        <3>2. m.ConnectTo \o u \in Seq(Value)
            BY <3>1
        <3>3. Append(m.ConnectTo \o u, x) = m.ConnectTo \o Append(u, x)
            <4>. DEFINE a == m.ConnectTo
                        l == Append(a \o u, x)
                        r == a \o Append(u, x)
            <4>1. a \in Seq(Value)
                BY <3>1
            <4>. HIDE DEF a
            <4>2. Len(a) \in Nat /\ Len(u) \in Nat /\ l \in Seq(Value) /\ r \in Seq(Value) /\ Len(l) = Len(a) + Len(u) + 1 /\ Len(r) = Len(l)
                BY <3>1, <4>1
            <4>3. ASSUME NEW i \in 1..Len(l) PROVE l[i] = r[i]
                <5>1. CASE i <= Len(a)
                    BY <3>1, <4>1, <5>1
                <5>2. CASE i > Len(a) /\ i <= Len(a) + Len(u)
                    BY <3>1, <4>1, <5>2
                <5>3. CASE i = Len(a) + Len(u) + 1
                    BY <3>1, <4>1, <5>3
                <5>. QED BY <4>2, <5>1, <5>2, <5>3
            <4>. HIDE DEF l, r
            <4>4. l = r
                BY <4>2, <4>3
            <4>. QED BY <4>4 DEF l, r, a
        <3>. QED BY <2>1, <3>1, <3>2, <3>3
    <2>. DEFINE w == [m EXCEPT !.ConnectTo = @ \o u]
    <2>7. w \in MainStruct
        BY <2>6 DEF MainStruct
    <2>8. /\ Line("ConnectTo", x).key = "ConnectTo" /\ Line("ConnectTo", x).value = x
          /\ Line("ConnectTo", x).key # NoSeparator.key
        BY DEF Line, NoSeparator
    <2>. HIDE DEF w
    <2>9. ParseLine(w, Line("ConnectTo", x)) = [w EXCEPT !.ConnectTo = Append(@, x)]
        BY <2>2, <2>7, <2>8, ParseMainLine
    <2>10. [w EXCEPT !.ConnectTo = Append(@, x)] = [m EXCEPT !.ConnectTo = @ \o v]
        BY <2>6 DEF MainStruct, w
    <2>. QED BY <2>4, <2>5, <2>9, <2>10 DEF w
<1>. HIDE DEF Good
<1>3. Nat \subseteq Good
    BY <1>1, <1>2, Induction
<1>4. Len(values) \in Good
    BY <1>3
<1>5. Slice("ConnectTo", values) = L(values)
    BY <1>0, SliceExact DEF L
<1>. QED BY <1>4, <1>5 DEF Good

\* A field that has nothing yet gets the value, whether a line says so or not.
LEMMA FieldIntoMain ==
    ASSUME NEW t \in MainStruct, NEW v \in Value
    PROVE  /\ t.Name = Zero => Unmarshal(Field("Name", v), t) = [t EXCEPT !.Name = v]
           /\ t.LocalDiscovery = Zero =>
                 Unmarshal(Field("LocalDiscovery", v), t) = [t EXCEPT !.LocalDiscovery = v]
           /\ t.Interface = Zero => Unmarshal(Field("Interface", v), t) = [t EXCEPT !.Interface = v]
           /\ t.Port = Zero /\ v \in PortValue =>
                 Unmarshal(Field("Port", v), t) = [t EXCEPT !.Port = v % 65536]
<1>1. ASSUME NEW key \in {"Name", "LocalDiscovery", "Interface", "Port"},
             key = "Port" => v \in PortValue
      PROVE  /\ Line(key, v) \in TextLine /\ Line(key, v).key # NoSeparator.key
             /\ Line(key, v).key = key /\ Line(key, v).value = v
    <2>1. Line(key, v) \in TextLine
        BY <1>1, LineType DEF Key
    <2>2. Line(key, v).key = key /\ Line(key, v).value = v
        BY DEF Line
    <2>3. NoSeparator.key \notin {"Name", "LocalDiscovery", "Interface", "Port"}
        BY DEF NoSeparator, Line
    <2>4. Line(key, v).key # NoSeparator.key
        BY <1>1, <2>2, <2>3
    <2>. QED BY <2>1, <2>2, <2>4
<1>2. ASSUME t.Name = Zero PROVE Unmarshal(Field("Name", v), t) = [t EXCEPT !.Name = v]
    <2>. DEFINE line == Line("Name", v)
    <2>1. line \in TextLine /\ line.key # NoSeparator.key /\ line.key = "Name" /\ line.value = v
        <3>1. "Name" \in {"Name", "LocalDiscovery", "Interface", "Port"} /\ "Name" # "Port"
            OBVIOUS
        <3>. QED BY <1>1, <3>1, Zenon
    <2>2. Unmarshal(Field("Name", v), t) = IF v = Zero THEN t ELSE ParseLine(t, line)
        BY <2>1, UnmarshalField
    <2>. HIDE DEF line
    <2>3. ParseLine(t, line) = [t EXCEPT !.Name = v]
        BY <2>1, ParseMainLine
    <2>. QED BY <1>2, <2>2, <2>3 DEF MainStruct
<1>3. ASSUME t.LocalDiscovery = Zero
      PROVE  Unmarshal(Field("LocalDiscovery", v), t) = [t EXCEPT !.LocalDiscovery = v]
    <2>. DEFINE line == Line("LocalDiscovery", v)
    <2>1. line \in TextLine /\ line.key # NoSeparator.key /\ line.key = "LocalDiscovery" /\ line.value = v
        <3>1. "LocalDiscovery" \in {"Name", "LocalDiscovery", "Interface", "Port"} /\ "LocalDiscovery" # "Port"
            OBVIOUS
        <3>. QED BY <1>1, <3>1, Zenon
    <2>2. Unmarshal(Field("LocalDiscovery", v), t) = IF v = Zero THEN t ELSE ParseLine(t, line)
        BY <2>1, UnmarshalField
    <2>. HIDE DEF line
    <2>3. ParseLine(t, line) = [t EXCEPT !.LocalDiscovery = v]
        BY <2>1, ParseMainLine
    <2>. QED BY <1>3, <2>2, <2>3 DEF MainStruct
<1>4. ASSUME t.Interface = Zero PROVE Unmarshal(Field("Interface", v), t) = [t EXCEPT !.Interface = v]
    <2>. DEFINE line == Line("Interface", v)
    <2>1. line \in TextLine /\ line.key # NoSeparator.key /\ line.key = "Interface" /\ line.value = v
        <3>1. "Interface" \in {"Name", "LocalDiscovery", "Interface", "Port"} /\ "Interface" # "Port"
            OBVIOUS
        <3>. QED BY <1>1, <3>1, Zenon
    <2>2. Unmarshal(Field("Interface", v), t) = IF v = Zero THEN t ELSE ParseLine(t, line)
        BY <2>1, UnmarshalField
    <2>. HIDE DEF line
    <2>3. ParseLine(t, line) = [t EXCEPT !.Interface = v]
        BY <2>1, ParseMainLine
    <2>. QED BY <1>4, <2>2, <2>3 DEF MainStruct
<1>5. ASSUME t.Port = Zero, v \in PortValue
      PROVE  Unmarshal(Field("Port", v), t) = [t EXCEPT !.Port = v % 65536]
    <2>. DEFINE line == Line("Port", v)
    <2>1. line \in TextLine /\ line.key # NoSeparator.key /\ line.key = "Port" /\ line.value = v
        BY <1>1, <1>5
    <2>2. Unmarshal(Field("Port", v), t) = IF v = Zero THEN t ELSE ParseLine(t, line)
        BY <2>1, UnmarshalField
    <2>. HIDE DEF line
    <2>3. v # Zero => ParseLine(t, line) = [t EXCEPT !.Port = v % 65536]
        BY <2>1, ParseMainLine
    <2>4. v = Zero => v % 65536 = t.Port
        BY <1>5 DEF Zero
    <2>5. [t EXCEPT !.Port = t.Port] = t
        BY DEF MainStruct
    <2>. QED BY <2>2, <2>3, <2>4, <2>5
<1>. QED BY <1>2, <1>3, <1>4, <1>5

\* MarshalFile and ReadFile of a Main: only the port may differ, by its width.
THEOREM MarshalMainReadBack ==
    ASSUME NEW m \in MainStruct
    PROVE  /\ MarshalMain(m) \in File
           /\ \A i \in 1..Len(MarshalMain(m)) :
                 MarshalMain(m)[i].key = "Name" => MarshalMain(m)[i].value = m.Name
           /\ ReadFile(MarshalMain(m), NoMain) \in MainStruct
           /\ ReadFile(MarshalMain(m), NoMain).Name = m.Name
           /\ ReadFile(MarshalMain(m), NoMain).Interface = m.Interface
           /\ m.ConnectTo \in Seq(Value \ {Zero}) =>
                 ReadFile(MarshalMain(m), NoMain).ConnectTo = m.ConnectTo
<1>. DEFINE fn == Field("Name", m.Name)
            fp == Field("Port", m.Port)
            fl == Field("LocalDiscovery", m.LocalDiscovery)
            fi == Field("Interface", m.Interface)
            sc == Slice("ConnectTo", m.ConnectTo)
            a == fn \o fp
            b == a \o fl
            c == b \o fi
            all == c \o sc
            Named(f) == \A i \in 1..Len(f) : f[i].key = "Name" => f[i].value = m.Name
<1>1. /\ m.Name \in Value /\ m.Port \in PortValue /\ m.LocalDiscovery \in Value
      /\ m.Interface \in Value /\ m.ConnectTo \in Seq(Value) /\ m.Port \in Value
    BY LineTypes, NodeDirAssumption DEF MainStruct, PortValue, Value, Name, Identity, Zero
<1>2. fn \in File /\ fp \in File /\ fl \in File /\ fi \in File /\ sc \in File
    BY <1>1, FieldType, SliceType DEF Key
<1>3. Named(fn) /\ Named(fp) /\ Named(fl) /\ Named(fi) /\ Named(sc)
    <2>1. \A key, value : Line(key, value).key = key /\ Line(key, value).value = value
        BY DEF Line
    <2>2. Named(fn) /\ Named(fp) /\ Named(fl) /\ Named(fi)
        BY <1>1, <2>1, FieldType DEF Key
    <2>3. Named(sc)
        BY <1>1, SliceType DEF Key
    <2>. QED BY <2>2, <2>3
<1>4. MarshalMain(m) = all
    BY DEF MarshalMain
<1>. HIDE DEF fn, fp, fl, fi, sc
<1>5. a \in File /\ b \in File /\ c \in File /\ all \in File
    BY <1>2 DEF File
<1>6. Named(all)
    <2>1. ASSUME NEW u \in File, NEW w \in File, Named(u), Named(w)
          PROVE  Named(u \o w)
        <3>. SUFFICES ASSUME NEW i \in 1..Len(u \o w), (u \o w)[i].key = "Name"
                      PROVE  (u \o w)[i].value = m.Name
            OBVIOUS
        <3>1. u \in Seq(TextLine) /\ w \in Seq(TextLine)
            BY DEF File
        <3>2. CASE i <= Len(u)
            <4>1. i \in 1..Len(u) /\ (u \o w)[i] = u[i]
                BY <3>1, <3>2
            <4>. QED BY <2>1, <4>1
        <3>3. CASE i > Len(u)
            <4>1. i - Len(u) \in 1..Len(w) /\ (u \o w)[i] = w[i - Len(u)]
                BY <3>1, <3>3
            <4>. QED BY <2>1, <4>1
        <3>. QED BY <3>1, <3>2, <3>3
    <2>. HIDE DEF Named
    <2>2. Named(a)
        BY <1>2, <1>3, <2>1
    <2>. HIDE DEF a
    <2>3. Named(b)
        BY <1>2, <1>3, <1>5, <2>1, <2>2
    <2>. HIDE DEF b
    <2>4. Named(c)
        BY <1>2, <1>3, <1>5, <2>1, <2>3
    <2>. HIDE DEF c
    <2>. QED BY <1>2, <1>3, <1>5, <2>1, <2>4
<1>. DEFINE t1 == Unmarshal(fn, NoMain)
            t2 == Unmarshal(fp, t1)
            t3 == Unmarshal(fl, t2)
            t4 == Unmarshal(fi, t3)
            t5 == Unmarshal(sc, t4)
<1>7. Unmarshal(all, NoMain) = t5
    <2>1. Unmarshal(a, NoMain) = t2
        BY <1>2, UnmarshalConcat DEF File
    <2>. HIDE DEF a
    <2>2. Unmarshal(b, NoMain) = t3
        BY <1>2, <1>5, <2>1, UnmarshalConcat DEF File
    <2>. HIDE DEF b
    <2>3. Unmarshal(c, NoMain) = t4
        BY <1>2, <1>5, <2>2, UnmarshalConcat DEF File
    <2>. HIDE DEF c
    <2>. QED BY <1>2, <1>5, <2>3, UnmarshalConcat DEF File
<1>. HIDE DEF all
<1>8. /\ NoMain \in MainStruct /\ NoMain.Name = Zero /\ NoMain.Port = Zero
      /\ NoMain.LocalDiscovery = Zero /\ NoMain.Interface = Zero /\ NoMain.ConnectTo = <<>>
    BY NoMainType DEF NoMain
<1>9. t1 = [NoMain EXCEPT !.Name = m.Name]
    BY <1>1, <1>8, FieldIntoMain DEF fn
<1>. HIDE DEF t1
<1>10. /\ t1 \in MainStruct /\ t1.Name = m.Name /\ t1.Port = Zero
       /\ t1.LocalDiscovery = Zero /\ t1.Interface = Zero /\ t1.ConnectTo = <<>>
    BY <1>1, <1>8, <1>9 DEF MainStruct
<1>11. t2 = [t1 EXCEPT !.Port = m.Port % 65536]
    BY <1>1, <1>10, FieldIntoMain DEF fp
<1>. HIDE DEF t2
<1>12. /\ t2 \in MainStruct /\ t2.Name = m.Name
       /\ t2.LocalDiscovery = Zero /\ t2.Interface = Zero /\ t2.ConnectTo = <<>>
    BY <1>1, <1>10, <1>11, PortModulo DEF MainStruct
<1>13. t3 = [t2 EXCEPT !.LocalDiscovery = m.LocalDiscovery]
    BY <1>1, <1>12, FieldIntoMain DEF fl
<1>. HIDE DEF t3
<1>14. t3 \in MainStruct /\ t3.Name = m.Name /\ t3.Interface = Zero /\ t3.ConnectTo = <<>>
    BY <1>1, <1>12, <1>13 DEF MainStruct
<1>15. t4 = [t3 EXCEPT !.Interface = m.Interface]
    BY <1>1, <1>14, FieldIntoMain DEF fi
<1>. HIDE DEF t4
<1>16. t4 \in MainStruct /\ t4.Name = m.Name /\ t4.Interface = m.Interface /\ t4.ConnectTo = <<>>
    BY <1>1, <1>14, <1>15 DEF MainStruct
<1>17. t5 \in MainStruct /\ t5.Name = m.Name /\ t5.Interface = m.Interface
    <2>1. \A i \in 1..Len(sc) : sc[i].key = "ConnectTo"
        BY <1>1, SliceType DEF sc, Key
    <2>. QED BY <1>2, <1>16, <2>1, UnmarshalConnectTo
<1>18. ASSUME m.ConnectTo \in Seq(Value \ {Zero})
       PROVE  t5.ConnectTo = m.ConnectTo
    <2>1. t5 = [t4 EXCEPT !.ConnectTo = @ \o m.ConnectTo]
        BY <1>16, <1>18, UnmarshalSlice DEF sc
    <2>2. t4.ConnectTo \o m.ConnectTo = m.ConnectTo
        BY <1>16, <1>18
    <2>. QED BY <1>16, <2>1, <2>2 DEF MainStruct
<1>19. ReadFile(MarshalMain(m), NoMain) = t5
    BY <1>4, <1>5, <1>7, ValuesAreNoFile DEF ReadFile
<1>. HIDE DEF t5
<1>. QED BY <1>4, <1>5, <1>6, <1>17, <1>18, <1>19

-----------------------------------------------------------------------------
(* Host files, and what a torn write leaves.                               *)

\* parseLine into Node, by the key of the line.
LEMMA ParseNodeLine ==
    ASSUME NEW m \in NodeStruct, NEW line \in TextLine, line.key # NoSeparator.key
    PROVE  /\ line.key = "Subnet" => ParseLine(m, line) = [m EXCEPT !.Subnet = line.value]
           /\ line.key = "PublicKey" => ParseLine(m, line) = [m EXCEPT !.PublicKey = line.value]
           /\ line.key = "Port" /\ line.value # Zero =>
                  ParseLine(m, line) = [m EXCEPT !.Port = line.value % 65536]
<1>1. m # NoFile /\ DOMAIN m = {"Subnet", "Address", "Port", "PublicKey"}
    BY ValuesAreNoFile DEF NodeStruct
<1>2. line.value # NoFile
    BY ValuesAreNoFile, LineTypes
<1>3. line.key = "Port" => line.value % 65536 # NoFile
    BY ValuesAreNoFile, LineTypes, PortModulo
<1>. DEFINE value == Parsed(line.key, line.value, m[line.key])
<1>4. line.key \in DOMAIN m /\ value # NoFile => ParseLine(m, line) = [m EXCEPT ![line.key] = value]
    BY <1>1, Zenon DEF ParseLine
<1>5. CASE line.key = "Subnet"
    <2>1. value = line.value
        BY <1>5 DEF Parsed
    <2>. QED BY <1>1, <1>2, <1>4, <1>5, <2>1
<1>6. CASE line.key = "PublicKey"
    <2>1. value = line.value
        BY <1>6 DEF Parsed
    <2>. QED BY <1>1, <1>2, <1>4, <1>6, <2>1
<1>7. CASE line.key = "Port" /\ line.value # Zero
    <2>1. value = line.value % 65536
        BY <1>7 DEF Parsed
    <2>. QED BY <1>1, <1>3, <1>4, <1>7, <2>1
<1>. QED BY <1>5, <1>6, <1>7

\* The empty Node is one.
LEMMA NoNodeType == NoNode \in NodeStruct
<1>1. <<>> \in Seq(Value)
    OBVIOUS
<1>. QED BY <1>1, ValuesAreNoFile DEF NoNode, NodeStruct

\* A peer's host file is a file.
LEMMA PeerFileType ==
    ASSUME NEW p \in Peer
    PROVE  PeerFile(p) \in File
<1>1. p \in Value
    BY DEF Value, Name
<1>2. Line("Subnet", p) \in TextLine /\ KeyLine(p) \in TextLine
    BY <1>1, LineType DEF KeyLine, Key
<1>. QED BY <1>2 DEF PeerFile, File

\* The host file of an own identity, before and after its key has been added.
LEMMA OwnNodeReadBack ==
    ASSUME NEW k \in Identity
    PROVE  /\ MarshalNode(OwnNode(k)) \in File
           /\ Append(MarshalNode(OwnNode(k)), KeyLine(k)) \in File
           /\ ReadFile(MarshalNode(OwnNode(k)), NoNode) # NoFile
           /\ ReadFile(MarshalNode(OwnNode(k)), NoNode).Subnet # Zero
           /\ ReadFile(Append(MarshalNode(OwnNode(k)), KeyLine(k)), NoNode) # NoFile
           /\ ReadFile(Append(MarshalNode(OwnNode(k)), KeyLine(k)), NoNode).Subnet # Zero
           /\ KeyOf(Append(MarshalNode(OwnNode(k)), KeyLine(k))) = k
<1>. DEFINE ls == Line("Subnet", k)
            lp == Line("Port", k)
            lk == KeyLine(k)
            file == MarshalNode(OwnNode(k))
            whole == Append(file, lk)
<1>1. k # Zero /\ k \in Value /\ k \in PortValue
    BY NodeDirAssumption DEF Identity, Value, Name, PortValue, Zero
<1>2. ls \in TextLine /\ lp \in TextLine /\ lk \in TextLine
    BY <1>1, LineType DEF KeyLine, Key
<1>3. /\ ls.key = "Subnet" /\ ls.value = k /\ lp.key = "Port" /\ lp.value = k
      /\ lk.key = "PublicKey" /\ lk.value = k
    BY DEF Line, KeyLine
<1>4. ls.key # NoSeparator.key /\ lp.key # NoSeparator.key /\ lk.key # NoSeparator.key
    <2>1. NoSeparator.key \notin {"Subnet", "Port", "PublicKey"}
        BY DEF NoSeparator, Line
    <2>. QED BY <1>3, <2>1
<1>5. file = <<ls>> \o <<lp>> \o <<>>
    BY <1>1 DEF MarshalNode, OwnNode, NoNode, Field
<1>6. file = Append(Append(<<>>, ls), lp)
    <2>. HIDE DEF ls, lp
    <2>1. <<ls>> \o <<lp>> \o <<>> = Append(Append(<<>>, ls), lp)
        OBVIOUS
    <2>. QED BY <1>5, <2>1
<1>. DEFINE f0 == <<>>
            f1 == Append(f0, ls)
            f2 == Append(f1, lp)
<1>. HIDE DEF ls, lp, lk
<1>7. f0 \in Seq(TextLine) /\ f1 \in Seq(TextLine) /\ f2 \in Seq(TextLine)
    BY <1>2
<1>8. file = f2 /\ whole = Append(f2, lk)
    BY <1>6
<1>. HIDE DEF f0, f1, f2, file
<1>9. file \in File /\ whole \in File
    BY <1>2, <1>7, <1>8 DEF File
<1>. DEFINE u1 == ParseLine(NoNode, ls)
            u2 == ParseLine(u1, lp)
            u3 == ParseLine(u2, lk)
<1>10. Unmarshal(file, NoNode) = u2 /\ Unmarshal(whole, NoNode) = u3
    <2>1. Unmarshal(f0, NoNode) = NoNode
        BY UnmarshalEmpty DEF f0
    <2>2. Unmarshal(f1, NoNode) = u1
        BY <1>2, <1>7, <2>1, UnmarshalAppend DEF f1
    <2>3. Unmarshal(f2, NoNode) = u2
        BY <1>2, <1>7, <2>2, UnmarshalAppend DEF f2
    <2>4. Unmarshal(Append(f2, lk), NoNode) = u3
        BY <1>2, <1>7, <2>3, UnmarshalAppend
    <2>. QED BY <1>8, <2>3, <2>4
<1>11. u1 = [NoNode EXCEPT !.Subnet = k]
    BY <1>2, <1>3, <1>4, NoNodeType, ParseNodeLine
<1>. HIDE DEF u1
<1>12. u1 \in NodeStruct /\ u1.Subnet = k
    BY <1>1, <1>11, NoNodeType DEF NodeStruct
<1>13. u2 = [u1 EXCEPT !.Port = k % 65536]
    BY <1>1, <1>2, <1>3, <1>4, <1>12, ParseNodeLine
<1>. HIDE DEF u2
<1>14. u2 \in NodeStruct /\ u2.Subnet = k
    BY <1>1, <1>12, <1>13, PortModulo DEF NodeStruct
<1>15. u3 = [u2 EXCEPT !.PublicKey = k]
    BY <1>2, <1>3, <1>4, <1>14, ParseNodeLine
<1>. HIDE DEF u3
<1>16. u3 \in NodeStruct /\ u3.Subnet = k /\ u3.PublicKey = k
    BY <1>1, <1>14, <1>15 DEF NodeStruct
<1>17. ReadFile(file, NoNode) = u2 /\ ReadFile(whole, NoNode) = u3
    BY <1>9, <1>10, ValuesAreNoFile DEF ReadFile
<1>18. KeyOf(whole) = k
    BY <1>16, <1>17, ValuesAreNoFile DEF KeyOf
<1>. QED BY <1>1, <1>9, <1>14, <1>16, <1>17, <1>18, ValuesAreNoFile DEF file, lk

\* A torn file has lines of the whole one, with a value or without.
LEMMA TornLines ==
    ASSUME NEW lines \in File, NEW f \in Torn(lines)
    PROVE  /\ f \in File
           /\ \A i \in 1..Len(f) :
                 \/ f[i] = NoSeparator
                 \/ \E n \in 1..Len(lines) : f[i] = lines[n] \/ f[i] = Line(lines[n].key, Zero)
<1>1. PICK n \in 1..Len(lines) :
          LET whole == SubSeq(lines, 1, n - 1)
          IN  f \in {whole, Append(whole, NoSeparator), Append(whole, Line(lines[n].key, Zero))}
    <2>1. DOMAIN lines = 1..Len(lines)
        BY DEF File
    <2>. QED BY <2>1, Zenon DEF Torn
<1>. DEFINE whole == SubSeq(lines, 1, n - 1)
<1>2. whole \in Seq(TextLine) /\ Len(whole) = n - 1 /\ \A i \in 1..(n - 1) : whole[i] = lines[i]
    BY DEF File
<1>3. lines[n] \in TextLine
    BY DEF File
<1>4. NoSeparator \in TextLine
    BY ValuesAreNoFile, LineType DEF NoSeparator, UnknownKey, Key, Line
<1>5. Line(lines[n].key, Zero) \in TextLine
    BY <1>3, ValuesAreNoFile DEF TextLine, Line
<1>. HIDE DEF whole
<1>6. CASE f = whole
    BY <1>2, <1>6 DEF File
<1>7. CASE f = Append(whole, NoSeparator)
    BY <1>2, <1>4, <1>7 DEF File
<1>8. CASE f = Append(whole, Line(lines[n].key, Zero))
    BY <1>2, <1>5, <1>8 DEF File
<1>. QED BY <1>1, <1>6, <1>7, <1>8 DEF whole

-----------------------------------------------------------------------------
(* Files that are appended to.                                             *)

\* What follows the first END line is part of the lines.
LEMMA BeyondType ==
    ASSUME NEW lines \in File
    PROVE  Beyond(lines) \in File
<1>. DEFINE ends == {i \in DOMAIN lines : lines[i].key = "PublicKey" /\ lines[i].value # Zero}
            m == Min(ends)
<1>1. DOMAIN lines = 1..Len(lines) /\ Len(lines) \in Nat
    BY DEF File
<1>2. CASE ends = {}
    <2>1. Beyond(lines) = <<>>
        BY <1>2, Zenon DEF Beyond
    <2>. QED BY <2>1 DEF File
<1>3. CASE ends # {}
    <2>1. ends \subseteq Nat
        BY <1>1
    <2>2. \E x \in ends : \A y \in ends : x <= y
        BY <1>3, <2>1, Least
    <2>3. m \in ends
        BY <2>2 DEF Min
    <2>4. m \in 1..Len(lines)
        BY <1>1, <2>3
    <2>5. Beyond(lines) = SubSeq(lines, m + 1, Len(lines))
        BY <1>3, Zenon DEF Beyond
    <2>. HIDE DEF m, ends
    <2>. QED BY <1>1, <2>4, <2>5 DEF File
<1>. QED BY <1>2, <1>3

\* Appending makes a file of a file.
LEMMA BehindType ==
    ASSUME NEW file \in File, NEW lines \in File
    PROVE  Behind(file, lines) \in File
<1>1. file \o lines \in File
    BY DEF File
<1>2. CASE ~ Ragged(file) \/ lines = <<>>
    BY <1>1, <1>2 DEF Behind
<1>3. CASE Ragged(file) /\ lines # <<>>
    <2>1. file # <<>> /\ Len(file) \in Nat \ {0} /\ Len(lines) \in Nat \ {0}
        BY <1>3 DEF Ragged, File
    <2>2. Last(file) \in TextLine /\ Head(lines) \in TextLine
        BY <1>3, <2>1 DEF Last, File
    <2>3. Merged(Last(file), Head(lines)) \in TextLine
        <3>1. Head(lines).value \in Value
            BY <2>2, LineTypes
        <3>2. Line(UnknownKey, Head(lines).value) \in TextLine
            BY <3>1, LineType DEF Key
        <3>. QED BY <2>2, <3>2 DEF Merged
    <2>4. CASE Last(file).key = "PublicKey"
        <3>1. Beyond(lines) \in File
            BY BeyondType
        <3>2. Behind(file, lines) = file \o Beyond(lines)
            BY <1>3, <2>4 DEF Behind
        <3>. QED BY <3>1, <3>2 DEF File
    <2>5. CASE Last(file).key # "PublicKey"
        <3>. DEFINE x == Merged(Last(file), Head(lines))
        <3>1. Front(file) \in File
            BY <2>1 DEF Front, File
        <3>2. Tail(lines) \in File
            BY <2>1 DEF File
        <3>3. Behind(file, lines) = Front(file) \o <<x>> \o Tail(lines)
            BY <1>3, <2>5 DEF Behind
        <3>4. x \in TextLine
            BY <2>3
        <3>. HIDE DEF x
        <3>5. <<x>> \in File
            BY <3>4 DEF File
        <3>6. Front(file) \o <<x>> \in File
            BY <3>1, <3>5 DEF File
        <3>. QED BY <3>2, <3>3, <3>6 DEF File
    <2>. QED BY <2>4, <2>5
<1>. QED BY <1>2, <1>3

\* So does the newline at the end.
LEMMA EndedType ==
    ASSUME NEW lines \in File
    PROVE  Ended(lines) \in File
<1>1. CASE lines # <<>> /\ Last(lines) = NoSeparator
    <2>1. Len(lines) \in Nat \ {0}
        BY <1>1 DEF File
    <2>2. Front(lines) \in File
        BY <2>1 DEF Front, File
    <2>3. 1 \in Value
        BY NodeDirAssumption DEF Value, Name, Identity
    <2>4. Line(NoSeparator.key, 1) \in TextLine
        BY <2>3, LineType DEF Key
    <2>5. Ended(lines) = Append(Front(lines), Line(NoSeparator.key, 1))
        BY <1>1 DEF Ended
    <2>. QED BY <2>2, <2>4, <2>5 DEF File
<1>2. CASE ~ (lines # <<>> /\ Last(lines) = NoSeparator)
    BY <1>2 DEF Ended
<1>. QED BY <1>1, <1>2

\* The whole lines of p's host file.
PeerLines(p) == {Line("Subnet", p), KeyLine(p)}

\* A file of such lines has none that is cut, and p's whole host file keeps a newline
\* behind it.
LEMMA PeerLinesWhole ==
    ASSUME NEW p \in Peer
    PROVE  /\ PeerFile(p) \in Seq(PeerLines(p)) /\ Ended(PeerFile(p)) = PeerFile(p)
           /\ Seq(PeerLines(p)) \subseteq File
           /\ \A file \in Seq(PeerLines(p)) : \A lines : Behind(file, lines) = file \o lines
<1>1. p # Zero /\ p \in Value
    BY NodeDirAssumption DEF Value, Name, Zero
<1>2. PeerLines(p) \subseteq TextLine /\ \A x \in PeerLines(p) : x.value # Zero /\ x.key # NoSeparator.key
    <2>1. Line("Subnet", p) \in TextLine /\ KeyLine(p) \in TextLine
        BY <1>1, LineType DEF KeyLine, Key
    <2>2. Line("Subnet", p).value = p /\ KeyLine(p).value = p
        BY DEF KeyLine, Line
    <2>3. Line("Subnet", p).key # NoSeparator.key /\ KeyLine(p).key # NoSeparator.key
        BY DEF KeyLine, Line, NoSeparator
    <2>. QED BY <1>1, <2>1, <2>2, <2>3 DEF PeerLines
<1>3. PeerFile(p) \in Seq(PeerLines(p))
    BY DEF PeerFile, PeerLines
<1>4. Ended(PeerFile(p)) = PeerFile(p)
    <2>1. Last(PeerFile(p)) = KeyLine(p)
        BY DEF PeerFile, Last
    <2>2. KeyLine(p) # NoSeparator
        BY <1>2 DEF PeerLines
    <2>. QED BY <2>1, <2>2 DEF Ended
<1>5. \A file \in Seq(PeerLines(p)) : \A lines : Behind(file, lines) = file \o lines
    <2>. SUFFICES ASSUME NEW file \in Seq(PeerLines(p)), NEW lines
                  PROVE  Behind(file, lines) = file \o lines
        OBVIOUS
    <2>1. ~ Ragged(file)
        <3>1. file # <<>> => Last(file) \in PeerLines(p)
            BY DEF Last
        <3>. QED BY <1>2, <3>1 DEF Ragged
    <2>. QED BY <2>1 DEF Behind
<1>6. Seq(PeerLines(p)) \subseteq File
    BY <1>2 DEF File
<1>. QED BY <1>3, <1>4, <1>5, <1>6

\* However many of its lines are there already, p's host file behind them is read as it
\* is by itself.
LEMMA PeerFileRead ==
    ASSUME NEW p \in Peer, NEW file \in Seq(PeerLines(p))
    PROVE  ReadFile(file \o PeerFile(p), NoNode) = ReadFile(PeerFile(p), NoNode)
<1>. DEFINE I == {n \in NodeStruct : n.Address = <<>> /\ n.Port = Zero}
            sub == Line("Subnet", p)
            whole == [Subnet |-> p, Address |-> <<>>, Port |-> Zero, PublicKey |-> p]
<1>1. /\ p \in Value /\ sub \in TextLine /\ KeyLine(p) \in TextLine
      /\ sub.key = "Subnet" /\ sub.value = p /\ KeyLine(p).key = "PublicKey" /\ KeyLine(p).value = p
      /\ sub.key # NoSeparator.key /\ KeyLine(p).key # NoSeparator.key
    <2>1. p \in Value
        BY DEF Value, Name
    <2>2. sub \in TextLine /\ KeyLine(p) \in TextLine
        BY <2>1, LineType DEF KeyLine, Key
    <2>. QED BY <2>1, <2>2 DEF KeyLine, Line, NoSeparator
<1>. HIDE DEF sub
<1>2. NoNode \in I
    BY NoNodeType DEF NoNode
<1>3. \A n \in NodeStruct : /\ ParseLine(n, sub) = [n EXCEPT !.Subnet = p]
                            /\ ParseLine(n, KeyLine(p)) = [n EXCEPT !.PublicKey = p]
    BY <1>1, ParseNodeLine
<1>4. \A n \in I : ParseLine(n, sub) \in I /\ ParseLine(n, KeyLine(p)) \in I
    BY <1>1, <1>3 DEF NodeStruct
<1>5. ASSUME NEW n \in I
      PROVE  Unmarshal(PeerFile(p), n) = whole
    <2>1. PeerFile(p) = Append(Append(<<>>, sub), KeyLine(p))
        BY DEF PeerFile, sub
    <2>2. <<>> \in Seq(TextLine) /\ Append(<<>>, sub) \in Seq(TextLine)
        BY <1>1
    <2>3. Unmarshal(Append(<<>>, sub), n) = [n EXCEPT !.Subnet = p]
        <3>1. Unmarshal(<<>>, n) = n
            BY UnmarshalEmpty, Zenon
        <3>2. Unmarshal(Append(<<>>, sub), n) = ParseLine(Unmarshal(<<>>, n), sub)
            BY <1>1, <2>2, UnmarshalAppend, Zenon
        <3>. QED BY <1>3, <3>1, <3>2
    <2>4. [n EXCEPT !.Subnet = p] \in NodeStruct
        BY <1>1 DEF NodeStruct
    <2>5. Unmarshal(PeerFile(p), n) = [[n EXCEPT !.Subnet = p] EXCEPT !.PublicKey = p]
        <3>1. Unmarshal(PeerFile(p), n) =
                 ParseLine(Unmarshal(Append(<<>>, sub), n), KeyLine(p))
            BY <1>1, <2>1, <2>2, UnmarshalAppend, Zenon
        <3>. QED BY <1>3, <2>3, <2>4, <3>1
    <2>6. [[n EXCEPT !.Subnet = p] EXCEPT !.PublicKey = p] = whole
        <3>. DEFINE u == [n EXCEPT !.Subnet = p]
                    w == [u EXCEPT !.PublicKey = p]
        <3>1. /\ u \in NodeStruct /\ u.Subnet = p /\ u.Address = <<>> /\ u.Port = Zero
            BY <2>4 DEF NodeStruct
        <3>. HIDE DEF u
        <3>2. w \in NodeStruct /\ w.Subnet = p /\ w.Address = <<>> /\ w.Port = Zero /\ w.PublicKey = p
            BY <1>1, <3>1 DEF NodeStruct
        <3>. HIDE DEF w
        <3>3. w = [Subnet |-> p, Address |-> <<>>, Port |-> Zero, PublicKey |-> p]
            BY <3>2 DEF NodeStruct
        <3>. QED BY <3>3 DEF u, w
    <2>. QED BY <2>5, <2>6
<1>6. Unmarshal(file, NoNode) \in I
    <2>1. \A t \in I : \A i \in 1..Len(file) : ParseLine(t, file[i]) \in I
        <3>1. \A i \in 1..Len(file) : file[i] = sub \/ file[i] = KeyLine(p)
            BY DEF PeerLines, sub
        <3>. QED BY <1>4, <3>1
    <2>. HIDE DEF I
    <2>. QED BY <1>2, <2>1, UnmarshalPreserves
<1>7. Unmarshal(file \o PeerFile(p), NoNode) = Unmarshal(PeerFile(p), Unmarshal(file, NoNode))
    BY PeerLinesWhole, UnmarshalConcat
<1>8. PeerFile(p) # NoFile /\ file \o PeerFile(p) # NoFile
    <2>1. file \o PeerFile(p) \in File /\ PeerFile(p) \in File
        BY PeerLinesWhole DEF File
    <2>. QED BY <2>1, ValuesAreNoFile
<1>. HIDE DEF I, whole
<1>. QED BY <1>2, <1>5, <1>6, <1>7, <1>8 DEF ReadFile
=============================================================================
