---------------------------- MODULE JoinProofs ----------------------------
(***************************************************************************)
(* Proofs about the boot protocol, for any nodes, joins, restarts and      *)
(* failures.  No step takes a host file away (Grows), so that what one     *)
(* exchange leaves undone the next one, with all of the server's files,    *)
(* does again (Again).  The versions are those of SingleSource; the host   *)
(* files are those of their owners as long as no owner changes its own.    *)
(***************************************************************************)
EXTENDS Join, TLAPS

Has(n, m) == hosts[n][m] # NoFile
Asking == {"off", "ready", "asking"}
Answered == {"importing", "imported", "done"}

\* Files that must be there: a node's own, the one that a request carries, those
\* of all entries, the joiner's when the server has added it, the one that was
\* imported, and those of the answer in the server's directory.
Files ==
    /\ \A n \in Node : Has(n, n)
    /\ \A n, m \in Node : entities[n][m] # Absent \/ saved[n][m] # Absent => Has(n, m)
    /\ \A w \in Joins :
          /\ serving[w] # "none" => sent[w] # NoFile
          /\ serving[w] \in {"added", "answered"} => Has(Server(w), Joiner(w))
          /\ client[w] \in Answered => Has(Server(w), Joiner(w))
          /\ client[w] = "imported" => Has(Joiner(w), current[w])
          /\ \A m \in Node : archive[w][m] # NoFile => Has(Server(w), m)

\* A handler that has not answered has a client that has no answer.
Asked == \A w \in Joins : serving[w] \in {"asked", "added"} => client[w] \in Asking

\* The server's own file is in its answer, and imported when the join is done.
Marked ==
    \A w \in Joins :
       /\ client[w] \in Answered => \/ Has(Joiner(w), Server(w))
                                    \/ archive[w][Server(w)] # NoFile
       /\ client[w] = "done" => Server(w) \in loaded[Joiner(w)] \/ reload[Joiner(w)]

\* The exchange w will bring its joiner the file m again.
Again(w, m) == /\ Has(Server(w), m)
               /\ client[w] \in {"ready", "asking"} \/ archive[w][m] # NoFile

\* What a running node has the file of and no entry for.
Orphan(n, m) == n \in up /\ Has(n, m) /\ entities[n][m] = Absent

Adopted(n, m) ==
    \/ \E w \in Joins : /\ Server(w) = n /\ Joiner(w) = m
                        /\ serving[w] \in {"added", "answered"}
    \/ \E w \in Joins : Joiner(w) = n /\ current[w] = m /\ client[w] = "imported"
    \/ failures > 0 /\ \E w \in Joins : Server(w) = n /\ Joiner(w) = m /\ client[w] \in Asking
    \/ failures > 0 /\ \E w \in Joins : Joiner(w) = n /\ Again(w, m)

Adopting == \A n, m \in Node : Orphan(n, m) => Adopted(n, m)

IInv == TypeOK /\ Files /\ Asked /\ Marked /\ Adopting

\* The ends of a join.
LEMMA Ends == ASSUME NEW w \in Joins
              PROVE  /\ Server(w) \in Node /\ Joiner(w) \in Node /\ Joiner(w) # Server(w)
                     /\ w = <<Joiner(w), Server(w)>>
  BY JoinsAssumption DEF Server, Joiner

\* The map after start-up knows the ssd file, the host files, and the node itself.
LEMMA Knows ==
    ASSUME TypeOK, NEW n \in Node
    PROVE  /\ Restored(n) \in [Node -> Entry]
           /\ \A m \in Node : Restored(n)[m] # Absent <=>
                                 (saved[n][m] # Absent \/ Has(n, m) \/ m = n)
<1>1. saved[n] \in [Node -> Entry] /\ clock[n] + 1 \in Nat
  BY DEF TypeOK, EndsWithProcess
<1>2. PutAllUnversioned(saved[n], FilesOf(n)) \in [Node -> Entry]
  BY <1>1 DEF PutAllUnversioned, Entry, Version
<1>3. \A m \in Node : PutAllUnversioned(saved[n], FilesOf(n))[m] # Absent <=>
                         (saved[n][m] # Absent \/ Has(n, m))
  BY <1>1 DEF PutAllUnversioned, IsNewer, Absent, FilesOf, Has, Entry, Version
<1> QED
  BY <1>1, <1>2, <1>3 DEF Restored, Put, Absent, Entry, Version

\* Initially every node has its own host file and is down.
LEMMA InvInit == Init => IInv
<1> SUFFICES ASSUME Init PROVE IInv
  OBVIOUS
<1>1. TypeOK
  <2>1. \A n \in Node : [Nothing EXCEPT ![n] = 0] \in [Node -> File] /\ Nothing \in [Node -> File]
    BY DEF Nothing, File, NoFile
  <2>2. \A n \in Node : Empty(Node) \in [Node -> Entry]
    BY DEF Empty, Entry, Absent
  <2>3. current \in [Joins -> Node]
    BY Ends DEF Init
  <2>4. failures \in 0..MaxFailures
    BY LimitsAssumption DEF Init
  <2>5. hosts \in [Node -> [Node -> File]] /\ archive \in [Joins -> [Node -> File]]
    BY <2>1, Ends DEF Init
  <2> QED
    BY <2>2, <2>3, <2>4, <2>5 DEF Init, TypeOK, EndsWithProcess, File
<1>2. Files
  <2>1. \A n, m \in Node : hosts[n][m] = IF n = m THEN 0 ELSE NoFile
    BY DEF Init, Nothing
  <2> QED
    BY <2>1 DEF Init, Files, Has, Empty, Answered, Nothing, NoFile
<1>3. Asked /\ Marked /\ Adopting
  BY DEF Init, Asked, Marked, Adopting, Orphan, Answered
<1> QED
  BY <1>1, <1>2, <1>3 DEF IInv

\* What the exchange v does for the file y of x, it goes on to do.
Keeps(v, x, y) ==
    /\ Server(v) = x /\ Joiner(v) = y =>
          /\ serving[v] \in {"added", "answered"} => serving'[v] \in {"added", "answered"}
          /\ client[v] \in Asking => client'[v] \in Asking
    /\ Joiner(v) = x =>
          /\ current[v] = y /\ client[v] = "imported" => current'[v] = y /\ client'[v] = "imported"
          /\ Again(v, y) => client'[v] \in {"ready", "asking"} \/ archive'[v][y] # NoFile

Grows == /\ \A n, m \in Node : Has(n, m) => Has(n, m)'
         /\ failures > 0 => failures' > 0

\* A file that was adopted stays so, while files and failures only grow.
LEMMA AdoptingKept ==
    ASSUME Adopting, Grows,
           \A x, y \in Node : Orphan(x, y)' =>
              Adopted(x, y)' \/ (Orphan(x, y) /\ \A v \in Joins : Keeps(v, x, y))
    PROVE  Adopting'
<1> SUFFICES ASSUME NEW x \in Node, NEW y \in Node, Orphan(x, y), Adopted(x, y),
                    \A v \in Joins : Keeps(v, x, y)
             PROVE  Adopted(x, y)'
  BY DEF Adopting
<1>1. CASE \E w \in Joins : /\ Server(w) = x /\ Joiner(w) = y
                            /\ serving[w] \in {"added", "answered"}
  BY <1>1 DEF Keeps, Adopted
<1>2. CASE \E w \in Joins : Joiner(w) = x /\ current[w] = y /\ client[w] = "imported"
  BY <1>2 DEF Keeps, Adopted
<1>3. CASE failures > 0 /\ \E w \in Joins : Server(w) = x /\ Joiner(w) = y /\ client[w] \in Asking
  BY <1>3 DEF Keeps, Adopted, Grows
<1>4. CASE failures > 0 /\ \E w \in Joins : Joiner(w) = x /\ Again(w, y)
  <2>1. PICK w \in Joins : Joiner(w) = x /\ Again(w, y)
    BY <1>4
  <2>2. Server(w) \in Node
    BY Ends
  <2> QED
    BY <1>4, <2>1, <2>2 DEF Keeps, Adopted, Grows, Again
<1> QED
  BY <1>1, <1>2, <1>3, <1>4 DEF Adopted

\* Failures are counted.
LEMMA FailsBound ==
    ASSUME failures \in 0..MaxFailures, failures < MaxFailures, failures' = failures + 1
    PROVE  failures' \in 0..MaxFailures /\ failures' > 0
  BY LimitsAssumption

-----------------------------------------------------------------------------
(* Each action keeps the invariant.                                        *)

\* Start-up gives every host file an entry, so the node that starts has no orphans.
LEMMA InvBoot == ASSUME IInv, NEW n \in Node, Boot(n) PROVE IInv'
<1> USE DEF Boot, IInv, discVars, tincVars, clientVars
<1>0. /\ Restored(n) \in [Node -> Entry]
      /\ \A m \in Node : Restored(n)[m] # Absent <=> saved[n][m] # Absent \/ Has(n, m) \/ m = n
  BY Knows
<1>1. TypeOK'
  <2>1. /\ entities' \in [Node -> [Node -> Entry]] /\ saved' \in [Node -> [Node -> Entry]]
    BY <1>0 DEF TypeOK, EndsWithProcess
  <2>5. clock' \in [Node -> Nat]
    BY DEF TypeOK, EndsWithProcess
  <2>2. loaded' \in [Node -> SUBSET Node]
    BY DEF TypeOK, EndsWithProcess, FilesOf
  <2>3. /\ client' \in [Joins -> {"off", "ready", "asking", "importing", "imported", "done"}]
        /\ \A w \in Joins : /\ client'[w] = "off" <=> Joiner(w) \notin up'
                            /\ archive'[w] # Nothing => client'[w] \in {"importing", "imported"}
                            /\ serving'[w] # "none" => Server(w) \in up'
    BY DEF TypeOK, EndsWithProcess
  <2>4. \A p \in Node \ up' : ~ reload'[p] /\ loaded'[p] = {}
    BY DEF TypeOK, EndsWithProcess
  <2> QED
    BY <2>1, <2>2, <2>3, <2>4, <2>5 DEF TypeOK, EndsWithProcess
<1>2. Grows
  BY Ends DEF TypeOK, EndsWithProcess, Has, File, NoFile, Files, Grows
<1>3. Files'
  BY Ends, <1>0, <1>2 DEF TypeOK, EndsWithProcess, Files, Has, Answered, Nothing, Grows
<1>4. Asked'
  BY DEF TypeOK, EndsWithProcess, Asked, Asking
<1>5. Marked'
  BY Ends, <1>2 DEF TypeOK, EndsWithProcess, Marked, Files, Has, Answered, Nothing, Grows
<1>6. Adopting'
  <2>1. ASSUME NEW x \in Node, NEW y \in Node, Orphan(x, y)'
        PROVE  Orphan(x, y) /\ \A v \in Joins : Keeps(v, x, y)
    BY <2>1, <1>0, Ends DEF TypeOK, EndsWithProcess, Orphan, Keeps, Again, Has, Asking, Nothing
  <2> QED
    BY <1>2, <2>1, AdoptingKept
<1> QED
  BY <1>1, <1>3, <1>4, <1>5, <1>6

\* The crash of a node ends its clients and handlers; the files stay.
LEMMA InvCrash == ASSUME IInv, NEW n \in Node, Crash(n) PROVE IInv'
<1> USE DEF Crash, Empty, IInv, discVars, tincVars, clientVars
<1>1. TypeOK'
  <2>1. Empty(Node) \in [Node -> Entry] /\ Nothing \in [Node -> File]
    BY DEF Entry, Absent, File, Nothing
  <2>2. entities' \in [Node -> [Node -> Entry]] /\ archive' \in [Joins -> [Node -> File]]
    BY <2>1 DEF TypeOK, EndsWithProcess
  <2>3. /\ client' \in [Joins -> {"off", "ready", "asking", "importing", "imported", "done"}]
        /\ serving' \in [Joins -> {"none", "asked", "added", "answered"}]
    BY DEF TypeOK, EndsWithProcess
  <2>4. \A w \in Joins : client'[w] = "off" <=> Joiner(w) \notin up'
    BY Ends DEF TypeOK, EndsWithProcess
  <2>5. \A w \in Joins : archive'[w] # Nothing => client'[w] \in {"importing", "imported"}
    BY DEF TypeOK, EndsWithProcess
  <2>6. \A w \in Joins : serving'[w] # "none" => Server(w) \in up'
    BY DEF TypeOK, EndsWithProcess
  <2>7. loaded' \in [Node -> SUBSET Node] /\ reload' \in [Node -> BOOLEAN]
    BY DEF TypeOK
  <2>8. \A p \in Node \ up' : ~ reload'[p] /\ loaded'[p] = {}
    BY DEF TypeOK, EndsWithProcess
  <2>9. EndsWithProcess'
    BY <2>4, <2>8, <2>5, <2>6 DEF EndsWithProcess
  <2>10. /\ up' \subseteq Node /\ clock' \in [Node -> Nat] /\ hosts' \in [Node -> [Node -> File]]
        /\ saved' \in [Node -> [Node -> Entry]] /\ sent' \in [Joins -> File]
        /\ current' \in [Joins -> Node] /\ failures' \in 0..MaxFailures
    BY DEF TypeOK, EndsWithProcess
  <2> QED
    BY <2>2, <2>3, <2>7, <2>10, <2>9 DEF TypeOK
<1>2. Grows
  BY Ends DEF TypeOK, EndsWithProcess, Has, File, NoFile, Files, Grows
<1>3. Files'
  BY Ends, <1>2 DEF TypeOK, EndsWithProcess, Files, Has, Answered, Nothing, Grows
<1>4. Asked'
  BY DEF TypeOK, EndsWithProcess, Asked, Asking
<1>5. Marked'
  BY Ends, <1>2 DEF TypeOK, EndsWithProcess, Marked, Files, Has, Answered, Nothing, Grows
<1>6. Adopting'
  <2>1. ASSUME NEW x \in Node, NEW y \in Node, Orphan(x, y)'
        PROVE  Orphan(x, y) /\ \A v \in Joins : Keeps(v, x, y)
    BY <2>1, Ends DEF TypeOK, EndsWithProcess, Orphan, Keeps, Again, Has, Asking, Nothing
  <2> QED
    BY <1>2, <2>1, AdoptingKept
<1> QED
  BY <1>1, <1>3, <1>4, <1>5, <1>6

\* An edit replaces a node's own host file, while it is down.
LEMMA InvEdit == ASSUME IInv, NEW n \in Node, Edit(n) PROVE IInv'
<1> USE DEF Edit, IInv, discVars, tincVars, clientVars
<1>1. TypeOK'
  <2>1. hosts[n][n] + 1 \in Nat
    BY DEF TypeOK, EndsWithProcess, File, NoFile, Files, Has
  <2>2. hosts' \in [Node -> [Node -> File]]
    BY <2>1 DEF TypeOK, EndsWithProcess, File
  <2> QED
    BY <2>2 DEF TypeOK, EndsWithProcess
<1>2. Grows
  BY Ends DEF TypeOK, EndsWithProcess, Has, File, NoFile, Files, Grows
<1>3. Files'
  BY Ends, <1>2 DEF TypeOK, EndsWithProcess, Files, Has, Answered, Nothing, Grows
<1>4. Asked'
  BY DEF TypeOK, EndsWithProcess, Asked, Asking
<1>5. Marked'
  BY Ends, <1>2 DEF TypeOK, EndsWithProcess, Marked, Files, Has, Answered, Nothing, Grows
<1>6. Adopting'
  <2>1. ASSUME NEW x \in Node, NEW y \in Node, Orphan(x, y)'
        PROVE  Orphan(x, y) /\ \A v \in Joins : Keeps(v, x, y)
    BY <2>1, Ends DEF TypeOK, EndsWithProcess, Orphan, Keeps, Again, Has, Asking, Nothing
  <2> QED
    BY <1>2, <2>1, AdoptingKept
<1> QED
  BY <1>1, <1>3, <1>4, <1>5, <1>6

\* tincd loads all host files, the server's among them when a join is done.
LEMMA InvHup == ASSUME IInv, NEW n \in Node, Hup(n) PROVE IInv'
<1> USE DEF Hup, FilesOf, IInv, discVars, tincVars, clientVars
<1>1. TypeOK'
  BY Ends DEF TypeOK, EndsWithProcess, File, Nothing
<1>2. Grows
  BY Ends DEF TypeOK, EndsWithProcess, Has, File, NoFile, Files, Grows
<1>3. Files'
  BY Ends, <1>2 DEF TypeOK, EndsWithProcess, Files, Has, Answered, Nothing, Grows
<1>4. Asked'
  BY DEF TypeOK, EndsWithProcess, Asked, Asking
<1>5. Marked'
  BY Ends, <1>2 DEF TypeOK, EndsWithProcess, Marked, Files, Has, Answered, Nothing, Grows
<1>6. Adopting'
  <2>1. ASSUME NEW x \in Node, NEW y \in Node, Orphan(x, y)'
        PROVE  Orphan(x, y) /\ \A v \in Joins : Keeps(v, x, y)
    BY <2>1, Ends DEF TypeOK, EndsWithProcess, Orphan, Keeps, Again, Has, Asking, Nothing
  <2> QED
    BY <1>2, <2>1, AdoptingKept
<1> QED
  BY <1>1, <1>3, <1>4, <1>5, <1>6

\* A merge brings a file and its entry at once.
LEMMA InvGossip == ASSUME IInv, NEW n \in Node, NEW p \in Node, NEW m \in Node, Gossip(n, p, m) PROVE IInv'
<1> USE DEF Gossip, Put, IInv, discVars, tincVars, clientVars
<1>1. TypeOK'
  BY Ends DEF TypeOK, EndsWithProcess, File, Nothing
<1>2. Grows
  BY Ends DEF TypeOK, EndsWithProcess, Has, File, NoFile, Files, Grows
<1>3. Files'
  BY Ends, <1>2 DEF TypeOK, EndsWithProcess, Files, Has, Answered, Nothing, Grows
<1>4. Asked'
  BY DEF TypeOK, EndsWithProcess, Asked, Asking
<1>5. Marked'
  BY Ends, <1>2 DEF TypeOK, EndsWithProcess, Marked, Files, Has, Answered, Nothing, Grows
<1>6. Adopting'
  <2>1. ASSUME NEW x \in Node, NEW y \in Node, Orphan(x, y)'
        PROVE  Orphan(x, y) /\ \A v \in Joins : Keeps(v, x, y)
    BY <2>1, Ends DEF TypeOK, EndsWithProcess, Orphan, Keeps, Again, Has, Asking, Nothing
  <2> QED
    BY <1>2, <2>1, AdoptingKept
<1> QED
  BY <1>1, <1>3, <1>4, <1>5, <1>6

\* The file that AddHost writes is adopted by its handler.
LEMMA InvServe == ASSUME IInv, NEW w \in Joins, Serve(w) PROVE IInv'
<1> USE DEF Serve, IInv, discVars, tincVars, clientVars
<1>1. TypeOK'
  BY Ends DEF TypeOK, EndsWithProcess, File, Nothing
<1>2. Grows
  BY Ends DEF TypeOK, EndsWithProcess, Has, File, NoFile, Files, Grows
<1>3. Files'
  BY Ends, <1>2 DEF TypeOK, EndsWithProcess, Files, Has, Answered, Nothing, Grows
<1>4. Asked'
  BY DEF TypeOK, EndsWithProcess, Asked, Asking
<1>5. Marked'
  BY Ends, <1>2 DEF TypeOK, EndsWithProcess, Marked, Files, Has, Answered, Nothing, Grows
<1>6. Adopting'
  <2>1. Adopted(Server(w), Joiner(w))'
    BY Ends DEF TypeOK, EndsWithProcess, Adopted, Again, Asked, Asking, Files, Has
  <2>2. ASSUME NEW x \in Node, NEW y \in Node, Orphan(x, y)', x # Server(w) \/ y # Joiner(w)
        PROVE  Orphan(x, y) /\ \A v \in Joins : Keeps(v, x, y)
    BY <2>2, Ends DEF TypeOK, EndsWithProcess, Orphan, Keeps, Again, Has, Asking, Nothing
  <2> QED
    BY <1>2, <2>1, <2>2, AdoptingKept DEF IInv
<1> QED
  BY <1>1, <1>3, <1>4, <1>5, <1>6

\* The answer has all files of the server; an exchange that was to be repeated is.
LEMMA InvAnswer == ASSUME IInv, NEW w \in Joins, Answer(w) PROVE IInv'
<1> USE DEF Answer, Hosts, IInv, discVars, tincVars, clientVars
<1>1. TypeOK'
  <2>1. archive' \in [Joins -> [Node -> File]]
    <3>1. Hosts(Server(w)) \in [Node -> File]
      BY Ends DEF TypeOK, EndsWithProcess
    <3>2. archive' = archive \/ archive' = [archive EXCEPT ![w] = Hosts(Server(w))]
      OBVIOUS
    <3> QED
      BY <3>1, <3>2 DEF TypeOK, EndsWithProcess
  <2>2. /\ client' \in [Joins -> {"off", "ready", "asking", "importing", "imported", "done"}]
        /\ serving' \in [Joins -> {"none", "asked", "added", "answered"}]
    BY DEF TypeOK, EndsWithProcess
  <2>3. \A v \in Joins : /\ client'[v] = "off" <=> Joiner(v) \notin up
                         /\ archive'[v] # Nothing => client'[v] \in {"importing", "imported"}
                         /\ serving'[v] # "none" => Server(v) \in up
    BY DEF TypeOK, EndsWithProcess
  <2> QED
    BY <2>1, <2>2, <2>3 DEF TypeOK, EndsWithProcess
<1>2. Grows
  BY Ends DEF TypeOK, EndsWithProcess, Has, File, NoFile, Files, Grows
<1>3. Files'
  BY Ends, <1>2 DEF TypeOK, EndsWithProcess, Files, Has, Answered, Nothing, Grows
<1>4. Asked'
  BY DEF TypeOK, EndsWithProcess, Asked, Asking
<1>5. Marked'
  <2>1. client[w] = "asking" => archive'[w][Server(w)] # NoFile
    BY Ends DEF TypeOK, EndsWithProcess, Files, Has
  <2>2. \A v \in Joins \ {w} : client'[v] = client[v] /\ archive'[v] = archive[v]
    BY DEF TypeOK, EndsWithProcess
  <2>3. \/ client[w] = "asking" /\ client'[w] = "importing"
        \/ client'[w] = client[w] /\ archive' = archive
    BY DEF TypeOK, EndsWithProcess
  <2> QED
    BY <2>1, <2>2, <2>3, <1>2, Ends DEF Marked, Grows, Answered
<1>6. Adopting'
  <2>1. Adopted(Server(w), Joiner(w))'
    BY Ends DEF TypeOK, EndsWithProcess, Adopted, Again, Asked, Asking, Files, Has
  <2>2. ASSUME NEW x \in Node, NEW y \in Node, Orphan(x, y)', x # Server(w) \/ y # Joiner(w)
        PROVE  Orphan(x, y) /\ \A v \in Joins : Keeps(v, x, y)
    BY <2>2, Ends DEF TypeOK, EndsWithProcess, Orphan, Keeps, Again, Has, Asking, Nothing
  <2> QED
    BY <1>2, <2>1, <2>2, AdoptingKept DEF IInv
<1> QED
  BY <1>1, <1>3, <1>4, <1>5, <1>6

\* The joiner's file has an entry from here on.
LEMMA InvJoined == ASSUME IInv, NEW w \in Joins, Joined(w) PROVE IInv'
<1> USE DEF Joined, Know, PutAllUnversioned, IsNewer, Entry, Version, Absent, IInv, discVars, tincVars, clientVars
<1>1. TypeOK'
  BY Ends DEF TypeOK, EndsWithProcess, File, Nothing
<1>2. Grows
  BY Ends DEF TypeOK, EndsWithProcess, Has, File, NoFile, Files, Grows
<1>3. Files'
  BY Ends, <1>2 DEF TypeOK, EndsWithProcess, Files, Has, Answered, Nothing, Grows
<1>4. Asked'
  BY DEF TypeOK, EndsWithProcess, Asked, Asking
<1>5. Marked'
  BY Ends, <1>2 DEF TypeOK, EndsWithProcess, Marked, Files, Has, Answered, Nothing, Grows
<1>6. Adopting'
  <2>1. ASSUME NEW x \in Node, NEW y \in Node, Orphan(x, y)'
        PROVE  Orphan(x, y) /\ \A v \in Joins : Keeps(v, x, y)
    BY <2>1, Ends DEF TypeOK, EndsWithProcess, Orphan, Keeps, Again, Has, Asking, Nothing
  <2> QED
    BY <1>2, <2>1, AdoptingKept
<1> QED
  BY <1>1, <1>3, <1>4, <1>5, <1>6

\* The joiner has no answer and goes on, so that the file is adopted by its next request.
LEMMA InvFailServe == ASSUME IInv, NEW w \in Joins, FailServe(w) PROVE IInv'
<1> USE DEF FailServe, IInv, discVars, tincVars, clientVars
<1>0. /\ hosts' \in [Node -> [Node -> File]]
      /\ \A x, y \in Node : \/ hosts'[x][y] = hosts[x][y]
                            \/ x = Server(w) /\ y = Joiner(w) /\ hosts'[x][y] = sent[w]
      /\ sent[w] # NoFile
  <2>1. sent[w] \in File /\ sent[w] # NoFile
    BY DEF TypeOK, EndsWithProcess, Files
  <2>2. CASE hosts' = hosts
    BY <2>1, <2>2 DEF TypeOK, EndsWithProcess
  <2>3. CASE hosts' = [hosts EXCEPT ![Server(w)][Joiner(w)] = sent[w]]
    BY <2>1, <2>3, Ends DEF TypeOK, EndsWithProcess
  <2> QED
    BY <2>1, <2>2, <2>3
<1>1. TypeOK'
  <2>1. failures' \in 0..MaxFailures
    BY FailsBound DEF TypeOK, EndsWithProcess
  <2> QED
    BY <1>0, <2>1 DEF TypeOK, EndsWithProcess, File, Nothing
<1>2. Grows
  <2>1. failures' > 0
    BY FailsBound DEF TypeOK, EndsWithProcess
  <2> QED
    BY <1>0, <2>1 DEF Has, Grows
<1>3. Files'
  BY Ends, <1>2 DEF TypeOK, EndsWithProcess, Files, Has, Answered, Nothing, Grows
<1>4. Asked'
  BY DEF TypeOK, EndsWithProcess, Asked, Asking
<1>5. Marked'
  BY Ends, <1>2 DEF TypeOK, EndsWithProcess, Marked, Files, Has, Answered, Nothing, Grows
<1>6. Adopting'
  <2>1. Adopted(Server(w), Joiner(w))'
    BY Ends, FailsBound DEF TypeOK, EndsWithProcess, Adopted, Again, Asked, Asking, Files, Has
  <2>2. ASSUME NEW x \in Node, NEW y \in Node, Orphan(x, y)', x # Server(w) \/ y # Joiner(w)
        PROVE  Orphan(x, y) /\ \A v \in Joins : Keeps(v, x, y)
    BY <2>2, Ends DEF TypeOK, EndsWithProcess, Orphan, Keeps, Again, Has, Asking, Nothing
  <2> QED
    BY <1>2, <2>1, <2>2, AdoptingKept DEF IInv
<1> QED
  BY <1>1, <1>3, <1>4, <1>5, <1>6

\* A request carries the joiner's own file.
LEMMA InvRequest == ASSUME IInv, NEW w \in Joins, Request(w) PROVE IInv'
<1> USE DEF Request, Goto, IInv, discVars, tincVars, clientVars
<1>1. TypeOK'
  BY Ends DEF TypeOK, EndsWithProcess, File, Nothing
<1>2. Grows
  BY Ends DEF TypeOK, EndsWithProcess, Has, File, NoFile, Files, Grows
<1>3. Files'
  BY Ends, <1>2 DEF TypeOK, EndsWithProcess, Files, Has, Answered, Nothing, Grows
<1>4. Asked'
  BY DEF TypeOK, EndsWithProcess, Asked, Asking
<1>5. Marked'
  BY Ends, <1>2 DEF TypeOK, EndsWithProcess, Marked, Files, Has, Answered, Nothing, Grows
<1>6. Adopting'
  <2>1. ASSUME NEW x \in Node, NEW y \in Node, Orphan(x, y)'
        PROVE  Orphan(x, y) /\ \A v \in Joins : Keeps(v, x, y)
    BY <2>1, Ends DEF TypeOK, EndsWithProcess, Orphan, Keeps, Again, Has, Asking, Nothing
  <2> QED
    BY <1>2, <2>1, AdoptingKept
<1> QED
  BY <1>1, <1>3, <1>4, <1>5, <1>6

\* A client without an answer asks again.
LEMMA InvFailRequest == ASSUME IInv, NEW w \in Joins, FailRequest(w) PROVE IInv'
<1> USE DEF FailRequest, Goto, IInv, discVars, tincVars, clientVars
<1>1. TypeOK'
  BY Ends, FailsBound DEF TypeOK, EndsWithProcess, File, Nothing
<1>2. Grows
  BY Ends, FailsBound DEF TypeOK, EndsWithProcess, Has, File, NoFile, Files, Grows
<1>3. Files'
  BY Ends, <1>2 DEF TypeOK, EndsWithProcess, Files, Has, Answered, Nothing, Grows
<1>4. Asked'
  BY DEF TypeOK, EndsWithProcess, Asked, Asking
<1>5. Marked'
  BY Ends, <1>2 DEF TypeOK, EndsWithProcess, Marked, Files, Has, Answered, Nothing, Grows
<1>6. Adopting'
  <2>1. ASSUME NEW x \in Node, NEW y \in Node, Orphan(x, y)'
        PROVE  Orphan(x, y) /\ \A v \in Joins : Keeps(v, x, y)
    BY <2>1, Ends DEF TypeOK, EndsWithProcess, Orphan, Keeps, Again, Has, Asking, Nothing
  <2> QED
    BY <1>2, <2>1, AdoptingKept
<1> QED
  BY <1>1, <1>3, <1>4, <1>5, <1>6

\* The file that is imported is adopted by the client.
LEMMA InvImport == ASSUME IInv, NEW w \in Joins, NEW m \in Node, Import(w, m) PROVE IInv'
<1> USE DEF Import, Goto, IInv, discVars, tincVars, clientVars
<1>1. TypeOK'
  BY Ends DEF TypeOK, EndsWithProcess, File, Nothing
<1>2. Grows
  BY Ends DEF TypeOK, EndsWithProcess, Has, File, NoFile, Files, Grows
<1>3. Files'
  BY Ends, <1>2 DEF TypeOK, EndsWithProcess, Files, Has, Answered, Nothing, Grows
<1>4. Asked'
  BY DEF TypeOK, EndsWithProcess, Asked, Asking
<1>5. Marked'
  BY Ends, <1>2 DEF TypeOK, EndsWithProcess, Marked, Files, Has, Answered, Nothing, Grows
<1>6. Adopting'
  <2>1. Adopted(Joiner(w), m)'
    BY Ends DEF TypeOK, EndsWithProcess, Adopted, Again, Asked, Asking, Files, Has
  <2>2. ASSUME NEW x \in Node, NEW y \in Node, Orphan(x, y)', x # Joiner(w) \/ y # m
        PROVE  Orphan(x, y) /\ \A v \in Joins : Keeps(v, x, y)
    BY <2>2, Ends DEF TypeOK, EndsWithProcess, Orphan, Keeps, Again, Has, Asking, Nothing
  <2> QED
    BY <1>2, <2>1, <2>2, AdoptingKept DEF IInv
<1> QED
  BY <1>1, <1>3, <1>4, <1>5, <1>6

\* The client asks again, and the server still has what it failed to import.
LEMMA InvFailImport == ASSUME IInv, NEW w \in Joins, NEW m \in Node, FailImport(w, m) PROVE IInv'
<1> USE DEF FailImport, Goto, IInv, discVars, tincVars, clientVars
<1>0. /\ hosts' \in [Node -> [Node -> File]]
      /\ \A x, y \in Node : \/ hosts'[x][y] = hosts[x][y]
                            \/ x = Joiner(w) /\ y = m /\ hosts'[x][y] = archive[w][m]
      /\ archive[w][m] # NoFile
  <2>1. archive[w][m] \in File /\ archive[w][m] # NoFile
    BY DEF TypeOK, EndsWithProcess, Files
  <2>2. CASE hosts' = hosts
    BY <2>1, <2>2 DEF TypeOK, EndsWithProcess
  <2>3. CASE hosts' = [hosts EXCEPT ![Joiner(w)][m] = archive[w][m]]
    BY <2>1, <2>3, Ends DEF TypeOK, EndsWithProcess
  <2> QED
    BY <2>1, <2>2, <2>3
<1>1. TypeOK'
  <2>1. failures' \in 0..MaxFailures
    BY FailsBound DEF TypeOK, EndsWithProcess
  <2> QED
    BY <1>0, <2>1 DEF TypeOK, EndsWithProcess, File, Nothing
<1>2. Grows
  <2>1. failures' > 0
    BY FailsBound DEF TypeOK, EndsWithProcess
  <2> QED
    BY <1>0, <2>1 DEF Has, Grows
<1>3. Files'
  BY Ends, <1>2 DEF TypeOK, EndsWithProcess, Files, Has, Answered, Nothing, Grows
<1>4. Asked'
  BY DEF TypeOK, EndsWithProcess, Asked, Asking
<1>5. Marked'
  BY Ends, <1>2 DEF TypeOK, EndsWithProcess, Marked, Files, Has, Answered, Nothing, Grows
<1>6. Adopting'
  <2>1. failures' > 0
    BY FailsBound DEF TypeOK, EndsWithProcess
  <2>3. Again(w, m)'
    BY <1>2, Ends DEF TypeOK, EndsWithProcess, Again, Files, Grows
  <2>4. Adopted(Joiner(w), m)'
    BY <2>1, <2>3 DEF Adopted
  <2>2. ASSUME NEW x \in Node, NEW y \in Node, Orphan(x, y)', x # Joiner(w) \/ y # m
        PROVE  Orphan(x, y) /\ \A v \in Joins : Keeps(v, x, y)
    BY <2>2, Ends DEF TypeOK, EndsWithProcess, Orphan, Keeps, Again, Has, Asking, Nothing
  <2> QED
    BY <1>2, <2>4, <2>2, AdoptingKept DEF IInv
<1> QED
  BY <1>1, <1>3, <1>4, <1>5, <1>6

\* The imported file has an entry from here on.
LEMMA InvExchanged == ASSUME IInv, NEW w \in Joins, Exchanged(w) PROVE IInv'
<1> USE DEF Exchanged, Goto, Know, PutAllUnversioned, IsNewer, Entry, Version, Absent, IInv, discVars, tincVars, clientVars
<1>1. TypeOK'
  BY Ends DEF TypeOK, EndsWithProcess, File, Nothing
<1>2. Grows
  BY Ends DEF TypeOK, EndsWithProcess, Has, File, NoFile, Files, Grows
<1>3. Files'
  BY Ends, <1>2 DEF TypeOK, EndsWithProcess, Files, Has, Answered, Nothing, Grows
<1>4. Asked'
  BY DEF TypeOK, EndsWithProcess, Asked, Asking
<1>5. Marked'
  BY Ends, <1>2 DEF TypeOK, EndsWithProcess, Marked, Files, Has, Answered, Nothing, Grows
<1>6. Adopting'
  <2>1. ASSUME NEW x \in Node, NEW y \in Node, Orphan(x, y)'
        PROVE  Orphan(x, y) /\ \A v \in Joins : Keeps(v, x, y)
    BY <2>1, Ends DEF TypeOK, EndsWithProcess, Orphan, Keeps, Again, Has, Asking, Nothing
  <2> QED
    BY <1>2, <2>1, AdoptingKept
<1> QED
  BY <1>1, <1>3, <1>4, <1>5, <1>6

\* Nothing is left of the answer, so nothing was adopted by it, and the server is imported.
LEMMA InvComplete == ASSUME IInv, NEW w \in Joins, Complete(w) PROVE IInv'
<1> USE DEF Complete, Goto, IInv, discVars, tincVars, clientVars
<1>1. TypeOK'
  BY Ends DEF TypeOK, EndsWithProcess, File, Nothing
<1>2. Grows
  BY Ends DEF TypeOK, EndsWithProcess, Has, File, NoFile, Files, Grows
<1>3. Files'
  BY Ends, <1>2 DEF TypeOK, EndsWithProcess, Files, Has, Answered, Nothing, Grows
<1>4. Asked'
  BY DEF TypeOK, EndsWithProcess, Asked, Asking
<1>5. Marked'
  BY Ends, <1>2 DEF TypeOK, EndsWithProcess, Marked, Files, Has, Answered, Nothing, Grows
<1>6. Adopting'
  <2>1. ASSUME NEW x \in Node, NEW y \in Node, Orphan(x, y)'
        PROVE  Orphan(x, y) /\ \A v \in Joins : Keeps(v, x, y)
    BY <2>1, Ends DEF TypeOK, EndsWithProcess, Orphan, Keeps, Again, Has, Asking, Nothing
  <2> QED
    BY <1>2, <2>1, AdoptingKept
<1> QED
  BY <1>1, <1>3, <1>4, <1>5, <1>6

\* Every step is one of these actions.
LEMMA InvNext == ASSUME IInv, [Next]_vars PROVE IInv'
<1>1. CASE UNCHANGED vars
  BY <1>1 DEF vars, discVars, tincVars, clientVars, IInv, TypeOK, EndsWithProcess, Files, Has, Asked, Marked,
              Adopting, Orphan, Adopted, Again
<1>2. CASE Next
  BY <1>2, InvBoot, InvCrash, InvEdit, InvHup, InvGossip, InvServe, InvAnswer, InvJoined,
     InvFailServe, InvRequest, InvFailRequest, InvImport, InvFailImport, InvExchanged, InvComplete
     DEF Next, Serving, Joining, Failing
<1> QED
  BY <1>1, <1>2

-----------------------------------------------------------------------------
\* Every reachable state of Join has its types, and what a process has ended
\* with it.
THEOREM JoinTypes == Spec => []TypeOK
<1>1. IInv => TypeOK
  BY DEF IInv
<1> QED
  BY <1>1, InvInit, InvNext, PTL DEF Spec

\* A host file that a running node has been given is announced to the others, or
\* a handler or client is about to (ServeHTTP and Joined, exchange and Exchanged),
\* whatever crashes and whichever exchange fails, however often.
THEOREM AnnouncedAlways == Spec => []Announced
<1>1. ASSUME IInv, NEW n \in up, NEW m \in Node, Has(n, m), entities[n][m] = Absent
      PROVE  \/ \E w \in Joins : /\ Server(w) = n /\ Joiner(w) = m
                                 /\ serving[w] \in {"added", "answered"}
             \/ \E w \in Joins : /\ Joiner(w) = n /\ current[w] = m
                                 /\ client[w] = "imported"
             \/ /\ failures > 0
                /\ \E w \in Joins : /\ Joiner(w) = n \/ w = <<m, n>>
                                    /\ client[w] # "done"
  <2>1. n \in Node /\ Adopted(n, m)
    BY <1>1 DEF IInv, TypeOK, EndsWithProcess, Adopting, Orphan
  <2>2. ASSUME NEW w \in Joins, Server(w) = n, Joiner(w) = m, client[w] \in Asking
        PROVE  w = <<m, n>> /\ client[w] # "done"
    BY <2>2, Ends DEF Asking
  <2>3. ASSUME NEW w \in Joins, Again(w, m) PROVE client[w] # "done"
    <3>1. client[w] \in {"ready", "asking"} \/ archive[w] # Nothing
      BY <2>3 DEF Again, Nothing
    <3> QED
      BY <1>1, <3>1 DEF IInv, TypeOK, EndsWithProcess
  <2> QED
    BY <2>1, <2>2, <2>3 DEF Adopted
<1>2. IInv => Announced
  BY <1>1 DEF Announced, Has
<1> QED
  BY <1>2, InvInit, InvNext, PTL DEF Spec

\* A join that is complete has left its marks on both sides (Import, Complete,
\* Reload), in whatever way it was interrupted before.
THEOREM JoinLoadedAlways == Spec => []JoinLoaded
<1>1. IInv => JoinLoaded
  BY DEF IInv, Files, Marked, Answered, Has, JoinLoaded
<1> QED
  BY <1>1, InvInit, InvNext, PTL DEF Spec

-----------------------------------------------------------------------------
(* The versions.                                                           *)

\* What is not up has no map, what is up has its own latest version, and neither
\* map nor ssd file is ahead of a source.
Versions ==
    /\ \A n \in Node \ up : entities[n] = Empty(Node)
    /\ \A n \in up : entities[n][n] = clock[n]
    /\ \A n, m \in Node : entities[n][m] <= clock[m] /\ saved[n][m] <= clock[m]

\* The numbers that versions are compared by.
LEMMA VersionTypes ==
    ASSUME TypeOK
    PROVE  /\ \A n \in Node : clock[n] \in Nat
           /\ \A n, m \in Node : entities[n][m] \in Nat \cup {-1} /\ saved[n][m] \in Nat \cup {-1}
  BY DEF TypeOK, Entry, Version, Absent

\* Initially nothing is known.
LEMMA VersionsInit == Init => Versions
  BY DEF Init, Versions, Empty, Absent

\* A start restores old news and adds a version that nobody can have.
LEMMA BootAnnounces ==
    ASSUME TypeOK, Versions, NEW n \in Node, Boot(n)
    PROVE  Versions' /\ Promise!Announce(n)
<1>1. /\ Restored(n) \in [Node -> Entry] /\ Restored(n)[n] = clock[n] + 1
      /\ \A m \in Node \ {n} : Restored(n)[m] = saved[n][m] \/ Restored(n)[m] = 0
  BY Knows, VersionTypes DEF TypeOK, Restored, Put, PutAllUnversioned
<1>2. /\ clock' = [clock EXCEPT ![n] = clock[n] + 1] /\ up' = up \cup {n}
      /\ entities' = [entities EXCEPT ![n] = Restored(n)]
      /\ saved' = [saved EXCEPT ![n] = Restored(n)]
      /\ entities[n] = Empty(Node)
  BY DEF Boot, Versions
<1>3. clock'[n] = clock[n] + 1 /\ \A m \in Node \ {n} : clock'[m] = clock[m]
  BY <1>2 DEF TypeOK
<1>4. \A m \in Node : Restored(n)[m] <= clock'[m]
  <2>1. ASSUME NEW m \in Node \ {n} PROVE Restored(n)[m] <= clock[m]
    <3>1. saved[n][m] <= clock[m] /\ 0 <= clock[m]
      BY VersionTypes DEF Versions
    <3> QED
      BY <1>1, <3>1
  <2>2. clock[n] + 1 <= clock[n] + 1
    BY VersionTypes
  <2> QED
    BY <1>1, <1>3, <2>1, <2>2
<1>5. /\ entities'[n] = Restored(n) /\ \A p \in Node \ {n} : entities'[p] = entities[p]
      /\ saved'[n] = Restored(n) /\ \A p \in Node \ {n} : saved'[p] = saved[p]
  BY <1>2 DEF TypeOK
<1>6. Versions'
  <2>1. \A p, m \in Node : entities[p][m] <= clock'[m] /\ saved[p][m] <= clock'[m]
    BY <1>3, VersionTypes DEF Versions
  <2>2. \A p \in up : p # n => entities'[p][p] = clock'[p]
    BY <1>3, <1>5 DEF Versions, TypeOK
  <2>3. \A p, m \in Node : entities'[p][m] <= clock'[m] /\ saved'[p][m] <= clock'[m]
    BY <1>4, <1>5, <2>1
  <2> QED
    BY <1>1, <1>2, <1>3, <1>5, <2>2, <2>3 DEF Versions
<1> QED
  BY <1>1, <1>2, <1>3, <1>4, <1>5, <1>6
     DEF Promise!Announce, Promise!Empty, Empty, Promise!Absent, Absent, Promise!Entry, Entry,
         Promise!Version, Version

\* The callbacks Joined and Exchanged change no version.
LEMMA KnowLearns ==
    ASSUME TypeOK, Versions, NEW n \in up, NEW m \in Node, Know(n, m), UNCHANGED <<up, clock>>
    PROVE  /\ Versions'
           /\ UNCHANGED entities \/ Promise!Learn(n, m)
<1>0. n \in Node
  BY DEF TypeOK
<1>1. CASE entities[n][m] = Absent
  <2>1. n # m
    BY <1>0, <1>1, VersionTypes DEF Versions, Absent
  <2>2. PutAllUnversioned(entities[n], {m}) = Put(entities[n], m, 0)
    BY <1>0, <1>1 DEF PutAllUnversioned, Put, IsNewer, TypeOK
  <2>3. entities' = [entities EXCEPT ![n] = Put(entities[n], m, 0)]
        /\ saved' = [saved EXCEPT ![n] = Put(entities[n], m, 0)]
    BY <1>0, <2>2 DEF Know, TypeOK
  <2>4. Versions'
    BY <1>0, <2>1, <2>3, VersionTypes DEF Versions, TypeOK, Put
  <2>5. 0 \in 0..clock[m]
    BY VersionTypes
  <2>6. Promise!Learn(n, m)
    BY <1>1, <2>1, <2>3, <2>5
       DEF Promise!Learn, Promise!IsNewer, Promise!Put, Put, Promise!Absent, Absent
  <2> QED
    BY <2>4, <2>6
<1>2. CASE entities[n][m] # Absent
  <2>1. PutAllUnversioned(entities[n], {m}) = entities[n]
    BY <1>0, <1>2, VersionTypes DEF PutAllUnversioned, IsNewer, TypeOK, Absent
  <2>2. entities' = entities /\ saved' = [saved EXCEPT ![n] = entities[n]]
    BY <1>0, <2>1 DEF Know, TypeOK
  <2> QED
    BY <1>0, <2>2 DEF Versions, TypeOK
<1> QED
  BY <1>1, <1>2

\* A merge takes a newer version, which is not of the node itself.
LEMMA GossipLearns ==
    ASSUME TypeOK, Versions, NEW n \in Node, NEW p \in Node, NEW m \in Node, Gossip(n, p, m)
    PROVE  Versions' /\ Promise!Learn(n, m)
<1>1. /\ n \in up /\ IsNewer(entities[n], m, entities[p][m]) /\ entities[p][m] # Absent
      /\ UNCHANGED <<up, clock>>
  BY DEF Gossip, Reaches
<1>2. n # m /\ entities[p][m] \in 0..clock[m]
  BY <1>1, VersionTypes DEF Versions, IsNewer, Absent
<1>3. entities' = [entities EXCEPT ![n] = Put(entities[n], m, entities[p][m])]
      /\ saved' = [saved EXCEPT ![n] = Put(entities[n], m, entities[p][m])]
  BY DEF Gossip, TypeOK
<1>4. Versions'
  BY <1>1, <1>2, <1>3, VersionTypes DEF Versions, TypeOK, Put
<1> QED
  BY <1>1, <1>2, <1>3, <1>4
     DEF Promise!Learn, Promise!IsNewer, IsNewer, Promise!Put, Put, Promise!Absent, Absent

\* What a step is in SingleSource, which keeps the versions in order.
LEMMA VersionsNext ==
    ASSUME TypeOK, Versions, [Next]_vars
    PROVE  Versions' /\ [Promise!Next]_(Promise!vars)
<1>1. ASSUME UNCHANGED <<up, clock, entities, saved>>
      PROVE  Versions' /\ [Promise!Next]_(Promise!vars)
  BY <1>1 DEF Versions, Promise!vars
<1>2. ASSUME NEW n \in Node, Boot(n) PROVE Versions' /\ Promise!Next
  BY <1>2, BootAnnounces DEF Promise!Next
<1>3. ASSUME NEW n \in Node, Crash(n) PROVE Versions' /\ Promise!Next
  <2>1. Versions'
    BY <1>3, VersionTypes DEF Crash, Versions, TypeOK, Empty, Absent
  <2>2. Promise!Lose(n)
    BY <1>3 DEF Crash, Promise!Lose, Promise!Empty, Empty, Promise!Absent, Absent
  <2> QED
    BY <2>1, <2>2 DEF Promise!Next
<1>4. ASSUME NEW n \in Node, NEW p \in Node, NEW m \in Node, Gossip(n, p, m)
      PROVE  Versions' /\ Promise!Next
  BY <1>4, GossipLearns DEF Promise!Next
<1>5. ASSUME NEW w \in Joins, Joined(w) \/ Exchanged(w)
      PROVE  Versions' /\ [Promise!Next]_(Promise!vars)
  <2>1. PICK n \in up, m \in Node : Know(n, m)
    BY <1>5, Ends DEF Joined, Exchanged, TypeOK, EndsWithProcess
  <2>2. UNCHANGED <<up, clock>>
    BY <1>5 DEF Joined, Exchanged
  <2>3. Versions' /\ (UNCHANGED entities \/ Promise!Learn(n, m))
    BY <2>1, <2>2, KnowLearns
  <2> QED
    BY <2>2, <2>3 DEF Promise!Next, Promise!vars, TypeOK
<1>6. ASSUME NEW n \in Node, Edit(n) \/ Hup(n) PROVE UNCHANGED <<up, clock, entities, saved>>
  BY <1>6 DEF Edit, Hup, discVars
<1>7. ASSUME NEW w \in Joins,
             \/ Serve(w) \/ Answer(w) \/ FailServe(w) \/ Request(w) \/ FailRequest(w)
             \/ \E m \in Node : Import(w, m) \/ FailImport(w, m)
             \/ Complete(w)
      PROVE  UNCHANGED <<up, clock, entities, saved>>
  BY <1>7 DEF Serve, Answer, FailServe, Request, FailRequest, Import, FailImport, Complete, discVars
<1>8. CASE UNCHANGED vars
  BY <1>1, <1>8 DEF vars, discVars
<1> QED
  BY <1>1, <1>2, <1>3, <1>4, <1>5, <1>6, <1>7, <1>8 DEF Next, Serving, Joining, Failing

\* Joins, their failures and restarts leave the versions as SingleSource promises
\* them (ReplaceIfNewer with version 0 in the callbacks): no map is ahead of a source,
\* a map only grows while its node runs, and no source takes back its own version.
THEOREM VersionsRefineSingleSource == Spec => VersionsImplementSingleSource
<1>1. Init => Promise!Init
  BY DEF Init, Promise!Init, Promise!Empty, Empty, Promise!Absent, Absent
<1>2. TypeOK /\ Versions /\ [Next]_vars => Versions' /\ [Promise!Next]_(Promise!vars)
  BY VersionsNext
<1> QED
  BY <1>1, <1>2, VersionsInit, JoinTypes, PTL DEF Spec, VersionsImplementSingleSource, Promise!Spec

-----------------------------------------------------------------------------
(* The contents.                                                           *)

\* No operator edits a host file of which an older edition may be about: the node is
\* edited before its only start, or never.
NoEditBetweenStarts == \A n \in Node : MaxTick[n] <= 1 \/ MaxEdition[n] = 0

\* A host file away from home is its owner's, in a directory, a request or an answer,
\* and its owner has been started.
Genuine ==
    /\ \A n \in up : clock[n] > 0
    /\ \A n, m \in Node : Has(n, m) => hosts[n][m] = hosts[m][m] /\ (n = m \/ clock[m] > 0)
    /\ \A w \in Joins :
          /\ serving[w] # "none" => /\ sent[w] = hosts[Joiner(w)][Joiner(w)]
                                    /\ clock[Joiner(w)] > 0
          /\ \A m \in Node : archive[w][m] # NoFile =>
                                archive[w][m] = hosts[m][m] /\ clock[m] > 0

\* Genuine files, requests and answers spread as such.
LEMMA Spreads ==
    ASSUME Genuine, up' \subseteq up, clock' = clock,
           \A x, y \in Node : \/ hosts'[x][y] = hosts[x][y]
                              \/ hosts'[x][y] = hosts[y][y] /\ clock[y] > 0,
           \A w \in Joins : serving'[w] # "none" =>
              \/ serving[w] # "none" /\ sent'[w] = sent[w]
              \/ sent'[w] = hosts[Joiner(w)][Joiner(w)] /\ clock[Joiner(w)] > 0,
           \A w \in Joins, m \in Node : archive'[w][m] # NoFile =>
              \/ archive'[w][m] = archive[w][m]
              \/ archive'[w][m] = hosts[m][m] /\ clock[m] > 0
    PROVE  Genuine'
<1>1. \A m \in Node : hosts'[m][m] = hosts[m][m]
  OBVIOUS
<1>2. \A n \in up' : clock'[n] > 0
  BY DEF Genuine
<1>3. \A n, m \in Node : Has(n, m)' => hosts'[n][m] = hosts'[m][m] /\ (n = m \/ clock'[m] > 0)
  BY <1>1 DEF Genuine, Has
<1>4. \A w \in Joins : /\ serving'[w] # "none" => /\ sent'[w] = hosts'[Joiner(w)][Joiner(w)]
                                                  /\ clock'[Joiner(w)] > 0
                       /\ \A m \in Node : archive'[w][m] # NoFile =>
                             archive'[w][m] = hosts'[m][m] /\ clock'[m] > 0
  BY <1>1, Ends DEF Genuine
<1> QED
  BY <1>2, <1>3, <1>4 DEF Genuine

\* A host file that is written is the only one that changes.
LEMMA OneFile ==
    ASSUME hosts \in [Node -> [Node -> File]], NEW n \in Node, NEW m \in Node, NEW f,
           hosts' = hosts \/ hosts' = [hosts EXCEPT ![n][m] = f]
    PROVE  \A x, y \in Node : hosts'[x][y] = hosts[x][y] \/ (y = m /\ hosts'[x][y] = f)
<1>1. CASE hosts' = hosts
  BY <1>1
<1>2. CASE hosts' = [hosts EXCEPT ![n][m] = f]
  BY <1>2
<1> QED
  BY <1>1, <1>2

\* The actions that write host files write what was genuine before, ...
LEMMA FilesSpread ==
    ASSUME IInv, Genuine,
           \/ \E n, p, m \in Node : Gossip(n, p, m)
           \/ \E w \in Joins : Serve(w) \/ FailServe(w)
           \/ \E w \in Joins, m \in Node : Import(w, m) \/ FailImport(w, m)
    PROVE  Genuine'
<1> USE DEF IInv
<1>1. hosts \in [Node -> [Node -> File]] /\ archive \in [Joins -> [Node -> File]]
  BY DEF TypeOK
<1>2. ASSUME NEW n \in Node, NEW p \in Node, NEW m \in Node, Gossip(n, p, m) PROVE Genuine'
  <2>1. p \in up /\ Has(p, m)
    BY <1>2 DEF Gossip, Reaches, Files
  <2>2. hosts[p][m] = hosts[m][m] /\ clock[m] > 0
    BY <2>1 DEF Genuine
  <2>3. \A x, y \in Node : hosts'[x][y] = hosts[x][y] \/ (hosts'[x][y] = hosts[y][y] /\ clock[y] > 0)
    <3>1. hosts' = [hosts EXCEPT ![n][m] = hosts[p][m]]
      BY <1>2 DEF Gossip
    <3>2. \A x, y \in Node : hosts'[x][y] = hosts[x][y] \/ (y = m /\ hosts'[x][y] = hosts[p][m])
      BY <1>1, <3>1, OneFile
    <3> QED
      BY <2>2, <3>2
  <2> QED
    BY <1>2, <2>3, Spreads DEF Gossip, clientVars
<1>3. ASSUME NEW w \in Joins, Serve(w) \/ FailServe(w) PROVE Genuine'
  <2>1. sent[w] = hosts[Joiner(w)][Joiner(w)] /\ clock[Joiner(w)] > 0
    BY <1>3 DEF Serve, FailServe, Genuine
  <2>2. hosts' = hosts \/ hosts' = [hosts EXCEPT ![Server(w)][Joiner(w)] = sent[w]]
    BY <1>3 DEF Serve, FailServe
  <2>3. \A x, y \in Node : hosts'[x][y] = hosts[x][y] \/ (hosts'[x][y] = hosts[y][y] /\ clock[y] > 0)
    <3>1. \A x, y \in Node : hosts'[x][y] = hosts[x][y] \/ (y = Joiner(w) /\ hosts'[x][y] = sent[w])
      <4>1. Server(w) \in Node /\ Joiner(w) \in Node
        BY Ends
      <4> DEFINE n == Server(w)
                 m == Joiner(w)
                 f == sent[w]
      <4>2. hosts' = hosts \/ hosts' = [hosts EXCEPT ![n][m] = f]
        BY <2>2
      <4> HIDE DEF n, m, f
      <4>3. \A x, y \in Node : hosts'[x][y] = hosts[x][y] \/ (y = m /\ hosts'[x][y] = f)
        BY <1>1, <4>1, <4>2, OneFile DEF n, m
      <4> QED
        BY <4>3 DEF m, f
    <3> QED
      BY <2>1, <3>1
  <2>4. /\ up' = up /\ clock' = clock /\ sent' = sent /\ archive' = archive
        /\ \A v \in Joins : serving'[v] # "none" => serving[v] # "none"
    BY <1>3 DEF Serve, FailServe, clientVars, TypeOK
  <2> QED
    BY <2>3, <2>4, Spreads
<1>4. ASSUME NEW w \in Joins, NEW m \in Node, Import(w, m) \/ FailImport(w, m) PROVE Genuine'
  <2>1. archive[w][m] = hosts[m][m] /\ clock[m] > 0
    BY <1>4 DEF Import, FailImport, Genuine
  <2>2. hosts' = hosts \/ hosts' = [hosts EXCEPT ![Joiner(w)][m] = archive[w][m]]
    BY <1>4 DEF Import, FailImport
  <2>3. \A x, y \in Node : hosts'[x][y] = hosts[x][y] \/ (hosts'[x][y] = hosts[y][y] /\ clock[y] > 0)
    <3>1. \A x, y \in Node : hosts'[x][y] = hosts[x][y] \/ (y = m /\ hosts'[x][y] = archive[w][m])
      BY <1>1, <2>2, Ends, OneFile, SMTT(30)
    <3> QED
      BY <2>1, <3>1
  <2>4. \A v \in Joins, y \in Node : archive'[v][y] # NoFile => archive'[v][y] = archive[v][y]
    BY <1>1, <1>4 DEF Import, FailImport, Nothing
  <2>5. up' = up /\ clock' = clock /\ sent' = sent /\ serving' = serving
    BY <1>4 DEF Import, FailImport
  <2> QED
    BY <2>3, <2>4, <2>5, Spreads
<1> QED
  BY <1>2, <1>3, <1>4

\* ... a request takes the joiner's own, an answer what the server has, and the
\* other actions take nothing.
LEMMA RequestsSpread ==
    ASSUME IInv, Genuine,
           \/ \E n \in Node : Crash(n) \/ Hup(n)
           \/ \E w \in Joins : \/ Request(w) \/ Answer(w) \/ Joined(w)
                               \/ FailRequest(w) \/ Exchanged(w) \/ Complete(w)
           \/ UNCHANGED vars
    PROVE  Genuine'
<1> USE DEF IInv
<1>1. /\ archive \in [Joins -> [Node -> File]] /\ serving \in [Joins -> {"none", "asked", "added", "answered"}]
      /\ sent \in [Joins -> File]
  BY DEF TypeOK
<1>2. ASSUME NEW n \in Node, Crash(n) PROVE Genuine'
  <2>1. \A w \in Joins, m \in Node : archive'[w][m] # NoFile => archive'[w][m] = archive[w][m]
    BY <1>1, <1>2 DEF Crash, Nothing
  <2> QED
    BY <1>2, <2>1, Spreads DEF Crash
<1>3. ASSUME NEW w \in Joins, Request(w) PROVE Genuine'
  <2>1. clock[Joiner(w)] > 0
    BY <1>3 DEF Request, TypeOK, EndsWithProcess, Genuine
  <2>2. \A v \in Joins : \/ sent'[v] = sent[v] /\ serving'[v] = serving[v]
                         \/ v = w /\ sent'[v] = hosts[Joiner(w)][Joiner(w)]
    BY <1>1, <1>3 DEF Request
  <2> QED
    BY <1>3, <2>1, <2>2, Spreads DEF Request, discVars
<1>4. ASSUME NEW w \in Joins, Answer(w) PROVE Genuine'
  <2>1. Server(w) \in up
    BY <1>4 DEF Answer, TypeOK, EndsWithProcess
  <2>2. \A m \in Node : Has(Server(w), m) => hosts[Server(w)][m] = hosts[m][m] /\ clock[m] > 0
    BY <2>1, Ends DEF Genuine
  <2>3. archive' = archive \/ archive' = [archive EXCEPT ![w] = hosts[Server(w)]]
    BY <1>4 DEF Answer, Hosts
  <2>4. \A v \in Joins, m \in Node : archive'[v][m] # NoFile =>
           archive'[v][m] = archive[v][m] \/ (archive'[v][m] = hosts[m][m] /\ clock[m] > 0)
    <3>1. CASE archive' = archive
      BY <3>1
    <3>2. CASE archive' = [archive EXCEPT ![w] = hosts[Server(w)]]
      <4>1. \A v \in Joins : archive'[v] = archive[v] \/ archive'[v] = hosts[Server(w)]
        BY <1>1, <3>2
      <4> QED
        BY <2>2, <4>1 DEF Has
    <3> QED
      BY <2>3, <3>1, <3>2
  <2>5. /\ up' = up /\ clock' = clock /\ sent' = sent /\ hosts' = hosts
        /\ \A v \in Joins : serving'[v] # "none" => serving[v] # "none"
    BY <1>1, <1>4 DEF Answer, discVars
  <2> QED
    BY <2>4, <2>5, Spreads
<1>5. ASSUME NEW w \in Joins, Joined(w) \/ FailRequest(w) \/ Exchanged(w) \/ Complete(w)
      PROVE  Genuine'
  <2>1. /\ up' = up /\ clock' = clock /\ sent' = sent /\ hosts' = hosts /\ archive' = archive
        /\ \A v \in Joins : serving'[v] # "none" => serving[v] # "none"
    BY <1>1, <1>5 DEF Joined, FailRequest, Exchanged, Complete, clientVars, discVars
  <2> QED
    BY <2>1, Spreads
<1>6. ASSUME NEW n \in Node, Hup(n) PROVE Genuine'
  BY <1>6, Spreads DEF Hup, discVars, clientVars
<1>7. CASE UNCHANGED vars
  BY <1>7, Spreads DEF vars, discVars, clientVars
<1> QED
  BY <1>2, <1>3, <1>4, <1>5, <1>6, <1>7

\* An edit is of a node that was never started, so that nobody has its file.
LEMMA EditSpread ==
    ASSUME NoEditBetweenStarts, IInv, Genuine, NEW n \in Node, Edit(n) PROVE Genuine'
<1>1. clock[n] = 0
  <2>1. hosts[n][n] \in Nat
    BY DEF IInv, TypeOK, Files, Has, File, NoFile
  <2>2. MaxTick[n] \in Nat /\ MaxEdition[n] \in Nat /\ clock[n] \in Nat
    BY LimitsAssumption DEF IInv, TypeOK
  <2>3. MaxTick[n] <= 1
    BY <2>1, <2>2 DEF NoEditBetweenStarts, Edit
  <2> QED
    BY <2>2, <2>3 DEF Edit
<1>2. /\ \A x, y \in Node : x # n \/ y # n => hosts'[x][y] = hosts[x][y]
      /\ UNCHANGED <<up, clock, archive, sent, serving>>
  BY DEF Edit, clientVars, IInv, TypeOK
<1>3. \A x \in Node : Has(x, n) => x = n
  BY <1>1 DEF Genuine
<1>4. \A x, y \in Node : Has(x, y)' => hosts'[x][y] = hosts'[y][y] /\ (x = y \/ clock'[y] > 0)
  BY <1>2, <1>3 DEF Genuine, Has
<1>5. \A w \in Joins : serving[w] # "none" => Joiner(w) # n
  BY <1>1 DEF Genuine
<1>6. \A w \in Joins, m \in Node : archive[w][m] # NoFile => m # n
  BY <1>1 DEF Genuine
<1> QED
  BY <1>2, <1>4, <1>5, <1>6, Ends DEF Genuine

\* Initially no host file is away from home.
LEMMA GenuineInit == Init => Genuine
<1> SUFFICES ASSUME Init PROVE Genuine
  OBVIOUS
<1>1. \A n, m \in Node : Has(n, m) => n = m
  BY DEF Init, Has, Nothing, NoFile
<1> QED
  BY <1>1 DEF Init, Genuine, Nothing

\* Every step is one of these, or a start.
LEMMA GenuineNext ==
    ASSUME NoEditBetweenStarts, IInv, Genuine, [Next]_vars PROVE Genuine'
<1>1. ASSUME NEW n \in Node, Boot(n) PROVE Genuine'
  <2>1. clock[n] \in Nat /\ clock' = [clock EXCEPT ![n] = clock[n] + 1]
    BY <1>1 DEF Boot, IInv, TypeOK
  <2>2. clock'[n] > 0 /\ \A m \in Node : clock[m] > 0 => clock'[m] > 0
    BY <2>1 DEF IInv, TypeOK
  <2>3. up' = up \cup {n} /\ UNCHANGED <<hosts, serving, sent, archive>>
    BY <1>1 DEF Boot
  <2>4. up \subseteq Node
    BY DEF IInv, TypeOK
  <2> QED
    BY <2>2, <2>3, <2>4, Ends DEF Genuine, Has
<1> QED
  BY <1>1, FilesSpread, RequestsSpread, EditSpread DEF Next, Serving, Joining, Failing

\* "Single Source Distribution" (ssd.go:12-14) with joins, as long as no host file is
\* edited between two starts of its node: who has the latest version of a running
\* node has its host file.  The races of the requests and imports alone bring no
\* stale file under a current version; that takes an edit and a restart.
THEOREM ContentUnlessEditedBetweenStarts == ASSUME NoEditBetweenStarts PROVE Spec => []SingleSourceContent
<1>1. IInv /\ Genuine => SingleSourceContent
  <2> SUFFICES ASSUME IInv, Genuine, NEW n \in up, NEW m \in up, entities[n][m] = clock[m]
               PROVE  hosts[n][m] = hosts[m][m]
    BY DEF SingleSourceContent
  <2>1. n \in Node /\ m \in Node /\ clock[m] \in Nat /\ clock[m] > 0
    BY DEF IInv, TypeOK, Genuine
  <2>2. Has(n, m)
    BY <2>1 DEF IInv, Files, Absent
  <2> QED
    BY <2>1, <2>2 DEF Genuine
<1>2. IInv /\ Genuine /\ [Next]_vars => IInv' /\ Genuine'
  BY InvNext, GenuineNext
<1> QED
  BY <1>1, <1>2, InvInit, GenuineInit, PTL DEF Spec
=============================================================================
