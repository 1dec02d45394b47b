---------------------------- MODULE SingleSource ----------------------------
(***************************************************************************)
(* What discovery promises, without files, requests or failures.  Every    *)
(* name has one source, the node that bears it, and only the source issues *)
(* new versions of the name.  A node's view of the names starts empty,     *)
(* grows while the node runs, never runs ahead of a source, and holds the  *)
(* node's own latest version from the moment it has a view at all.         *)
(***************************************************************************)
EXTENDS SSD

CONSTANT Node

VARIABLES latest,   \* latest[m]: the last version that m issued, 0 before
          view      \* view[n][m]: the version of m that n knows, or Absent

vars == <<latest, view>>

Init == /\ latest = [m \in Node |-> 0]
        /\ view = [n \in Node |-> Empty(Node)]

\* A source issues its next version while nobody can ask it for the last one.
Issue(m) == /\ view[m] = Empty(Node)
            /\ latest' = [latest EXCEPT ![m] = @ + 1]
            /\ UNCHANGED view

\* A node comes up with its own latest version, which it may have issued just
\* then, and any old news of others.
Announce(n) == /\ view[n] = Empty(Node)
               /\ latest' \in {latest, [latest EXCEPT ![n] = @ + 1]}
               /\ view' = [view EXCEPT ![n] = view'[n]]
               /\ view'[n] \in [Node -> Entry]
               /\ view'[n][n] = latest'[n]
               /\ \A m \in Node : view'[n][m] <= latest'[m]

\* A node learns a newer version of a name that is not its own.
Learn(n, m) == /\ n # m
               /\ \E v \in 0..latest[m] :
                     /\ IsNewer(view[n], m, v)
                     /\ view' = [view EXCEPT ![n] = Put(view[n], m, v)]
               /\ UNCHANGED latest

\* A node stops.
Lose(n) == /\ view' = [view EXCEPT ![n] = Empty(Node)]
           /\ UNCHANGED latest

Next == \E n \in Node : \/ Issue(n)
                        \/ Announce(n)
                        \/ Lose(n)
                        \/ \E m \in Node : Learn(n, m)

Spec == Init /\ [][Next]_vars
=============================================================================
