----------------------------- MODULE AtomicSSD ------------------------------
(***************************************************************************)
(* What the locks of discovery.SSD are for: each operation takes effect in *)
(* one step between its call and its return.  A merge writes the host file *)
(* and records its version, or is refused, or fails and records nothing; a *)
(* save stores the whole map or fails and stores nothing; an answer to     *)
(* /hosts is the whole map.  Discovery.tla is written in terms of these    *)
(* steps.                                                                  *)
(***************************************************************************)
EXTENDS SSD

CONSTANTS
    Requester,  \* goroutines that merge and save
    Server,     \* goroutines that answer /hosts
    Name,       \* host names
    MaxVersion  \* bound: versions offered by the peers

VARIABLES
    entities,  \* the map
    files,     \* files[m]: the version whose content was last written to m's host file
    torn,      \* the names whose host file was truncated and not written out
    saved,     \* the ssd file
    offer,     \* offer[r]: what r has fetched
    answer,    \* answer[s]: the last answer of s
    stage      \* stage[g]: the operation that g has called and not done yet

vars == <<entities, files, torn, saved, offer, answer, stage>>

Entity == [name : Name, version : 0..MaxVersion]

Init == /\ entities = Empty(Name)
        /\ files = Empty(Name)
        /\ torn = {}
        /\ saved = Empty(Name)
        /\ offer \in [Requester -> Entity]
        /\ answer = [s \in Server |-> Empty(Name)]
        /\ stage = [g \in Requester \cup Server |-> "idle"]

Becomes(g, from, to) == stage[g] = from /\ stage' = [stage EXCEPT ![g] = to]

\* A requester comes to merge what it has fetched ...
Offer(r) == /\ Becomes(r, "idle", "merge")
            /\ \E e \in Entity : offer' = [offer EXCEPT ![r] = e]
            /\ UNCHANGED <<entities, files, torn, saved, answer>>

\* ... which is newer, and is filed and recorded at once, ...
Merge(r) == /\ Becomes(r, "merge", "save")
            /\ IsNewer(entities, offer[r].name, offer[r].version)
            /\ entities' = Put(entities, offer[r].name, offer[r].version)
            /\ files' = Put(files, offer[r].name, offer[r].version)
            /\ torn' = torn \ {offer[r].name}
            /\ UNCHANGED <<saved, offer, answer>>

\* ... or leaves something of it in the host file, and no record, ...
FailMerge(r) == /\ Becomes(r, "merge", "idle")
                /\ IsNewer(entities, offer[r].name, offer[r].version)
                /\ \/ UNCHANGED <<files, torn>>
                   \/ /\ files' = Put(files, offer[r].name, offer[r].version)
                      /\ torn' \in {torn \ {offer[r].name}, torn \cup {offer[r].name}}
                /\ UNCHANGED <<entities, saved, offer, answer>>

\* ... or not.
Refuse(r) == /\ Becomes(r, "merge", "idle")
             /\ ~ IsNewer(entities, offer[r].name, offer[r].version)
             /\ UNCHANGED <<entities, files, torn, saved, offer, answer>>

\* After a merge the map goes to the ssd file, whatever others have merged.
Save(r) == /\ Becomes(r, "save", "idle")
           /\ saved' = entities
           /\ UNCHANGED <<entities, files, torn, offer, answer>>

\* A save that fails leaves the ssd file as it was.
FailSave(r) == /\ Becomes(r, "save", "idle")
               /\ UNCHANGED <<entities, files, torn, saved, offer, answer>>

\* A peer asks, and is told the map.
Ask(s) == /\ Becomes(s, "idle", "answer")
          /\ UNCHANGED <<entities, files, torn, saved, offer, answer>>
Answer(s) == /\ Becomes(s, "answer", "idle")
             /\ answer' = [answer EXCEPT ![s] = entities]
             /\ UNCHANGED <<entities, files, torn, saved, offer>>

Next == \/ \E r \in Requester : Offer(r) \/ Merge(r) \/ FailMerge(r) \/ Refuse(r)
        \/ \E r \in Requester : Save(r) \/ FailSave(r)
        \/ \E s \in Server : Ask(s) \/ Answer(s)

Spec == Init /\ [][Next]_vars
=============================================================================
