-------------------------------- MODULE SSD --------------------------------
(***************************************************************************)
(* The operations of discovery.SSD ("single source distribution"), the map *)
(* from host names to versions that every node keeps, as pure operators on *)
(* the map.  SSD.entities is a Go map; here it is a function over the      *)
(* names that gives Absent to a name the map has no entry for.             *)
(***************************************************************************)
EXTENDS Integers

Absent == -1

\* What an entry's version can be: the clock counts up from 1, and a host
\* that is known only by its file has version 0.
Version == Nat

Entry == Version \cup {Absent}

Empty(names) == [m \in names |-> Absent]

\* Mutants of IsNewer: names without an entry are refused; an equal version
\* passes.
IsNewerIfKnown(entities, name, desired) ==
    entities[name] # Absent /\ desired > entities[name]
IsNewerOrEqual(entities, name, desired) ==
    entities[name] = Absent \/ desired >= entities[name]

\* unsafeIsNewer, which CanBeMerged wraps in a read lock.
IsNewer(entities, name, desired) ==
    \/ entities[name] = Absent
    \/ desired > entities[name]

\* Replace, and ReplaceIfNewer once its guard has passed.
Put(entities, name, version) == [entities EXCEPT ![name] = version]

\* GetAfter(name, version), the hit.
After(entities, name, version) ==
    /\ entities[name] # Absent
    /\ entities[name] > version

\* ReplaceIfNewer({Name: m, Version: 0}) for every name m of a set: what
\* start-up does with the names of the host files.
PutAllUnversioned(entities, names) ==
    [m \in DOMAIN entities |->
        IF m \in names /\ IsNewer(entities, m, 0) THEN 0 ELSE entities[m]]

\* Header: the entries of the map, without their order.
Header(entities) == {m \in DOMAIN entities : entities[m] # Absent}
=============================================================================
