------------------------------ MODULE SSDLock ------------------------------
(***************************************************************************)
(* The locks of discovery.SSD, goroutine by goroutine: the readers-writer  *)
(* lock around the map, the mutex around the ssd file, and the operations  *)
(* that take them.  Discovery.tla treats a merge, a save and an answer to  *)
(* /hosts as one step each; this module says what the locks make of them.  *)
(*                                                                         *)
(* The lock is Go's sync.RWMutex: a writer first announces itself; from    *)
(* then on new readers wait, and the writer enters when the readers that   *)
(* were in have left.  When it leaves, the readers that wait are let in.   *)
(***************************************************************************)
EXTENDS SSD

CONSTANTS
    Requester,   \* goroutines that merge and save (runLoop, Exchanged, Joined)
    Server,      \* goroutines that answer /hosts
    Name,        \* host names
    MaxVersion,  \* bound: versions offered by the peers
    MaxFailures, \* bound: host files and saves that fail
    NoOne        \* not a goroutine

ASSUME GoroutineAssumption == /\ Requester \cap Server = {}
                              /\ NoOne \notin Requester \cup Server
ASSUME MaxVersionAssumption == MaxVersion \in Nat
ASSUME MaxFailuresAssumption == MaxFailures \in Nat
ASSUME NameAssumption == Name # {}

Goroutine == Requester \cup Server

VARIABLES
    holds,     \* holds[g]: how many read locks g holds
    waiting,   \* the readers that wait for the writer
    pending,   \* the writer that has announced itself or is in, or NoOne
    fileLock,  \* who holds SSD.fileLock, or NoOne
    entities,  \* SSD.entities
    files,     \* files[m]: the version whose content was last written to m's host file
    torn,      \* the names whose host file was truncated and not written out
    saved,     \* the ssd file
    failed,    \* history: the last save has failed
    failures,  \* how many failures have been spent
    offer,     \* offer[r]: the entity that r has fetched
    items,     \* items[g]: what Header returned to g
    pc

lockVars == <<holds, waiting, pending>>
fileVars == <<files, torn>>
saveVars == <<saved, failed>>
diskVars == <<fileVars, saveVars, failures>>
vars == <<lockVars, fileLock, entities, diskVars, offer, items, pc>>

Entity == [name : Name, version : 0..MaxVersion]

MergePC == {"lock", "drain", "locked", "filed"}
MarshalPC == {"outer", "inner", "read", "encode"}
PC == {"idle", "save", "rename", "remove"} \cup MergePC \cup MarshalPC

TypeOK ==
    /\ holds \in [Goroutine -> 0..2]
    /\ waiting \subseteq Goroutine
    /\ pending \in Requester \cup {NoOne}
    /\ fileLock \in Requester \cup {NoOne}
    /\ entities \in [Name -> Entry]
    /\ files \in [Name -> Entry]
    /\ torn \subseteq Name
    /\ saved \in [Name -> Entry]
    /\ failed \in BOOLEAN
    /\ failures \in Nat
    /\ offer \in [Requester -> Entity]
    /\ items \in [Goroutine -> [Name -> Entry]]
    /\ pc \in [Goroutine -> PC]

Init ==
    /\ holds = [g \in Goroutine |-> 0]
    /\ waiting = {}
    /\ pending = NoOne
    /\ fileLock = NoOne
    /\ entities = Empty(Name)
    /\ files = Empty(Name)
    /\ torn = {}
    /\ saved = Empty(Name)
    /\ failed = FALSE
    /\ failures = 0
    /\ offer = [r \in Requester |-> CHOOSE e \in Entity : TRUE]
    /\ items = [g \in Goroutine |-> Empty(Name)]
    /\ pc = [g \in Goroutine |-> "idle"]

\* g, not waiting for the lock, goes from one statement to another.
At(g, from) == pc[g] = from /\ g \notin waiting
Goto(g, to) == pc' = [pc EXCEPT ![g] = to]

Fail == failures < MaxFailures /\ failures' = failures + 1

-----------------------------------------------------------------------------
(* sync.RWMutex.                                                           *)

RLock(g) == \/ /\ pending = NoOne
               /\ holds' = [holds EXCEPT ![g] = @ + 1]
               /\ UNCHANGED <<waiting, pending>>
            \/ /\ pending # NoOne
               /\ waiting' = waiting \cup {g}
               /\ UNCHANGED <<holds, pending>>

RUnlock(g) == /\ holds' = [holds EXCEPT ![g] = @ - 1]
              /\ UNCHANGED <<waiting, pending>>

Lock(r) == /\ pending = NoOne
           /\ pending' = r
           /\ UNCHANGED <<holds, waiting>>

NoReaders == \A g \in Goroutine : holds[g] = 0

Unlock(r) == /\ pending' = NoOne
             /\ waiting' = {}
             /\ holds' = [g \in Goroutine |-> IF g \in waiting THEN holds[g] + 1 ELSE holds[g]]

-----------------------------------------------------------------------------
(* ReplaceIfNewer with AddHost as its block.                               *)

Offer(r) ==
    /\ At(r, "idle")
    /\ \E e \in Entity : offer' = [offer EXCEPT ![r] = e]
    /\ Goto(r, "lock")
    /\ UNCHANGED <<lockVars, fileLock, entities, diskVars, items>>

Announce(r) ==
    /\ At(r, "lock")
    /\ Lock(r)
    /\ Goto(r, "drain")
    /\ UNCHANGED <<fileLock, entities, diskVars, offer, items>>

Acquire(r) ==
    /\ At(r, "drain") /\ NoReaders
    /\ Goto(r, "locked")
    /\ UNCHANGED <<lockVars, fileLock, entities, diskVars, offer, items>>

Newer(r) == IsNewer(entities, offer[r].name, offer[r].version)

Refuse(r) ==
    /\ At(r, "locked") /\ ~ Newer(r)
    /\ Unlock(r)
    /\ Goto(r, "idle")
    /\ UNCHANGED <<fileLock, entities, diskVars, offer, items>>

\* The content that was fetched goes to the host file.
Write(r) == /\ files' = [files EXCEPT ![offer[r].name] = offer[r].version]
            /\ torn' = torn \ {offer[r].name}

\* WriteFile truncates the file and fails before the content is in it.
WriteTorn(r) == /\ files' = [files EXCEPT ![offer[r].name] = offer[r].version]
                /\ torn' = torn \cup {offer[r].name}

\* Mutant of WriteHost: the lock is released while the file is written.
WriteHostUnlocked(r) ==
    /\ At(r, "locked") /\ Newer(r)
    /\ Write(r)
    /\ Unlock(r)
    /\ Goto(r, "filed")
    /\ UNCHANGED <<fileLock, entities, saveVars, failures, offer, items>>

\* The block, AddHost, returns true.
WriteHost(r) ==
    /\ At(r, "locked") /\ Newer(r)
    /\ Write(r)
    /\ Goto(r, "filed")
    /\ UNCHANGED <<lockVars, fileLock, entities, saveVars, failures, offer, items>>

\* Mutant of FailWrite: what the block returns is not looked at.
FailWriteRecorded(r) ==
    /\ At(r, "locked") /\ Newer(r)
    /\ WriteTorn(r) \/ UNCHANGED fileVars
    /\ Goto(r, "filed")
    /\ Fail
    /\ UNCHANGED <<lockVars, fileLock, entities, saveVars, offer, items>>

\* The block returns false: the host file could not be opened or not be written
\* out, or it is written and tinc.conf is not.  Nothing is recorded.
FailWrite(r) ==
    /\ At(r, "locked") /\ Newer(r)
    /\ UNCHANGED fileVars \/ WriteTorn(r) \/ Write(r)
    /\ Unlock(r)
    /\ Goto(r, "idle")
    /\ Fail
    /\ UNCHANGED <<fileLock, entities, saveVars, offer, items>>

Record(r) ==
    /\ At(r, "filed")
    /\ entities' = Put(entities, offer[r].name, offer[r].version)
    /\ Unlock(r)
    /\ Goto(r, "save")
    /\ UNCHANGED <<fileLock, diskVars, offer, items>>

-----------------------------------------------------------------------------
(* Save, and Marshal for the file and for the answer to /hosts.            *)

\* Mutants of LockFile: no mutex; a save that finds another under way is
\* left to it.
NoLockFile(r) ==
    /\ At(r, "save")
    /\ Goto(r, "outer")
    /\ UNCHANGED <<lockVars, fileLock, entities, diskVars, offer, items>>
TryLockFile(r) ==
    /\ At(r, "save")
    /\ \/ fileLock = NoOne /\ fileLock' = r /\ Goto(r, "outer")
       \/ fileLock # NoOne /\ Goto(r, "idle") /\ UNCHANGED fileLock
    /\ UNCHANGED <<lockVars, entities, diskVars, offer, items>>

LockFile(r) ==
    /\ At(r, "save") /\ fileLock = NoOne
    /\ fileLock' = r
    /\ Goto(r, "outer")
    /\ UNCHANGED <<lockVars, entities, diskVars, offer, items>>

Ask(s) ==
    /\ At(s, "idle")
    /\ Goto(s, "outer")
    /\ UNCHANGED <<lockVars, fileLock, entities, diskVars, offer, items>>

\* Marshal takes the read lock, and Header, which it calls, takes it again.
MarshalRLock(g) ==
    /\ At(g, "outer")
    /\ RLock(g)
    /\ Goto(g, "inner")
    /\ UNCHANGED <<fileLock, entities, diskVars, offer, items>>

HeaderRLock(g) ==
    /\ At(g, "inner")
    /\ RLock(g)
    /\ Goto(g, "read")
    /\ UNCHANGED <<fileLock, entities, diskVars, offer, items>>

\* Mutant of ReadHeader: Header does not release its lock.
ReadHeaderLeaking(g) ==
    /\ At(g, "read")
    /\ items' = [items EXCEPT ![g] = entities]
    /\ Goto(g, "encode")
    /\ UNCHANGED <<lockVars, fileLock, entities, diskVars, offer>>

ReadHeader(g) ==
    /\ At(g, "read")
    /\ items' = [items EXCEPT ![g] = entities]
    /\ RUnlock(g)
    /\ Goto(g, "encode")
    /\ UNCHANGED <<fileLock, entities, diskVars, offer>>

\* The items go to the temporary file, or to the peer that asked.  For a save
\* this step decides whether the file will take the place of the old one, or
\* the write, the sync, the close or the rename will fail.
Encode(g) ==
    /\ At(g, "encode")
    /\ RUnlock(g)
    /\ \/ /\ Goto(g, IF g \in Server THEN "idle" ELSE "rename")
          /\ UNCHANGED <<failed, failures>>
       \/ /\ g \in Requester
          /\ Fail
          /\ Goto(g, "remove")
          /\ failed' = TRUE
    /\ UNCHANGED <<fileLock, entities, fileVars, saved, offer, items>>

\* The temporary file is complete and synced; it takes the place of the old.
Rename(r) ==
    /\ At(r, "rename")
    /\ saved' = items[r]
    /\ failed' = FALSE
    /\ fileLock' = NoOne
    /\ Goto(r, "idle")
    /\ UNCHANGED <<lockVars, entities, fileVars, failures, offer, items>>

\* The temporary file is removed, and Save returns the error.
Remove(r) ==
    /\ At(r, "remove")
    /\ fileLock' = NoOne
    /\ Goto(r, "idle")
    /\ UNCHANGED <<lockVars, entities, diskVars, offer, items>>

\* The temporary file cannot be created.
FailCreate(r) ==
    /\ At(r, "outer")
    /\ Fail
    /\ failed' = TRUE
    /\ fileLock' = NoOne
    /\ Goto(r, "idle")
    /\ UNCHANGED <<lockVars, entities, fileVars, saved, offer, items>>

Merging(r) == \/ Offer(r) \/ Announce(r) \/ Acquire(r)
              \/ Refuse(r) \/ WriteHost(r) \/ FailWrite(r) \/ Record(r)
Marshal(g) == MarshalRLock(g) \/ HeaderRLock(g) \/ ReadHeader(g) \/ Encode(g)
Saving(r) == LockFile(r) \/ FailCreate(r) \/ Rename(r) \/ Remove(r)

Next == \/ \E r \in Requester : Merging(r) \/ Saving(r)
        \/ \E s \in Server : Ask(s)
        \/ \E g \in Goroutine : Marshal(g)

Spec == Init /\ [][Next]_vars

-----------------------------------------------------------------------------
\* An entry is never there before the host file it speaks of: whoever reads a
\* version from the map finds content at least as new in the host directory, or
\* a file that was torn by the write of a newer version, which is not recorded
\* and so will be fetched again.
FileBeforeEntry == \A m \in Name : /\ files[m] >= entities[m]
                                   /\ m \in torn => files[m] > entities[m]

\* An entry that the ssd file lacks is on its way there: some requester has a
\* save ahead of it that will read, or has read, the entry.  A save that failed
\* leaves a gap, and the next one that succeeds closes it, whoever it is for.
NoLostSave ==
    failed \/ \A m \in Name :
       \/ saved[m] = entities[m]
       \/ \E r \in Requester :
             \/ pc[r] \in {"save", "outer", "inner", "read"}
             \/ pc[r] \in {"encode", "rename"} /\ items[r][m] = entities[m]

\* Of two saves, the one that read the map later is the one that stays: no
\* rename brings back an older version.
SavedGrows == [][\A m \in Name : saved'[m] >= saved[m]]_vars

\* Where an operation takes effect.  A merge does when it writes the host file:
\* the writer is alone then, and nobody reads the map before it has recorded it.
\* A save does when it has encoded what it read: until then the read lock keeps
\* merges away, and the file mutex keeps other saves away until the rename.
Recorded == IF pending # NoOne /\ pc[pending] = "filed"
            THEN Put(entities, offer[pending].name, offer[pending].version)
            ELSE entities

Kept == IF fileLock # NoOne /\ pc[fileLock] = "rename"
        THEN items[fileLock]
        ELSE saved

Stage(g) == CASE pc[g] \in {"lock", "drain", "locked"} -> "merge"
              [] pc[g] \in {"filed", "save"} -> "save"
              [] pc[g] \in {"outer", "inner", "read"} -> IF g \in Server THEN "answer" ELSE "save"
              [] pc[g] = "encode" /\ g \in Requester -> "save"
              [] OTHER -> "idle"

\* Whoever merges, saves or answers sees the operations of the others as single
\* steps: the readers-writer lock and the file mutex make the SSD an AtomicSSD.
Operations == INSTANCE AtomicSSD
                 WITH entities <- Recorded, saved <- Kept,
                      answer <- [s \in Server |-> items[s]],
                      stage <- [g \in Goroutine |-> Stage(g)]
ImplementsAtomicSSD == Operations!Spec

\* Marshal's "double RLock, but it's ok" (ssd.go): a goroutine that waits for
\* the lock is not itself what the writer waits for.
DoubleRLockIsOk == \A g \in waiting : holds[g] = 0
=============================================================================
