--------------------------- MODULE SSDLockProofs ---------------------------
(***************************************************************************)
(* Proofs about the locks of the SSD, for any goroutines, names and        *)
(* versions.  Who holds which lock follows from where each goroutine is    *)
(* (Locks); what the locks protect follows from that (Data), and that each  *)
(* operation of the SSD is one step for the others follows from both.       *)
(***************************************************************************)
EXTENDS SSDLock, TLAPS

\* The read locks that a goroutine holds, by where it is and whether it waits.
Counts ==
    \A g \in Goroutine :
       /\ g \in waiting => pc[g] \in {"inner", "read"}
       /\ pc[g] = "inner" => holds[g] = IF g \in waiting THEN 0 ELSE 1
       /\ pc[g] = "read" => holds[g] = IF g \in waiting THEN 1 ELSE 2
       /\ pc[g] = "encode" => holds[g] = 1
       /\ pc[g] \notin {"inner", "read", "encode"} => holds[g] = 0

\* The writer is who is at a statement of a writer, and it is alone once it is in.
Writers ==
    \A r \in Requester : /\ pc[r] \in {"drain", "locked", "filed"} <=> pending = r
                         /\ pc[r] \in {"locked", "filed"} => NoReaders

\* The file mutex spans Marshal and the rename or the removal.
Savers == \A r \in Requester : pc[r] \in MarshalPC \cup {"rename", "remove"} <=> fileLock = r

Servers == \A s \in Server : pc[s] \in {"idle"} \cup MarshalPC

Locks == TypeOK /\ Counts /\ Writers /\ Savers /\ Servers

\* Initially nobody holds a lock.
LEMMA LocksInit == Init => Locks
<1> SUFFICES ASSUME Init PROVE Locks
  OBVIOUS
<1>1. TypeOK
  <2>1. Entity # {}
    <3>1. 0 \in 0..MaxVersion
      BY MaxVersionAssumption
    <3>2. PICK m \in Name : TRUE
      BY NameAssumption
    <3>3. [name |-> m, version |-> 0] \in Entity
      BY <3>1, <3>2 DEF Entity
    <3> QED
      BY <3>3
  <2>2. offer \in [Requester -> Entity]
    BY <2>1 DEF Init
  <2>3. Empty(Name) \in [Name -> Entry]
    BY DEF Empty, Entry
  <2>4. /\ holds \in [Goroutine -> 0..2] /\ pc \in [Goroutine -> PC]
        /\ items \in [Goroutine -> [Name -> Entry]]
    BY <2>3 DEF Init, PC
  <2> QED
    BY <2>2, <2>3, <2>4 DEF Init, TypeOK
<1> QED
  BY <1>1, GoroutineAssumption
     DEF Init, Locks, Counts, Writers, Savers, Servers, NoReaders, MarshalPC, Goroutine

\* A failure is counted.
LEMMA FailCount == ASSUME TypeOK, Fail PROVE failures' \in Nat
BY MaxFailuresAssumption DEF TypeOK, Fail

\* Each step of a goroutine leaves the locks as the places of all goroutines say.
LEMMA LocksNext == ASSUME Locks, [Next]_vars PROVE Locks'
<1> USE GoroutineAssumption
    DEF Locks, TypeOK, Counts, Writers, Savers, Servers, Goroutine, NoReaders,
        PC, MergePC, MarshalPC, At, Goto, lockVars, diskVars, fileVars, saveVars
<1>1. ASSUME NEW r \in Requester, Offer(r) PROVE Locks'
  BY <1>1 DEF Offer
<1>2. ASSUME NEW r \in Requester, Announce(r) PROVE Locks'
  BY <1>2 DEF Announce, Lock
<1>3. ASSUME NEW r \in Requester, Acquire(r) PROVE Locks'
  BY <1>3 DEF Acquire
<1>4. ASSUME NEW r \in Requester, Refuse(r) PROVE Locks'
  BY <1>4 DEF Refuse, Unlock
<1>5. ASSUME NEW r \in Requester, WriteHost(r) PROVE Locks'
  BY <1>5 DEF WriteHost, Write, Entity, Entry, Version
<1>6. ASSUME NEW r \in Requester, Record(r) PROVE Locks'
  BY <1>6 DEF Record, Unlock, Put, Entity, Entry, Version
<1>7. ASSUME NEW r \in Requester, LockFile(r) PROVE Locks'
  BY <1>7 DEF LockFile
<1>8. ASSUME NEW r \in Requester, Rename(r) PROVE Locks'
  BY <1>8 DEF Rename
<1>9. ASSUME NEW s \in Server, Ask(s) PROVE Locks'
  BY <1>9 DEF Ask
<1>10. ASSUME NEW g \in Goroutine, MarshalRLock(g) PROVE Locks'
  BY <1>10 DEF MarshalRLock, RLock
<1>11. ASSUME NEW g \in Goroutine, HeaderRLock(g) PROVE Locks'
  BY <1>11 DEF HeaderRLock, RLock
<1>12. ASSUME NEW g \in Goroutine, ReadHeader(g) PROVE Locks'
  BY <1>12 DEF ReadHeader, RUnlock
<1>13. ASSUME NEW g \in Goroutine, Encode(g) PROVE Locks'
  <2>1. failures' \in Nat /\ failed' \in BOOLEAN
    BY <1>13, FailCount DEF Encode
  <2>2. CASE g \in Server
    <3>1. /\ g \notin Requester /\ g # NoOne
          /\ holds' = [holds EXCEPT ![g] = holds[g] - 1]
          /\ pc' = [pc EXCEPT ![g] = "idle"]
          /\ pc[g] = "encode" /\ g \notin waiting
          /\ UNCHANGED <<waiting, pending, fileLock, entities, fileVars, saveVars, failures,
                        offer, items>>
      BY <1>13, <2>2 DEF Encode, RUnlock
    <3>2. TypeOK'
      BY <2>1, <3>1
    <3> QED
      BY <3>1, <3>2
  <2>3. CASE g \in Requester
    BY <1>13, <2>1, <2>3 DEF Encode, RUnlock
  <2> QED
    BY <2>2, <2>3
<1>14. ASSUME NEW r \in Requester, FailWrite(r) PROVE Locks'
  <2>1. files' \in [Name -> Entry] /\ torn' \subseteq Name
    <3>1. offer[r].name \in Name /\ offer[r].version \in Entry
      BY DEF Entity, Entry, Version
    <3>2. CASE UNCHANGED fileVars
      BY <3>2
    <3>3. CASE WriteTorn(r)
      BY <3>1, <3>3 DEF WriteTorn
    <3>4. CASE Write(r)
      BY <3>1, <3>4 DEF Write
    <3> QED
      BY <1>14, <3>2, <3>3, <3>4 DEF FailWrite
  <2>2. failures' \in Nat
    BY <1>14, FailCount DEF FailWrite
  <2>3. TypeOK'
    BY <1>14, <2>1, <2>2 DEF FailWrite, Unlock
  <2> QED
    BY <1>14, <2>3 DEF FailWrite, Unlock
<1>15. ASSUME NEW r \in Requester, Remove(r) PROVE Locks'
  BY <1>15 DEF Remove
<1>16. ASSUME NEW r \in Requester, FailCreate(r) PROVE Locks'
  BY <1>16, FailCount DEF FailCreate
<1>17. CASE UNCHANGED vars
  BY <1>17 DEF vars
<1> QED
  BY <1>1, <1>2, <1>3, <1>4, <1>5, <1>6, <1>7, <1>8, <1>9, <1>10, <1>11, <1>12, <1>13, <1>14,
     <1>15, <1>16, <1>17
     DEF Next, Merging, Marshal, Saving

-----------------------------------------------------------------------------
\* While a writer is in, its offer is newer than the map, and the host file that
\* it has written is what it is about to record.
Filed ==
    \A r \in Requester : pc[r] = "filed" =>
       Newer(r) /\ files[offer[r].name] = offer[r].version /\ offer[r].name \notin torn

\* What the holder of the file mutex has read lies between the ssd file and the
\* map; until it has left the map it is all of the map.
Copies ==
    /\ \A m \in Name : saved[m] <= entities[m]
    /\ \A r \in Requester :
          /\ pc[r] = "encode" => items[r] = entities
          /\ pc[r] \in {"encode", "rename"} =>
                \A m \in Name : saved[m] <= items[r][m] /\ items[r][m] <= entities[m]

\* What has been merged since the holder of the file mutex read the map waits for
\* the mutex: a rename leaves no gap, whatever saves have failed before it.
Behind ==
    \A r \in Requester : pc[r] \in {"encode", "rename"} =>
       \A m \in Name : items[r][m] = entities[m] \/ \E q \in Requester : pc[q] = "save"

IInv == Locks /\ Filed /\ FileBeforeEntry /\ Copies /\ Behind /\ NoLostSave

\* Initially map, files and ssd file are empty.
LEMMA DataInit == Init => IInv
  BY LocksInit DEF Init, IInv, Locks, TypeOK, Filed, FileBeforeEntry, Copies, Behind,
                   NoLostSave, Goroutine, Empty, Absent

\* What a rename leaves out waits for the file mutex.
LEMMA RenameKeeps == ASSUME IInv, NEW r \in Requester, Rename(r) PROVE NoLostSave'
<1>1. pc[r] = "rename" /\ saved' = items[r] /\ entities' = entities
  BY DEF Rename, At
<1>2. \A q \in Requester : pc[q] = "save" => pc'[q] = "save"
  BY <1>1 DEF Rename, Goto, IInv, Locks, TypeOK, Goroutine
<1>3. \A m \in Name : items[r][m] = entities[m] \/ \E q \in Requester : pc[q] = "save"
  BY <1>1 DEF IInv, Behind
<1> QED
  BY <1>1, <1>2, <1>3 DEF NoLostSave

\* Each step keeps what the locks protect.
LEMMA DataNext == ASSUME IInv, [Next]_vars PROVE IInv'
<1>0. Locks /\ Locks'
  BY LocksNext DEF IInv
<1> USE GoroutineAssumption, <1>0
    DEF IInv, Filed, FileBeforeEntry, Copies, Behind, NoLostSave, Newer, IsNewer, Goroutine,
        PC, MergePC, MarshalPC, At, Goto, lockVars, diskVars, fileVars, saveVars,
        Locks, TypeOK, Entry, Version, Entity, Absent
<1>1. ASSUME NEW r \in Requester, Offer(r) PROVE IInv'
  <2>1. Filed' /\ FileBeforeEntry' /\ Copies' /\ Behind'
    BY <1>1 DEF Offer
  <2>2. NoLostSave'
    BY <1>1 DEF Offer
  <2> QED
    BY <2>1, <2>2
<1>2. ASSUME NEW r \in Requester, Announce(r) PROVE IInv'
  BY <1>2 DEF Announce, Lock
<1>3. ASSUME NEW r \in Requester, Acquire(r) PROVE IInv'
  BY <1>3 DEF Acquire
<1>4. ASSUME NEW r \in Requester, Refuse(r) PROVE IInv'
  <2>1. /\ pc[r] = "locked" /\ pc' = [pc EXCEPT ![r] = "idle"]
        /\ UNCHANGED <<entities, files, torn, saved, failed, offer, items>>
    BY <1>4 DEF Refuse
  <2>2. Filed' /\ FileBeforeEntry'
    BY <2>1
  <2>3. Copies' /\ Behind'
    BY <2>1
  <2>4. NoLostSave'
    BY <2>1
  <2> QED
    BY <2>2, <2>3, <2>4
<1>5. ASSUME NEW r \in Requester, WriteHost(r) PROVE IInv'
  <2>1. pending = r /\ \A q \in Requester \ {r} : pc[q] # "filed"
    BY <1>5 DEF WriteHost, Writers
  <2>2. Filed'
    BY <1>5, <2>1 DEF WriteHost, Write
  <2>3. FileBeforeEntry'
    BY <1>5 DEF WriteHost, Write
  <2>4. Copies' /\ Behind'
    BY <1>5 DEF WriteHost
  <2>5. NoLostSave'
    BY <1>5 DEF WriteHost
  <2> QED
    BY <2>2, <2>3, <2>4, <2>5
<1>6. ASSUME NEW r \in Requester, Record(r) PROVE IInv'
  <2>1. pc[r] = "filed" /\ \A q \in Requester \ {r} : pc[q] # "filed" /\ pc[q] # "encode"
    BY <1>6 DEF Record, Writers, Counts, NoReaders
  <2>2. /\ entities' = [entities EXCEPT ![offer[r].name] = offer[r].version]
        /\ pc' = [pc EXCEPT ![r] = "save"]
        /\ UNCHANGED <<files, torn, saved, failed, offer, items>>
    BY <1>6 DEF Record, Put
  <2>3. Filed' /\ FileBeforeEntry'
    BY <2>1, <2>2
  <2>6. \A m \in Name : entities[m] <= entities'[m] /\ entities'[m] \in Int /\ saved[m] \in Int
    BY <2>1, <2>2
  <2>7. \A q \in Requester : /\ pc'[q] # "encode"
                             /\ pc'[q] = "rename" => pc[q] = "rename" /\ items'[q] = items[q]
    BY <2>1, <2>2
  <2>4. Copies'
    <3>1. \A m \in Name : saved'[m] <= entities'[m]
      BY <2>2, <2>6
    <3>2. ASSUME NEW q \in Requester, pc'[q] = "rename", NEW m \in Name
          PROVE  saved'[m] <= items'[q][m] /\ items'[q][m] <= entities'[m]
      <4>1. saved[m] <= items[q][m] /\ items[q][m] <= entities[m] /\ items[q][m] \in Int
        BY <2>7, <3>2
      <4> QED
        BY <2>2, <2>6, <2>7, <3>2, <4>1
    <3> QED
      BY <2>7, <3>1, <3>2
  <2>5. Behind' /\ NoLostSave'
    BY <2>1, <2>2
  <2> QED
    BY <2>3, <2>4, <2>5
<1>7. ASSUME NEW r \in Requester, LockFile(r) PROVE IInv'
  <2>1. /\ pc[r] = "save" /\ pc' = [pc EXCEPT ![r] = "outer"] /\ fileLock = NoOne
        /\ UNCHANGED <<entities, files, torn, saved, failed, offer, items>>
    BY <1>7 DEF LockFile
  <2>2. Filed' /\ FileBeforeEntry'
    BY <2>1
  <2>3. \A q \in Requester : pc'[q] \notin {"encode", "rename"}
    BY <2>1 DEF Savers
  <2>4. Copies' /\ Behind'
    BY <2>1, <2>3
  <2>5. NoLostSave'
    BY <2>1
  <2> QED
    BY <2>2, <2>4, <2>5
<1>8. ASSUME NEW r \in Requester, Rename(r) PROVE IInv'
  <2>1. \A q \in Requester \ {r} : pc[q] \notin {"encode", "rename"}
    BY <1>8 DEF Rename, Savers
  <2>2. Filed' /\ FileBeforeEntry'
    BY <1>8 DEF Rename
  <2>3. Copies' /\ Behind'
    BY <1>8, <2>1 DEF Rename
  <2>4. NoLostSave'
    BY <1>8, RenameKeeps
  <2> QED
    BY <2>2, <2>3, <2>4
<1>9. ASSUME NEW s \in Server, Ask(s) PROVE IInv'
  BY <1>9 DEF Ask
<1>10. ASSUME NEW g \in Goroutine, MarshalRLock(g) PROVE IInv'
  BY <1>10 DEF MarshalRLock, RLock
<1>11. ASSUME NEW g \in Goroutine, HeaderRLock(g) PROVE IInv'
  BY <1>11 DEF HeaderRLock, RLock
<1>12. ASSUME NEW g \in Goroutine, ReadHeader(g) PROVE IInv'
  BY <1>12 DEF ReadHeader, RUnlock
<1>13. ASSUME NEW g \in Goroutine, Encode(g) PROVE IInv'
  <2>1. /\ UNCHANGED <<entities, files, torn, saved, offer, items>>
        /\ pc[g] = "encode"
        /\ \E to \in {"idle", "rename", "remove"} : pc' = [pc EXCEPT ![g] = to]
    BY <1>13 DEF Encode
  <2>2. Filed' /\ FileBeforeEntry' /\ Copies' /\ Behind'
    BY <2>1
  <2>3. NoLostSave'
    BY <1>13 DEF Encode
  <2> QED
    BY <2>2, <2>3
<1>14. ASSUME NEW r \in Requester, FailWrite(r) PROVE IInv'
  <2>1. /\ pc[r] = "locked" /\ pc' = [pc EXCEPT ![r] = "idle"]
        /\ UNCHANGED <<entities, saved, failed, offer, items>>
        /\ IsNewer(entities, offer[r].name, offer[r].version)
    BY <1>14 DEF FailWrite
  <2>2. \A q \in Requester : pc'[q] # "filed"
    BY <1>14, <2>1 DEF Writers
  <2>3. FileBeforeEntry'
    BY <1>14, <2>1 DEF FailWrite, Write, WriteTorn
  <2>4. Copies' /\ Behind' /\ NoLostSave'
    BY <2>1
  <2> QED
    BY <2>2, <2>3, <2>4
<1>15. ASSUME NEW r \in Requester, Remove(r) PROVE IInv'
  BY <1>15 DEF Remove
<1>16. ASSUME NEW r \in Requester, FailCreate(r) PROVE IInv'
  BY <1>16 DEF FailCreate
<1>17. CASE UNCHANGED vars
  BY <1>17 DEF vars
<1> QED
  BY <1>1, <1>2, <1>3, <1>4, <1>5, <1>6, <1>7, <1>8, <1>9, <1>10, <1>11, <1>12, <1>13, <1>14,
     <1>15, <1>16, <1>17
     DEF Next, Merging, Marshal, Saving

-----------------------------------------------------------------------------
(* The locks make the operations atomic.                                   *)

Stages == [g \in Goroutine |-> Stage(g)]
Answers == [s \in Server |-> items[s]]

\* A goroutine that goes on changes at most its own stage.
LEMMA StageChanges ==
    ASSUME Locks, NEW g \in Goroutine, NEW to, Goto(g, to)
    PROVE  /\ pc'[g] = to
           /\ Stages' = [Stages EXCEPT ![g] = Stage(g)']
           /\ Stage(g)' = Stage(g) => Stages' = Stages
<1>1. pc \in [Goroutine -> PC] /\ pc' = [pc EXCEPT ![g] = to]
  BY DEF Locks, TypeOK, Goto
<1>2. \A h \in Goroutine \ {g} : Stage(h)' = Stage(h)
  BY <1>1 DEF Stage
<1> QED
  BY <1>1, <1>2 DEF Stages

\* The map is what readers may see of it, unless a writer is in with its file.
LEMMA RecordedMap ==
    ASSUME Locks
    PROVE  /\ (\A r \in Requester : pc[r] # "filed") => Recorded = entities
           /\ \A r \in Requester : pc[r] = "filed" =>
                 Recorded = Put(entities, offer[r].name, offer[r].version)
  BY GoroutineAssumption DEF Locks, TypeOK, Writers, Recorded

\* The ssd file is what is in it, unless a copy of the map is on its way there.
LEMMA KeptFile ==
    ASSUME Locks
    PROVE  /\ (\A r \in Requester : pc[r] # "rename") => Kept = saved
           /\ \A r \in Requester : pc[r] = "rename" => Kept = items[r]
  BY GoroutineAssumption DEF Locks, TypeOK, Savers, MarshalPC, Kept

\* Initially the operations have not begun.
LEMMA InitRefines == Init => Operations!Init
<1> SUFFICES ASSUME Init PROVE Operations!Init
  OBVIOUS
<1>1. Recorded = Empty(Name) /\ Kept = Empty(Name)
  BY DEF Init, Recorded, Kept
<1>2. offer \in [Requester -> Entity]
  BY LocksInit DEF Locks, TypeOK
<1>3. [s \in Server |-> items[s]] = [s \in Server |-> Empty(Name)]
  BY DEF Init, Goroutine
<1>4. [g \in Goroutine |-> Stage(g)] = [g \in Requester \cup Server |-> "idle"]
  BY DEF Init, Goroutine, Stage
<1> QED
  BY <1>1, <1>2, <1>3, <1>4
     DEF Init, Operations!Init, Operations!Entity, Entity, Operations!Empty, Empty,
         Operations!Absent, Absent

\* What leaves the map, the files and the stages alone is nothing to the others.
LEMMA Stutters ==
    ASSUME Recorded' = Recorded, Kept' = Kept, Stages' = Stages, Answers' = Answers,
           files' = files, torn' = torn, offer' = offer
    PROVE  UNCHANGED Operations!vars
  BY DEF Operations!vars, Stages, Answers

\* A goroutine that goes on takes its operation one stage further.
LEMMA Becomes ==
    ASSUME Locks, NEW g \in Goroutine, NEW to, Goto(g, to), NEW a, NEW b,
           Stage(g) = a, Stage(g)' = b
    PROVE  Operations!Becomes(g, a, b)
  BY StageChanges DEF Operations!Becomes, Stages

\* A step of a merge is a merge, a refusal or nothing to the others.
LEMMA MergingRefines ==
    ASSUME IInv, IInv', NEW r \in Requester, Merging(r)
    PROVE  [Operations!Next]_(Operations!vars)
<1>0. Locks /\ Locks' /\ r \in Goroutine /\ r \notin Server
  BY GoroutineAssumption DEF IInv, Goroutine
<1>1. /\ Answers' = Answers /\ saved' = saved /\ fileLock' = fileLock /\ items' = items
  BY DEF Merging, Offer, Announce, Acquire, Refuse, WriteHost, FailWrite, Record, diskVars,
         saveVars, Answers
<1>2. PICK to \in {"lock", "drain", "locked", "filed", "idle", "save"} : Goto(r, to)
  BY DEF Merging, Offer, Announce, Acquire, Refuse, WriteHost, FailWrite, Record
<1>3. pc' = [pc EXCEPT ![r] = to] /\ \A q \in Requester \ {r} : pc'[q] = pc[q]
  BY <1>0, <1>2 DEF Goto, Locks, TypeOK, Goroutine
<1>4. pc[r] \in {"idle", "lock", "drain", "locked", "filed"} /\ pc'[r] = to
  BY <1>0, <1>2, StageChanges
     DEF Merging, Offer, Announce, Acquire, Refuse, WriteHost, FailWrite, Record, At
<1>5. Kept' = Kept
  BY <1>0, <1>1, <1>3, <1>4 DEF Kept, Locks, TypeOK
<1>6. CASE Offer(r)
  <2>1. Operations!Becomes(r, "idle", "merge")
    BY <1>0, <1>6, Becomes, StageChanges DEF Offer, At, Stage
  <2>2. Recorded' = Recorded
    BY <1>0, <1>3, <1>6, RecordedMap DEF Offer, Recorded, lockVars, Locks, TypeOK, Writers, At
  <2>3. Operations!Offer(r)
    BY <1>1, <1>5, <1>6, <2>1, <2>2
       DEF Offer, Operations!Offer, Operations!Entity, Entity, diskVars, fileVars, Answers
  <2> QED
    BY <2>3 DEF Operations!Next
<1>7. CASE Announce(r) \/ Acquire(r)
  <2>1. Stages' = Stages
    BY <1>0, <1>7, StageChanges DEF Announce, Acquire, At, Stage
  <2>2. /\ \A q \in Requester : pc[q] # "filed" /\ pc'[q] # "filed"
        /\ entities' = entities /\ files' = files /\ torn' = torn /\ offer' = offer
    <3>1. \A q \in Requester \ {r} : pc[q] # "filed"
      BY <1>0, <1>7, GoroutineAssumption DEF Announce, Acquire, Lock, At, Locks, Writers
    <3> QED
      BY <1>0, <1>3, <1>7, <3>1, StageChanges DEF Announce, Acquire, At, diskVars, fileVars
  <2>3. Recorded' = Recorded
    BY <1>0, <2>2 DEF Recorded, Locks, TypeOK
  <2> QED
    BY <1>1, <1>5, <2>1, <2>2, <2>3, Stutters
<1>8. CASE Refuse(r)
  <2>1. /\ pc[r] = "locked" /\ pc'[r] = "idle" /\ ~ Newer(r)
        /\ UNCHANGED <<entities, files, torn, offer>>
    BY <1>0, <1>8, StageChanges DEF Refuse, At, diskVars, fileVars
  <2>2. \A q \in Requester : pc[q] # "filed" /\ pc'[q] # "filed"
    BY <1>0, <1>3, <2>1, GoroutineAssumption DEF Locks, Writers
  <2>3. Recorded = entities /\ Recorded' = Recorded
    BY <1>0, <2>1, <2>2 DEF Recorded, Locks, TypeOK
  <2>4. Operations!Becomes(r, "merge", "idle")
    BY <1>0, <1>2, <1>4, <2>1, Becomes DEF Stage
  <2>5. Operations!Refuse(r)
    BY <1>1, <1>5, <2>1, <2>3, <2>4
       DEF Operations!Refuse, Newer, Operations!IsNewer, IsNewer, Operations!Absent, Absent, Answers
  <2> QED
    BY <2>5 DEF Operations!Next
<1>9. CASE WriteHost(r)
  <2>1. /\ pc[r] = "locked" /\ pc'[r] = "filed" /\ Newer(r)
        /\ files' = [files EXCEPT ![offer[r].name] = offer[r].version]
        /\ torn' = torn \ {offer[r].name}
        /\ UNCHANGED <<entities, offer>>
    BY <1>0, <1>9, StageChanges DEF WriteHost, Write, At
  <2>2. \A q \in Requester : pc[q] # "filed"
    BY <1>0, <2>1, GoroutineAssumption DEF Locks, Writers
  <2>3. Recorded = entities /\ Recorded' = Put(entities, offer[r].name, offer[r].version)
    BY <1>0, <2>1, <2>2, GoroutineAssumption DEF Recorded, Locks, TypeOK, Writers, Put
  <2>4. Operations!Becomes(r, "merge", "save")
    BY <1>0, <1>2, <1>4, <2>1, Becomes DEF Stage
  <2>5. Operations!Merge(r)
    BY <1>1, <1>5, <2>1, <2>3, <2>4
       DEF Operations!Merge, Newer, Operations!IsNewer, IsNewer, Operations!Absent, Absent,
           Operations!Put, Put, Answers
  <2> QED
    BY <2>5 DEF Operations!Next
<1>10. CASE Record(r)
  <2>1. /\ pc[r] = "filed" /\ pc'[r] = "save" /\ pending' = NoOne
        /\ entities' = Put(entities, offer[r].name, offer[r].version)
        /\ UNCHANGED <<files, torn, offer>>
    BY <1>0, <1>10, StageChanges DEF Record, Unlock, At, diskVars, fileVars
  <2>2. Stages' = Stages
    BY <1>0, <1>2, <1>4, <2>1, StageChanges DEF Stage
  <2>3. Recorded' = Recorded
    BY <1>0, <2>1, RecordedMap DEF Recorded
  <2> QED
    BY <1>1, <1>5, <2>1, <2>2, <2>3, Stutters
<1>11. CASE FailWrite(r)
  <2>1. /\ pc[r] = "locked" /\ pc'[r] = "idle" /\ Newer(r)
        /\ UNCHANGED fileVars \/ WriteTorn(r) \/ Write(r)
        /\ UNCHANGED <<entities, offer>>
    BY <1>0, <1>11, StageChanges DEF FailWrite, At
  <2>2. \A q \in Requester : pc[q] # "filed" /\ pc'[q] # "filed"
    BY <1>0, <1>3, <2>1, GoroutineAssumption DEF Locks, Writers
  <2>3. Recorded = entities /\ Recorded' = Recorded
    BY <1>0, <2>1, <2>2 DEF Recorded, Locks, TypeOK
  <2>4. Operations!Becomes(r, "merge", "idle")
    BY <1>0, <1>2, <1>4, <2>1, Becomes DEF Stage
  <2>5. \/ UNCHANGED <<files, torn>>
        \/ /\ files' = Put(files, offer[r].name, offer[r].version)
           /\ torn' \in {torn \ {offer[r].name}, torn \cup {offer[r].name}}
    BY <2>1 DEF fileVars, WriteTorn, Write, Put
  <2>6. Operations!FailMerge(r)
    BY <1>1, <1>5, <2>1, <2>3, <2>4, <2>5
       DEF Operations!FailMerge, Newer, Operations!IsNewer, IsNewer, Operations!Absent, Absent,
           Operations!Put, Put, Answers
  <2> QED
    BY <2>6 DEF Operations!Next
<1> QED
  BY <1>6, <1>7, <1>8, <1>9, <1>10, <1>11 DEF Merging

\* A step of a save or of an answer is a save, a save that fails, an answer or
\* nothing to the others.
LEMMA ReadingRefines ==
    ASSUME IInv, IInv', NEW g \in Goroutine,
           \/ g \in Requester /\ Saving(g)
           \/ g \in Server /\ Ask(g)
           \/ Marshal(g)
    PROVE  [Operations!Next]_(Operations!vars)
<1>0. Locks /\ Locks'
  BY DEF IInv
<1>1. UNCHANGED <<entities, files, torn, offer>>
  BY DEF Saving, LockFile, FailCreate, Rename, Remove, Ask, Marshal, MarshalRLock, HeaderRLock,
         ReadHeader, Encode, diskVars, fileVars
<1>2. PICK to \in {"outer", "inner", "read", "encode", "rename", "remove", "idle"} : Goto(g, to)
  BY DEF Saving, LockFile, FailCreate, Rename, Remove, Ask, Marshal, MarshalRLock, HeaderRLock,
         ReadHeader, Encode
<1>3. pc' = [pc EXCEPT ![g] = to] /\ pc'[g] = to
  BY <1>0, <1>2, StageChanges DEF Goto
<1>4. pending' = pending /\ pc[g] # "filed"
  BY DEF Saving, LockFile, FailCreate, Rename, Remove, Ask, Marshal, MarshalRLock, HeaderRLock,
         ReadHeader, Encode, lockVars, RLock, RUnlock, At
<1>5. Recorded' = Recorded
  BY <1>0, <1>1, <1>2, <1>3, <1>4 DEF Recorded, Locks, TypeOK
<1>6. CASE ReadHeader(g)
  <2>1. /\ pc[g] = "read" /\ pc'[g] = "encode" /\ g \notin waiting
        /\ items' = [items EXCEPT ![g] = entities]
        /\ UNCHANGED <<saved, fileLock>>
    BY <1>0, <1>6, StageChanges DEF ReadHeader, At, diskVars, saveVars
  <2>2. Kept' = Kept
    <3>1. fileLock \in Requester => (pc[fileLock] = "rename" <=> pc'[fileLock] = "rename")
      BY <1>0, <1>3, <2>1 DEF Locks, TypeOK, Goroutine
    <3>2. fileLock \in Requester /\ pc[fileLock] = "rename" => items'[fileLock] = items[fileLock]
      BY <1>0, <2>1 DEF Locks, TypeOK, Goroutine
    <3> QED
      BY <1>0, <2>1, <3>1, <3>2 DEF Kept, Locks, TypeOK
  <2>3. items'[g] = entities /\ \A h \in Goroutine \ {g} : items'[h] = items[h]
    BY <1>0, <2>1 DEF Locks, TypeOK
  <2>4. CASE g \in Requester
    <3>1. Stages' = Stages
      BY <1>0, <1>2, <1>3, <2>1, <2>4, StageChanges, GoroutineAssumption DEF Stage
    <3>2. Answers' = Answers
      BY <2>3, <2>4, GoroutineAssumption DEF Answers, Goroutine
    <3> QED
      BY <1>1, <1>5, <2>2, <3>1, <3>2, Stutters
  <2>5. CASE g \in Server
    <3>1. Recorded = entities
      <4>1. holds[g] = 2
        BY <1>0, <2>1 DEF Locks, Counts
      <4>2. \A r \in Requester : pc[r] # "filed"
        BY <1>0, <4>1 DEF Locks, Writers, NoReaders
      <4> QED
        BY <1>0, <4>2, RecordedMap
    <3>2. Operations!Becomes(g, "answer", "idle")
      BY <1>0, <1>2, <1>3, <2>1, <2>5, Becomes, GoroutineAssumption DEF Stage
    <3>3. Answers' = [Answers EXCEPT ![g] = entities]
      BY <2>3, <2>5 DEF Answers, Goroutine
    <3>4. Operations!Answer(g)
      BY <1>1, <1>5, <2>2, <3>1, <3>2, <3>3 DEF Operations!Answer, Answers
    <3> QED
      BY <2>5, <3>4 DEF Operations!Next
  <2> QED
    BY <2>4, <2>5 DEF Goroutine
<1>7. CASE g \in Requester /\ LockFile(g)
  <2>1. fileLock = NoOne /\ fileLock' = g /\ pc'[g] = "outer" /\ UNCHANGED <<saved, items>>
    BY <1>0, <1>7, StageChanges DEF LockFile, diskVars, saveVars
  <2>2. Kept' = Kept
    BY <2>1 DEF Kept
  <2>3. Stages' = Stages
    BY <1>0, <1>7, StageChanges, GoroutineAssumption DEF LockFile, At, Stage
  <2> QED
    BY <1>1, <1>5, <2>1, <2>2, <2>3, Stutters DEF Answers
<1>8. CASE g \in Requester /\ Rename(g)
  <2>1. fileLock = g
    BY <1>0, <1>8 DEF Rename, At, Locks, Savers
  <2>2. Kept = items[g] /\ Kept' = items[g]
    BY <1>8, <2>1, GoroutineAssumption DEF Rename, At, Kept
  <2>3. Stages' = Stages
    BY <1>0, <1>8, StageChanges DEF Rename, At, Stage
  <2> QED
    BY <1>1, <1>5, <1>8, <2>2, <2>3, Stutters DEF Rename, Answers
<1>9. CASE g \in Requester /\ Remove(g)
  <2>1. fileLock = g /\ pc[g] = "remove"
    BY <1>0, <1>9 DEF Remove, At, Locks, Savers
  <2>2. Kept = saved /\ Kept' = saved
    BY <1>9, <2>1, GoroutineAssumption DEF Remove, diskVars, saveVars, Kept
  <2>3. Stages' = Stages
    BY <1>0, <1>9, StageChanges DEF Remove, At, Stage
  <2> QED
    BY <1>1, <1>5, <1>9, <2>2, <2>3, Stutters DEF Remove, Answers
<1>10. CASE g \in Requester /\ FailCreate(g)
  <2>1. fileLock = g /\ pc[g] = "outer" /\ pc'[g] = "idle"
    BY <1>0, <1>10, StageChanges DEF FailCreate, At, Locks, Savers, MarshalPC
  <2>2. Kept = saved /\ Kept' = saved /\ Answers' = Answers
    BY <1>10, <2>1, GoroutineAssumption DEF FailCreate, Kept, Answers
  <2>3. Operations!Becomes(g, "save", "idle")
    BY <1>0, <1>2, <1>3, <1>10, <2>1, Becomes, GoroutineAssumption DEF Stage
  <2>4. Operations!FailSave(g)
    BY <1>1, <1>5, <2>2, <2>3 DEF Operations!FailSave, Answers
  <2> QED
    BY <1>10, <2>4 DEF Operations!Next
<1>11. CASE g \in Server /\ Ask(g)
  <2>1. Kept' = Kept
    BY <1>0, <1>11, <1>3, GoroutineAssumption DEF Ask, diskVars, saveVars, Kept, Locks, TypeOK
  <2>2. Operations!Becomes(g, "idle", "answer")
    BY <1>0, <1>11, Becomes, StageChanges DEF Ask, At, Stage
  <2>3. Operations!Ask(g)
    BY <1>1, <1>5, <1>11, <2>1, <2>2 DEF Ask, Operations!Ask, Answers
  <2> QED
    BY <1>11, <2>3 DEF Operations!Next
<1>12. CASE MarshalRLock(g) \/ HeaderRLock(g) \/ (g \in Server /\ Encode(g))
  <2>1. /\ UNCHANGED <<saved, items, fileLock>>
        /\ Stage(g)' = Stage(g)
    BY <1>0, <1>12, StageChanges, GoroutineAssumption
       DEF MarshalRLock, HeaderRLock, Encode, diskVars, saveVars, At, Stage
  <2>2. fileLock \in Requester => (pc[fileLock] = "rename" <=> pc'[fileLock] = "rename")
    <3>1. fileLock = g /\ g \in Requester =>
             pc[g] \in {"outer", "inner"} /\ pc'[g] \in {"inner", "read"}
      BY <1>0, <1>12, StageChanges, GoroutineAssumption
         DEF MarshalRLock, HeaderRLock, At, Goroutine
    <3> QED
      BY <1>0, <1>3, <3>1 DEF Locks, TypeOK, Goroutine
  <2>3. Kept' = Kept
    BY <1>0, <2>1, <2>2 DEF Kept, Locks, TypeOK
  <2> QED
    BY <1>0, <1>1, <1>2, <1>5, <2>1, <2>3, StageChanges, Stutters DEF Answers
<1>13. CASE g \in Requester /\ Encode(g)
  <2>1. /\ pc[g] = "encode" /\ fileLock = g /\ fileLock' = g /\ items[g] = entities
        /\ Recorded = entities
    <3>1. pc[g] = "encode" /\ fileLock' = fileLock /\ holds[g] = 1
      BY <1>0, <1>13 DEF Encode, At, Locks, Counts
    <3>2. fileLock = g /\ items[g] = entities
      BY <1>0, <1>13, <3>1 DEF IInv, Locks, Savers, MarshalPC, Copies
    <3>3. \A r \in Requester : pc[r] # "filed"
      BY <1>0, <3>1 DEF Locks, Writers, NoReaders
    <3> QED
      BY <1>0, <3>1, <3>2, <3>3, RecordedMap
  <2>2. /\ UNCHANGED <<saved, items>> /\ Answers' = Answers /\ Kept = saved
        /\ pc'[g] \in {"rename", "remove"}
    BY <1>0, <1>13, <2>1, StageChanges, GoroutineAssumption DEF Encode, Answers, Kept
  <2>3. Operations!Becomes(g, "save", "idle")
    BY <1>0, <1>2, <1>3, <1>13, <2>1, <2>2, Becomes, GoroutineAssumption DEF Stage
  <2>4. CASE pc'[g] = "rename"
    <3>1. Kept' = entities
      BY <1>13, <2>1, <2>2, <2>4, GoroutineAssumption DEF Kept
    <3>2. Operations!Save(g)
      BY <1>1, <1>5, <2>1, <2>2, <2>3, <3>1 DEF Operations!Save, Answers
    <3> QED
      BY <1>13, <3>2 DEF Operations!Next
  <2>5. CASE pc'[g] = "remove"
    <3>1. Kept' = Kept
      BY <2>1, <2>2, <2>5 DEF Kept
    <3>2. Operations!FailSave(g)
      BY <1>1, <1>5, <2>2, <2>3, <3>1 DEF Operations!FailSave, Answers
    <3> QED
      BY <1>13, <3>2 DEF Operations!Next
  <2> QED
    BY <2>2, <2>4, <2>5
<1> QED
  BY <1>6, <1>7, <1>8, <1>9, <1>10, <1>11, <1>12, <1>13 DEF Marshal, Saving, Goroutine

-----------------------------------------------------------------------------
\* Every reachable state of SSDLock has its types, in particular at most two read
\* locks a goroutine, those of Marshal and Header.
THEOREM LockTypes == Spec => []TypeOK
<1>1. Locks => TypeOK
  BY DEF Locks
<1> QED
  BY <1>1, LocksInit, LocksNext, PTL DEF Spec

\* Writers and saves exclude each other and what they must, and the map, the host
\* files and the copies on their way to the ssd file agree.
THEOREM LockInvariance == Spec => []IInv
  BY DataInit, DataNext, PTL DEF Spec

\* The host file is there before the entry that speaks of it, for every goroutine
\* that may look (ReplaceIfNewer calls its block before the assignment), and a
\* write that failed is not recorded: a torn file is of a version that no entry
\* has, so that it will be fetched again.
THEOREM FileAlwaysBeforeEntry == Spec => []FileBeforeEntry
<1>1. IInv => FileBeforeEntry
  BY DEF IInv
<1> QED
  BY <1>1, LockInvariance, PTL

\* No entry is left out by the ssd file for good: whoever has recorded it has a
\* save ahead that will read it, or has read it, unless the last save has failed,
\* and then the next one that succeeds has all that is not about to be saved.
THEOREM NoSaveLost == Spec => []NoLostSave
<1>1. IInv => NoLostSave
  BY DEF IInv
<1> QED
  BY <1>1, LockInvariance, PTL

\* No rename brings back an older version, since the file mutex spans Marshal.
THEOREM SavedOnlyGrows == Spec => SavedGrows
<1>1. ASSUME IInv, [Next]_vars PROVE [\A m \in Name : saved'[m] >= saved[m]]_vars
  <2>1. CASE \E r \in Requester : Rename(r)
    <3>1. PICK r \in Requester : Rename(r)
      BY <2>1
    <3>2. \A m \in Name : saved[m] <= items[r][m] /\ saved'[m] = items[r][m]
      BY <1>1, <3>1 DEF IInv, Copies, Rename, At
    <3>3. \A m \in Name : saved[m] \in Int /\ items[r][m] \in Int
      BY <1>1 DEF IInv, Locks, TypeOK, Entry, Version, Absent, Goroutine
    <3> QED
      BY <3>2, <3>3
  <2>2. CASE saved' = saved
    <3>1. \A m \in Name : saved[m] \in Int
      BY <1>1 DEF IInv, Locks, TypeOK, Entry, Version, Absent
    <3> QED
      BY <2>2, <3>1
  <2>3. (\E r \in Requester : Rename(r)) \/ saved' = saved
    BY <1>1 DEF Next, Merging, Saving, Marshal, Offer, Announce, Acquire, Refuse, WriteHost,
       FailWrite, Record, LockFile, FailCreate, Remove, Ask, MarshalRLock, HeaderRLock,
       ReadHeader, Encode, vars, diskVars, saveVars
  <2> QED
    BY <2>1, <2>2, <2>3
<1> QED
  BY <1>1, LockInvariance, PTL DEF Spec, SavedGrows

\* The operations of the SSD are atomic for all who use it, as Discovery has them: a
\* merge from the host file to the map, a save from the map to the ssd file and an
\* answer to /hosts each take effect in one step between their beginning and end,
\* and a merge or a save that fails in one step that records or stores nothing.
THEOREM LocksRefineAtomicSSD == Spec => ImplementsAtomicSSD
<1>1. IInv /\ IInv' /\ [Next]_vars => [Operations!Next]_(Operations!vars)
  <2> SUFFICES ASSUME IInv, IInv', [Next]_vars PROVE [Operations!Next]_(Operations!vars)
    OBVIOUS
  <2>1. CASE UNCHANGED vars
    BY <2>1, Stutters
       DEF vars, lockVars, diskVars, fileVars, saveVars, Recorded, Kept, Stages, Stage, Answers
  <2>2. CASE Next
    BY <2>2, MergingRefines, ReadingRefines DEF Next, Goroutine
  <2> QED
    BY <2>1, <2>2
<1> QED
  BY <1>1, InitRefines, LockInvariance, PTL DEF Spec, ImplementsAtomicSSD, Operations!Spec

=============================================================================
