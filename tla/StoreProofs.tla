---------------------------- MODULE StoreProofs ----------------------------
(***************************************************************************)
(* Theorems about Store, for any files, threads, mutations and failures.   *)
(***************************************************************************)
EXTENDS Store, TLAPS

-----------------------------------------------------------------------------
(* The inductive invariant, in named parts.                                *)

Saving(t) == pc[t] \in {"create", "write", "sync", "rename"}

UsesStore(t) == pc[t] \in {"wait", "reading"} \/ HoldsWrite(t)

\* A busy thread has a request, only mutations hold write locks, and a handle
\* on the temporary file keeps that file there.
OpsOK ==
    \A t \in Threads :
        /\ pc[t] # "idle" => op[t] \in Requests
        /\ HoldsWrite(t) => op[t] \in Mutations
        /\ pc[t] = "reading" => op[t] \notin Mutations
        /\ pc[t] \notin {"write", "sync"} => fd[t] \notin {"tmp", "data"}
        /\ fd[t] = "tmp" => tmp[path(t)] # NoFile

\* A write lock excludes every other lock on the same Store.
Exclusion ==
    \A t, u \in Threads :
        /\ HoldsWrite(t)
        /\ HoldsWrite(u) \/ pc[u] = "reading"
        /\ file(t) = file(u)
        => t = u

\* One thread at a time holds the map mutex to load a file, one that no
\* thread is using.
LoadingOK ==
    \A t \in Threads :
        pc[t] = "loading" => /\ file(t) \notin loaded
                             /\ \A u \in Threads : pc[u] = "loading" => u = t

\* The file a request uses, or has used with success, is in the map.
LoadedOK ==
    \A t \in Threads :
        UsesStore(t) \/ (pc[t] = "reply" /\ outcome[t] = "ok") => file(t) \in loaded

\* File handles only ever refer to the temporary file.
HandlesOK ==
    \A t \in Threads :
        fd[t] = IF pc[t] \in {"write", "sync"} THEN "tmp" ELSE "none"

\* From write_all on, the temporary file holds the graph being served.
TmpOK ==
    \A t \in Threads :
        /\ pc[t] \in {"write", "sync", "rename"} => tmp[path(t)] \in Image
        /\ pc[t] \in {"sync", "rename"} => /\ tmp[path(t)].whole
                                           /\ tmp[path(t)].data = memory[file(t)]
        /\ pc[t] = "rename" => tmp[path(t)].synced

\* Data files are whole and synced, and have what the platter has, unless a
\* failed stat had it saved over.
DiskOK ==
    \A p \in Paths : /\ disk[p].whole /\ disk[p].synced
                     /\ platter[p].whole /\ platter[p].synced
                     /\ platter[p].data \subseteq disk[p].data \cup lost[p]

\* A loaded graph is the file's, but for what a failed stat hid, plus failed
\* saves, plus the mutation being saved.
MemoryOK ==
    \A f \in loaded :
        /\ disk[PathOf[f]].data \subseteq memory[f] \cup lost[PathOf[f]]
        /\ \A m \in memory[f] :
              \/ m \in disk[PathOf[f]].data \cup unsaved
              \/ \E t \in Threads : Saving(t) /\ file(t) = f /\ op[t] = m

\* What a thread saves is in the graph; what it will report is there and in the
\* file.
AppliedOK ==
    \A t \in Threads :
        /\ Saving(t) => op[t] \in memory[file(t)]
        /\ /\ op[t] \in Mutations /\ outcome[t] = "ok"
           /\ pc[t] \in {"unlock", "reply"}
           => op[t] \in disk[path(t)].data \cap memory[file(t)]

\* A request must see what was acknowledged for its own file.
MustSeeOK ==
    \A t \in Threads :
        pc[t] # "idle" => \A m \in mustSee[t] : m \in acked /\ FileOf[m] = file(t)

\* The graph a closure ran on has only grown since.
StillServed == \A t \in Threads : SawGraph(t) => seen[t] \subseteq memory[file(t)]

Promises == AckedDurable /\ RequestsSeeAcked

Typing == TypeOK /\ OpsOK
Locks == Exclusion /\ LoadingOK /\ LoadedOK
Content == HandlesOK /\ TmpOK /\ DiskOK /\ MemoryOK /\ AppliedOK
Service == MustSeeOK /\ StillServed /\ Promises /\ NoDirtyReads

IInv == Typing /\ Locks /\ Content /\ Service

\* A busy thread's file and path are real ones.
LEMMA BusyPath ==
    ASSUME Typing, NEW t \in Threads, pc[t] # "idle"
    PROVE  file(t) \in Files /\ path(t) \in Paths
  BY StoreAssumption DEF Typing, TypeOK, OpsOK, file, path

\* What a file may hold is not the absence of a file, and stays of its type when
\* the file is created, synced or torn by a power loss.
LEMMA Images ==
    /\ \A i \in Image : i # NoFile
    /\ \A b \in BOOLEAN : EmptyImage(b) \in Image
    /\ \A i \in Image : Synced(i) \in Image
    /\ \A i \in Image : Survivors(i) \subseteq Image
<1>1. \A b \in BOOLEAN : EmptyImage(b) \in Image
  BY DEF EmptyImage, Image
<1>2. \A i \in Image : Synced(i) \in Image
  BY DEF Synced, Image
<1>3. \A i \in Image : Survivors(i) \subseteq Image
  <2>1. [data |-> {}, whole |-> FALSE, synced |-> TRUE] \in Image
    BY DEF Image
  <2> QED BY <1>2, <2>1 DEF Survivors
<1> QED BY <1>1, <1>2, <1>3, StoreAssumption

\* What is written back of a file is a file.
LEMMA FlushedImage ==
    ASSUME Typing, NEW p \in Paths, NEW image \in Survivors(disk[p])
    PROVE  image \in Image
  BY Images DEF Typing, TypeOK

\* First layer: every step keeps the types.
LEMMA TypingStep ==
    ASSUME Typing, [Next]_vars
    PROVE  Typing'
<1> USE StoreAssumption DEF Goto, threadVars, diskVars, history, file, path, HoldsWrite, Saving, UsesStore, Typing, TypeOK, OpsOK, Steps, Image, EmptyImage, AckedFor, WriteInode, Survivors
<1> SUFFICES ASSUME Next PROVE Typing'
  BY DEF vars
<1>1. ASSUME NEW t \in Threads, NEW o \in Requests, Begin(t, o)
       PROVE Typing'
  BY <1>1 DEF Begin
<1>2. ASSUME NEW t \in Threads, Lookup(t)
       PROVE Typing'
  BY <1>2 DEF Lookup
<1>3. ASSUME NEW t \in Threads, LoadOk(t)
       PROVE Typing'
  BY <1>3 DEF LoadOk
<1>4. ASSUME NEW t \in Threads, LoadErr(t)
       PROVE Typing'
  BY <1>4 DEF LoadErr
<1>5. ASSUME NEW t \in Threads, AcquireRead(t)
       PROVE Typing'
  BY <1>5 DEF AcquireRead
<1>6. ASSUME NEW t \in Threads, ReadDone(t)
       PROVE Typing'
  BY <1>6 DEF ReadDone
<1>7. ASSUME NEW t \in Threads, AcquireWrite(t)
       PROVE Typing'
  BY <1>7 DEF AcquireWrite
<1>8. ASSUME NEW t \in Threads, Apply(t)
       PROVE Typing'
  BY <1>8 DEF Apply
<1>9. ASSUME NEW t \in Threads, Reject(t)
       PROVE Typing'
  BY <1>9 DEF Reject
<1>10. ASSUME NEW t \in Threads, CreateTmp(t)
       PROVE Typing'
  <2>1. EmptyImage(FALSE) \in Image /\ EmptyImage(FALSE) # NoFile
    BY Images
  <2>2. TypeOK' BY <1>10, <2>1 DEF CreateTmp
  <2>3. OpsOK' BY <1>10, <2>1, BusyPath DEF CreateTmp
  <2> QED BY <2>2, <2>3
<1>11. ASSUME NEW t \in Threads, WriteSome(t)
       PROVE Typing'
  <2>1. TypeOK' BY <1>11 DEF WriteSome
  <2>2. OpsOK'
    <3>1. [data |-> {}, whole |-> FALSE, synced |-> FALSE] # NoFile
      BY <1>11, Images, BusyPath DEF WriteSome
    <3> QED BY <1>11, <3>1 DEF WriteSome
  <2> QED BY <2>1, <2>2
<1>12. ASSUME NEW t \in Threads, WriteAll(t)
       PROVE Typing'
  <2>1. TypeOK' BY <1>12 DEF WriteAll
  <2>2. OpsOK'
    <3>1. [data |-> memory[file(t)], whole |-> TRUE, synced |-> FALSE] # NoFile
      BY <1>12, Images, BusyPath DEF WriteAll
    <3> QED BY <1>12, <3>1 DEF WriteAll
  <2> QED BY <2>1, <2>2
<1>13. ASSUME NEW t \in Threads, Sync(t)
       PROVE Typing'
  <2> DEFINE image == Synced(IF fd[t] = "tmp" THEN tmp[path(t)] ELSE disk[path(t)])
  <2>1. fd[t] \in {"tmp", "data"} => image \in Image /\ image # NoFile
    BY <1>13, Images, BusyPath DEF Sync
  <2> HIDE DEF image
  <2>2. /\ WriteInode(t, image) /\ pc[t] = "sync"
        /\ fd' = [fd EXCEPT ![t] = "none"] /\ Goto(t, "rename")
        /\ UNCHANGED <<op, outcome, loaded, memory, platter, history>>
    BY <1>13 DEF Sync, image
  <2>3. TypeOK' BY <2>1, <2>2
  <2>4. OpsOK' BY <2>1, <2>2, BusyPath
  <2> QED BY <2>3, <2>4
<1>14. ASSUME NEW t \in Threads, Rename(t)
       PROVE Typing'
  <2>1. TypeOK' BY <1>14 DEF Rename
  <2>2. OpsOK' BY <1>14 DEF Rename
  <2> QED BY <2>1, <2>2
<1>15. ASSUME NEW t \in Threads, SaveFails(t)
       PROVE Typing'
  BY <1>15 DEF SaveFails
<1>16. ASSUME NEW t \in Threads, Unlock(t)
       PROVE Typing'
  BY <1>16 DEF Unlock
<1>17. ASSUME NEW t \in Threads, Reply(t)
       PROVE Typing'
  BY <1>17 DEF Reply
<1>18. ASSUME NEW p \in Paths, FlushDir(p)
       PROVE Typing'
  <2>1. PICK image \in Survivors(disk[p]) : platter' = [platter EXCEPT ![p] = image]
    BY <1>18 DEF FlushDir
  <2>2. image \in Image
    BY <2>1, FlushedImage
  <2> QED BY <1>18, <2>1, <2>2 DEF FlushDir
<1>19. ASSUME Crash
       PROVE Typing'
  BY <1>19 DEF Crash, ProcessGone
<1>20. ASSUME PowerLoss
       PROVE Typing'
  BY <1>20 DEF PowerLoss, ProcessGone
<1>21. ASSUME NEW t \in Threads, LoadMissed(t)
       PROVE Typing'
  BY <1>21 DEF LoadMissed
<1> QED BY <1>1, <1>2, <1>3, <1>4, <1>5, <1>6, <1>7, <1>8, <1>9, <1>10, <1>11, <1>12, <1>13, <1>14, <1>15, <1>16, <1>17, <1>18, <1>19, <1>20, <1>21 DEF Next, Step

\* Second layer: locks exclude, and who uses a store finds it in the map.
LEMMA LocksStep ==
    ASSUME Typing, Locks, [Next]_vars
    PROVE  Locks'
<1> USE StoreAssumption DEF Goto, threadVars, diskVars, history, file, path, HoldsWrite, Saving, UsesStore, Typing, TypeOK, OpsOK, Locks, Exclusion, LoadingOK, LoadedOK, WriteLocked, ReadLocked, MapMutexFree
<1> SUFFICES ASSUME Next PROVE Locks'
  BY DEF vars
<1>1. ASSUME NEW t \in Threads, NEW o \in Requests, Begin(t, o)
       PROVE Locks'
  BY <1>1 DEF Begin
<1>2. ASSUME NEW t \in Threads, Lookup(t)
       PROVE Locks'
  BY <1>2 DEF Lookup
<1>3. ASSUME NEW t \in Threads, LoadOk(t)
       PROVE Locks'
  BY <1>3 DEF LoadOk
<1>4. ASSUME NEW t \in Threads, LoadErr(t)
       PROVE Locks'
  BY <1>4 DEF LoadErr
<1>5. ASSUME NEW t \in Threads, AcquireRead(t)
       PROVE Locks'
  BY <1>5 DEF AcquireRead
<1>6. ASSUME NEW t \in Threads, ReadDone(t)
       PROVE Locks'
  BY <1>6 DEF ReadDone
<1>7. ASSUME NEW t \in Threads, AcquireWrite(t)
       PROVE Locks'
  BY <1>7 DEF AcquireWrite
<1>8. ASSUME NEW t \in Threads, Apply(t)
       PROVE Locks'
  BY <1>8 DEF Apply
<1>9. ASSUME NEW t \in Threads, Reject(t)
       PROVE Locks'
  BY <1>9 DEF Reject
<1>10. ASSUME NEW t \in Threads, CreateTmp(t)
       PROVE Locks'
  BY <1>10 DEF CreateTmp
<1>11. ASSUME NEW t \in Threads, WriteSome(t)
       PROVE Locks'
  BY <1>11 DEF WriteSome
<1>12. ASSUME NEW t \in Threads, WriteAll(t)
       PROVE Locks'
  BY <1>12 DEF WriteAll
<1>13. ASSUME NEW t \in Threads, Sync(t)
       PROVE Locks'
  BY <1>13 DEF Sync
<1>14. ASSUME NEW t \in Threads, Rename(t)
       PROVE Locks'
  BY <1>14 DEF Rename
<1>15. ASSUME NEW t \in Threads, SaveFails(t)
       PROVE Locks'
  BY <1>15 DEF SaveFails
<1>16. ASSUME NEW t \in Threads, Unlock(t)
       PROVE Locks'
  BY <1>16 DEF Unlock
<1>17. ASSUME NEW t \in Threads, Reply(t)
       PROVE Locks'
  BY <1>17 DEF Reply
<1>18. ASSUME NEW p \in Paths, FlushDir(p)
       PROVE Locks'
  BY <1>18 DEF FlushDir
<1>19. ASSUME Crash
       PROVE Locks'
  BY <1>19 DEF Crash, ProcessGone
<1>20. ASSUME PowerLoss
       PROVE Locks'
  BY <1>20 DEF PowerLoss, ProcessGone
<1>21. ASSUME NEW t \in Threads, LoadMissed(t)
       PROVE Locks'
  BY <1>21 DEF LoadMissed
<1> QED BY <1>1, <1>2, <1>3, <1>4, <1>5, <1>6, <1>7, <1>8, <1>9, <1>10, <1>11, <1>12, <1>13, <1>14, <1>15, <1>16, <1>17, <1>18, <1>19, <1>20, <1>21 DEF Next, Step

\* With distinct paths no two threads save to one path.
LEMMA OneSaverPerPath ==
    ASSUME DistinctPaths, Typing, Locks, NEW t \in Threads, NEW u \in Threads,
           HoldsWrite(t), HoldsWrite(u), path(t) = path(u)
    PROVE  t = u
<1>1. file(t) = file(u)
  BY BusyPath DEF DistinctPaths, path, HoldsWrite
<1> QED BY <1>1 DEF Locks, Exclusion

\* A step that changes no graph and leaves every ongoing save keeps memory and
\* files together.
LEMMA MemoryKept ==
    ASSUME MemoryOK, loaded' = loaded, memory' = memory, disk' = disk,
           unsaved' = unsaved, lost' = lost,
           \A t \in Threads : Saving(t) => /\ pc'[t] = pc[t]
                                           /\ op'[t] = op[t]
    PROVE  MemoryOK'
  BY DEF MemoryOK, Saving, file

\* Third layer: what handles, temporary files and data files hold at every line
\* of a save, with every failure.
LEMMA ContentStep ==
    ASSUME DistinctPaths, Typing, Locks, Content, [Next]_vars
    PROVE  Content'
<1> USE StoreAssumption DEF Goto, threadVars, diskVars, history, file, path, HoldsWrite, Saving, UsesStore, DistinctPaths, Typing, TypeOK, OpsOK, Locks, Exclusion, LoadingOK, LoadedOK, Content, HandlesOK, TmpOK, DiskOK, MemoryOK, AppliedOK, Image, EmptyImage, WriteInode, Survivors
<1> SUFFICES ASSUME Next PROVE Content'
  BY DEF vars
<1>1. ASSUME NEW t \in Threads, NEW o \in Requests, Begin(t, o)
       PROVE Content'
  <2>1. HandlesOK' BY <1>1 DEF Begin
  <2>2. TmpOK' BY <1>1 DEF Begin
  <2>3. DiskOK' BY <1>1 DEF Begin
  <2>4. MemoryOK' BY <1>1, MemoryKept DEF Begin
  <2>5. AppliedOK' BY <1>1 DEF Begin
  <2> QED BY <2>1, <2>2, <2>3, <2>4, <2>5
<1>2. ASSUME NEW t \in Threads, Lookup(t)
       PROVE Content'
  BY <1>2 DEF Lookup
<1>3. ASSUME NEW t \in Threads, LoadOk(t)
       PROVE Content'
  <2>1. HandlesOK' BY <1>3 DEF LoadOk
  <2>2. TmpOK' BY <1>3 DEF LoadOk
  <2>3. DiskOK' BY <1>3 DEF LoadOk
  <2>4. MemoryOK' BY <1>3 DEF LoadOk
  <2>5. AppliedOK' BY <1>3 DEF LoadOk
  <2> QED BY <2>1, <2>2, <2>3, <2>4, <2>5
<1>4. ASSUME NEW t \in Threads, LoadErr(t)
       PROVE Content'
  BY <1>4 DEF LoadErr
<1>5. ASSUME NEW t \in Threads, AcquireRead(t)
       PROVE Content'
  BY <1>5 DEF AcquireRead
<1>6. ASSUME NEW t \in Threads, ReadDone(t)
       PROVE Content'
  <2>1. HandlesOK' BY <1>6 DEF ReadDone
  <2>2. TmpOK' BY <1>6 DEF ReadDone
  <2>3. DiskOK' BY <1>6 DEF ReadDone
  <2>4. MemoryOK' BY <1>6 DEF ReadDone
  <2>5. AppliedOK' BY <1>6 DEF ReadDone
  <2> QED BY <2>1, <2>2, <2>3, <2>4, <2>5
<1>7. ASSUME NEW t \in Threads, AcquireWrite(t)
       PROVE Content'
  BY <1>7 DEF AcquireWrite
<1>8. ASSUME NEW t \in Threads, Apply(t)
       PROVE Content'
  <2>1. HandlesOK' BY <1>8 DEF Apply
  <2>2. TmpOK' BY <1>8 DEF Apply
  <2>3. DiskOK' BY <1>8 DEF Apply
  <2>4. MemoryOK' BY <1>8 DEF Apply
  <2>5. AppliedOK' BY <1>8 DEF Apply
  <2> QED BY <2>1, <2>2, <2>3, <2>4, <2>5
<1>9. ASSUME NEW t \in Threads, Reject(t)
       PROVE Content'
  <2>1. HandlesOK' BY <1>9 DEF Reject
  <2>2. TmpOK' BY <1>9 DEF Reject
  <2>3. DiskOK' BY <1>9 DEF Reject
  <2>4. MemoryOK' BY <1>9 DEF Reject
  <2>5. AppliedOK' BY <1>9 DEF Reject
  <2> QED BY <2>1, <2>2, <2>3, <2>4, <2>5
<1>10. ASSUME NEW t \in Threads, CreateTmp(t)
       PROVE Content'
  <2>1. HandlesOK' BY <1>10 DEF CreateTmp
  <2>2. TmpOK' BY <1>10 DEF CreateTmp
  <2>3. DiskOK' BY <1>10 DEF CreateTmp
  <2>4. MemoryOK' BY <1>10 DEF CreateTmp
  <2>5. AppliedOK' BY <1>10 DEF CreateTmp
  <2> QED BY <2>1, <2>2, <2>3, <2>4, <2>5
<1>11. ASSUME NEW t \in Threads, WriteSome(t)
       PROVE Content'
  <2>1. HandlesOK' BY <1>11 DEF WriteSome
  <2>2. TmpOK'
    <3>1. \A u \in Threads \ {t} :
             pc[u] \in {"write", "sync", "rename"} => path(u) # path(t)
      BY <1>11, OneSaverPerPath DEF WriteSome
    <3>2. /\ tmp' = [tmp EXCEPT ![path(t)] = [data |-> {}, whole |-> FALSE, synced |-> FALSE]]
          /\ tmp'[path(t)] \in Image
      BY <1>11, Images, BusyPath DEF WriteSome
    <3> QED BY <1>11, <3>1, <3>2 DEF WriteSome
  <2>3. DiskOK' BY <1>11 DEF WriteSome
  <2>4. MemoryOK' BY <1>11 DEF WriteSome
  <2>5. AppliedOK' BY <1>11 DEF WriteSome
  <2> QED BY <2>1, <2>2, <2>3, <2>4, <2>5
<1>12. ASSUME NEW t \in Threads, WriteAll(t)
       PROVE Content'
  <2>1. HandlesOK' BY <1>12 DEF WriteAll
  <2>2. TmpOK' BY <1>12 DEF WriteAll
  <2>3. DiskOK' BY <1>12 DEF WriteAll
  <2>4. MemoryOK' BY <1>12 DEF WriteAll
  <2>5. AppliedOK' BY <1>12 DEF WriteAll
  <2> QED BY <2>1, <2>2, <2>3, <2>4, <2>5
<1>13. ASSUME NEW t \in Threads, Sync(t)
       PROVE Content'
  <2>1. HandlesOK' BY <1>13 DEF Sync
  <2>2. TmpOK'
    <3>1. \A u \in Threads \ {t} :
             pc[u] \in {"write", "sync", "rename"} => path(u) # path(t)
      BY <1>13, OneSaverPerPath DEF Sync
    <3>2. /\ tmp' = [tmp EXCEPT ![path(t)] = Synced(tmp[path(t)])]
          /\ tmp'[path(t)] \in Image
      BY <1>13, Images, BusyPath DEF Sync, Synced
    <3>3. /\ path(t)' = path(t) /\ memory' = memory /\ file(t)' = file(t)
          /\ tmp[path(t)].whole /\ tmp[path(t)].data = memory[file(t)]
      BY <1>13 DEF Sync
    <3>4. /\ tmp'[path(t)].whole /\ tmp'[path(t)].synced
          /\ tmp'[path(t)].data = memory[file(t)]
      BY <1>13, <3>2, <3>3, BusyPath DEF Sync, Synced
    <3>5. \A u \in Threads \ {t} :
             /\ pc'[u] = pc[u] /\ path(u)' = path(u) /\ file(u)' = file(u)
             /\ path(u) # path(t) => tmp'[path(u)] = tmp[path(u)]
      BY <1>13, <3>2 DEF Sync
    <3>6. \A p \in Paths : p # path(t) => tmp'[p] = tmp[p]
      BY <3>2
    <3>7. CASE \A u \in Threads \ {t} :
                 pc'[u] \in {"write", "sync", "rename"} =>
                    /\ tmp'[path(u)'] = tmp[path(u)] /\ memory'[file(u)'] = memory[file(u)]
                    /\ pc'[u] = pc[u]
      <4>1. ASSUME NEW u \in Threads \ {t}
            PROVE  /\ pc'[u] \in {"write", "sync", "rename"} => tmp'[path(u)'] \in Image
                   /\ pc'[u] \in {"sync", "rename"} =>
                         /\ tmp'[path(u)'].whole
                         /\ tmp'[path(u)'].data = memory'[file(u)']
                   /\ pc'[u] = "rename" => tmp'[path(u)'].synced
        BY <3>7
      <4>2. pc'[t] = "rename" /\ tmp'[path(t)'] \in Image
        BY <1>13, <3>2, <3>3 DEF Sync
      <4> QED BY <3>3, <3>4, <4>1, <4>2
    <3> QED BY <3>1, <3>3, <3>5, <3>7
  <2>3. DiskOK' BY <1>13 DEF Sync
  <2>4. MemoryOK' BY <1>13 DEF Sync
  <2>5. AppliedOK' BY <1>13 DEF Sync
  <2> QED BY <2>1, <2>2, <2>3, <2>4, <2>5
<1>14. ASSUME NEW t \in Threads, Rename(t)
       PROVE Content'
  <2>1. HandlesOK' BY <1>14 DEF Rename
  <2>2. TmpOK' BY <1>14 DEF Rename
  <2>0. /\ file(t) \in Files /\ path(t) \in Paths
        /\ tmp[path(t)].whole /\ tmp[path(t)].synced
        /\ tmp[path(t)].data = memory[file(t)]
        /\ disk[path(t)].data \subseteq memory[file(t)] \cup lost[path(t)]
    BY <1>14, BusyPath DEF Rename
  <2>00. \A p \in Paths : disk'[p] = IF p = path(t) THEN tmp[path(t)] ELSE disk[p]
    BY <1>14, <2>0 DEF Rename
  <2>3. DiskOK'
    <3>1. lost' = lost /\ platter' = platter
      BY <1>14 DEF Rename
    <3>2. ASSUME NEW p \in Paths
          PROVE  /\ disk'[p].whole /\ disk'[p].synced
                 /\ platter[p].data \subseteq disk'[p].data \cup lost[p]
      <4>1. CASE p = path(t)
        BY <2>0, <2>00, <4>1
      <4>2. CASE p # path(t)
        BY <2>00, <4>2
      <4> QED BY <4>1, <4>2
    <3> QED BY <3>1, <3>2
  <2>4. MemoryOK' BY <1>14 DEF Rename
  <2>5. AppliedOK' BY <1>14, <2>0, <2>00 DEF Rename
  <2> QED BY <2>1, <2>2, <2>3, <2>4, <2>5
<1>15. ASSUME NEW t \in Threads, SaveFails(t)
       PROVE Content'
  <2>1. HandlesOK' BY <1>15 DEF SaveFails
  <2>2. TmpOK' BY <1>15 DEF SaveFails
  <2>3. DiskOK' BY <1>15 DEF SaveFails
  <2>4. MemoryOK' BY <1>15 DEF SaveFails
  <2>5. AppliedOK' BY <1>15 DEF SaveFails
  <2> QED BY <2>1, <2>2, <2>3, <2>4, <2>5
<1>16. ASSUME NEW t \in Threads, Unlock(t)
       PROVE Content'
  BY <1>16 DEF Unlock
<1>17. ASSUME NEW t \in Threads, Reply(t)
       PROVE Content'
  <2>1. HandlesOK' BY <1>17 DEF Reply
  <2>2. TmpOK' BY <1>17 DEF Reply
  <2>3. DiskOK' BY <1>17 DEF Reply
  <2>4. MemoryOK' BY <1>17, MemoryKept DEF Reply
  <2>5. AppliedOK' BY <1>17 DEF Reply
  <2> QED BY <2>1, <2>2, <2>3, <2>4, <2>5
<1>18. ASSUME NEW p \in Paths, FlushDir(p)
       PROVE Content'
  BY <1>18 DEF FlushDir
<1>19. ASSUME Crash
       PROVE Content'
  BY <1>19 DEF Crash, ProcessGone
<1>20. ASSUME PowerLoss
       PROVE Content'
  <2>1. HandlesOK' BY <1>20 DEF PowerLoss, ProcessGone
  <2>2. TmpOK' BY <1>20 DEF PowerLoss, ProcessGone
  <2>3. DiskOK' BY <1>20 DEF PowerLoss, ProcessGone
  <2>4. MemoryOK' BY <1>20 DEF PowerLoss, ProcessGone
  <2>5. AppliedOK' BY <1>20 DEF PowerLoss, ProcessGone
  <2> QED BY <2>1, <2>2, <2>3, <2>4, <2>5
<1>21. ASSUME NEW t \in Threads, LoadMissed(t)
       PROVE Content'
  <2>1. HandlesOK' BY <1>21 DEF LoadMissed
  <2>2. TmpOK' BY <1>21 DEF LoadMissed
  <2>3. DiskOK' BY <1>21 DEF LoadMissed
  <2>4. MemoryOK' BY <1>21 DEF LoadMissed
  <2>5. AppliedOK' BY <1>21 DEF LoadMissed
  <2> QED BY <2>1, <2>2, <2>3, <2>4, <2>5
<1> QED BY <1>1, <1>2, <1>3, <1>4, <1>5, <1>6, <1>7, <1>8, <1>9, <1>10, <1>11, <1>12, <1>13, <1>14, <1>15, <1>16, <1>17, <1>18, <1>19, <1>20, <1>21 DEF Next, Step

\* The graph a thread is about to run its closure on has all it must see.
LEMMA GraphHasAcked ==
    ASSUME IInv, NEW t \in Threads, UsesStore(t)
    PROVE  mustSee[t] \subseteq memory[file(t)] \cup lost[path(t)]
<1>1. pc[t] # "idle" /\ file(t) \in loaded
  BY DEF IInv, Locks, LoadedOK, UsesStore, HoldsWrite
<1>2. \A m \in mustSee[t] : m \in disk[path(t)].data \cup lost[path(t)]
  BY <1>1 DEF path, IInv, Service, MustSeeOK, Promises, AckedDurable
<1> QED BY <1>1, <1>2 DEF IInv, Content, MemoryOK, path

\* A graph that no thread is saving holds nothing but the file and failures.
LEMMA GraphNotDirty ==
    ASSUME IInv, NEW t \in Threads, UsesStore(t),
           \A u \in Threads : Saving(u) => file(u) # file(t)
    PROVE  memory[file(t)] \subseteq disk[path(t)].data \cup unsaved
<1>1. file(t) \in loaded
  BY DEF IInv, Locks, LoadedOK
<1> QED BY <1>1 DEF IInv, Content, MemoryOK, path

\* Fourth layer: what requests saw was durable or failed to be saved, and what was
\* acknowledged is in the file and is seen, or is lost.
LEMMA ServiceStep ==
    ASSUME DistinctPaths, IInv, [Next]_vars
    PROVE  Service'
<1> USE StoreAssumption DEF Goto, threadVars, diskVars, history, file, path, HoldsWrite, Saving, UsesStore, DistinctPaths, IInv, Typing, TypeOK, OpsOK, Locks, Exclusion, LoadingOK, LoadedOK, Content, HandlesOK, TmpOK, MemoryOK, AppliedOK, Service, MustSeeOK, StillServed, Promises, NoDirtyReads, AckedDurable, RequestsSeeAcked, SawGraph, AckedFor, WriteInode, Image
<1> SUFFICES ASSUME Next PROVE Service'
  BY DEF vars
<1>1. ASSUME NEW t \in Threads, NEW o \in Requests, Begin(t, o)
       PROVE Service'
  <2>1. MustSeeOK' BY <1>1 DEF Begin
  <2>2. Promises' BY <1>1 DEF Begin
  <2>3. NoDirtyReads' BY <1>1 DEF Begin
  <2>4. StillServed' BY <1>1 DEF Begin
  <2> QED BY <2>1, <2>2, <2>3, <2>4
<1>2. ASSUME NEW t \in Threads, Lookup(t)
       PROVE Service'
  BY <1>2 DEF Lookup
<1>3. ASSUME NEW t \in Threads, LoadOk(t)
       PROVE Service'
  <2>0. \A u \in Threads : SawGraph(u) => file(u) # file(t)
    BY <1>3 DEF LoadOk
  <2>1. MustSeeOK' BY <1>3 DEF LoadOk
  <2>2. Promises' BY <1>3 DEF LoadOk
  <2>3. NoDirtyReads' BY <1>3 DEF LoadOk
  <2>4. StillServed' BY <1>3, <2>0 DEF LoadOk
  <2> QED BY <2>1, <2>2, <2>3, <2>4
<1>4. ASSUME NEW t \in Threads, LoadErr(t)
       PROVE Service'
  BY <1>4 DEF LoadErr
<1>5. ASSUME NEW t \in Threads, AcquireRead(t)
       PROVE Service'
  BY <1>5 DEF AcquireRead
<1>6. ASSUME NEW t \in Threads, ReadDone(t)
       PROVE Service'
  <2>1. MustSeeOK' BY <1>6 DEF ReadDone
  <2>2. Promises'
    <3>1. mustSee[t] \subseteq memory[file(t)] \cup lost[path(t)]
      BY <1>6, GraphHasAcked DEF ReadDone
    <3> QED BY <1>6, <3>1 DEF ReadDone
  <2>3. NoDirtyReads'
    <3>0. \A u \in Threads : Saving(u) => file(u) # file(t)
      BY <1>6 DEF ReadDone
    <3>1. memory[file(t)] \subseteq disk[path(t)].data \cup unsaved
      BY <1>6, <3>0, GraphNotDirty DEF ReadDone
    <3> QED BY <1>6, <3>1 DEF ReadDone
  <2>4. StillServed' BY <1>6 DEF ReadDone
  <2> QED BY <2>1, <2>2, <2>3, <2>4
<1>7. ASSUME NEW t \in Threads, AcquireWrite(t)
       PROVE Service'
  BY <1>7 DEF AcquireWrite
<1>8. ASSUME NEW t \in Threads, Apply(t)
       PROVE Service'
  <2>1. MustSeeOK' BY <1>8 DEF Apply
  <2>2. Promises'
    <3>1. mustSee[t] \subseteq memory[file(t)] \cup lost[path(t)]
      BY <1>8, GraphHasAcked DEF Apply
    <3> QED BY <1>8, <3>1 DEF Apply
  <2>3. NoDirtyReads'
    <3>1. memory[file(t)] \subseteq disk[path(t)].data \cup unsaved
      BY <1>8, GraphNotDirty DEF Apply
    <3> QED BY <1>8, <3>1 DEF Apply
  <2>4. StillServed' BY <1>8 DEF Apply
  <2> QED BY <2>1, <2>2, <2>3, <2>4
<1>9. ASSUME NEW t \in Threads, Reject(t)
       PROVE Service'
  <2>1. MustSeeOK' BY <1>9 DEF Reject
  <2>2. Promises'
    <3>1. mustSee[t] \subseteq memory[file(t)] \cup lost[path(t)]
      BY <1>9, GraphHasAcked DEF Reject
    <3> QED BY <1>9, <3>1 DEF Reject
  <2>3. NoDirtyReads'
    <3>0. \A u \in Threads : Saving(u) => file(u) # file(t)
      BY <1>9 DEF Reject
    <3>1. memory[file(t)] \subseteq disk[path(t)].data \cup unsaved
      BY <1>9, <3>0, GraphNotDirty DEF Reject
    <3> QED BY <1>9, <3>1 DEF Reject
  <2>4. StillServed' BY <1>9 DEF Reject
  <2> QED BY <2>1, <2>2, <2>3, <2>4
<1>10. ASSUME NEW t \in Threads, CreateTmp(t)
       PROVE Service'
  BY <1>10 DEF CreateTmp
<1>11. ASSUME NEW t \in Threads, WriteSome(t)
       PROVE Service'
  BY <1>11 DEF WriteSome
<1>12. ASSUME NEW t \in Threads, WriteAll(t)
       PROVE Service'
  BY <1>12 DEF WriteAll
<1>13. ASSUME NEW t \in Threads, Sync(t)
       PROVE Service'
  BY <1>13 DEF Sync
<1>14. ASSUME NEW t \in Threads, Rename(t)
       PROVE Service'
  <2>0. /\ file(t) \in Files /\ path(t) \in Paths
        /\ disk'[path(t)].data = memory[file(t)]
    BY <1>14, BusyPath DEF Rename
  <2>1. MustSeeOK' BY <1>14 DEF Rename
  <2>2. Promises'
    <3>1. disk[path(t)].data \subseteq memory[file(t)] \cup lost[path(t)]
      BY <1>14, BusyPath DEF Rename
    <3>2. \A p \in Paths : disk[p].data \cup lost[p] \subseteq disk'[p].data \cup lost'[p]
      BY <1>14, <2>0, <3>1 DEF Rename
    <3>3. AckedDurable' BY <1>14, <3>2 DEF Rename
    <3>4. RequestsSeeAcked' BY <1>14 DEF Rename
    <3> QED BY <3>3, <3>4
  <2>3. NoDirtyReads'
    <3> SUFFICES ASSUME NEW u \in Threads, SawGraph(u)'
                 PROVE  seen'[u] \subseteq disk'[path(u)].data \cup unsaved'
      BY <1>14 DEF Rename
    <3>1. SawGraph(u) /\ seen' = seen /\ unsaved' = unsaved /\ path(u) \in Paths
      BY <1>14, BusyPath DEF Rename
    <3>2. CASE path(u) = path(t)
      BY <1>14, <2>0, <3>1, <3>2, BusyPath DEF Rename
    <3>3. CASE path(u) # path(t)
      BY <1>14, <3>1, <3>3 DEF Rename
    <3> QED BY <3>2, <3>3
  <2>4. StillServed' BY <1>14 DEF Rename
  <2> QED BY <2>1, <2>2, <2>3, <2>4
<1>15. ASSUME NEW t \in Threads, SaveFails(t)
       PROVE Service'
  <2>1. MustSeeOK' BY <1>15 DEF SaveFails
  <2>2. Promises' BY <1>15 DEF SaveFails
  <2>3. NoDirtyReads' BY <1>15 DEF SaveFails
  <2>4. StillServed' BY <1>15 DEF SaveFails
  <2> QED BY <2>1, <2>2, <2>3, <2>4
<1>16. ASSUME NEW t \in Threads, Unlock(t)
       PROVE Service'
  BY <1>16 DEF Unlock
<1>17. ASSUME NEW t \in Threads, Reply(t)
       PROVE Service'
  <2>1. MustSeeOK' BY <1>17 DEF Reply
  <2>2. Promises' BY <1>17 DEF Reply
  <2>3. NoDirtyReads' BY <1>17 DEF Reply
  <2>4. StillServed' BY <1>17 DEF Reply
  <2> QED BY <2>1, <2>2, <2>3, <2>4
<1>18. ASSUME NEW p \in Paths, FlushDir(p)
       PROVE Service'
  BY <1>18 DEF FlushDir
<1>19. ASSUME Crash
       PROVE Service'
  BY <1>19 DEF Crash, ProcessGone
<1>20. ASSUME PowerLoss
       PROVE Service'
  BY <1>20 DEF PowerLoss, ProcessGone
<1>21. ASSUME NEW t \in Threads, LoadMissed(t)
       PROVE Service'
  <2>1. MustSeeOK' BY <1>21 DEF LoadMissed
  <2>2. Promises' BY <1>21 DEF LoadMissed
  <2>3. NoDirtyReads' BY <1>21 DEF LoadMissed
  <2>0. \A u \in Threads : SawGraph(u) => file(u) # file(t)
    BY <1>21 DEF LoadMissed
  <2>4. StillServed' BY <1>21, <2>0 DEF LoadMissed
  <2> QED BY <2>1, <2>2, <2>3, <2>4
<1> QED BY <1>1, <1>2, <1>3, <1>4, <1>5, <1>6, <1>7, <1>8, <1>9, <1>10, <1>11, <1>12, <1>13, <1>14, <1>15, <1>16, <1>17, <1>18, <1>19, <1>20, <1>21 DEF Next, Step

-----------------------------------------------------------------------------
(* The theorems.                                                           *)

\* The invariant holds when the store is started on empty files: its types,
LEMMA InitTyping ==
    ASSUME Init PROVE Typing
<1>1. EmptyImage(TRUE) \in Image
  BY Images
<1> QED BY <1>1 DEF Init, Typing, TypeOK, OpsOK, Steps, HoldsWrite

\* and its other layers.
LEMMA InitRest ==
    ASSUME Init PROVE Locks /\ Content /\ Service
<1>1. Locks
  BY DEF Init, Locks, Exclusion, LoadingOK, LoadedOK, UsesStore, HoldsWrite
<1>2. Content
  BY DEF Init, Content, HandlesOK, TmpOK, DiskOK, MemoryOK, AppliedOK,
         Saving, EmptyImage
<1>3. Service
  BY DEF Init, Service, MustSeeOK, StillServed, Promises, NoDirtyReads, AckedDurable,
         RequestsSeeAcked, SawGraph
<1> QED BY <1>1, <1>2, <1>3

\* Every variable keeps its type, whatever the names resolve to and whatever
\* fails.
THEOREM TypeCorrect == Spec => []TypeOK
<1>1. Init => Typing
  BY InitTyping
<1>2. Typing /\ [Next]_vars => Typing'
  BY TypingStep
<1>3. Typing => TypeOK
  BY DEF Typing
<1> QED BY <1>1, <1>2, <1>3, PTL DEF Spec

\* The inductive invariant, for names that resolve to distinct paths.
THEOREM Invariance == ASSUME DistinctPaths PROVE Spec => []IInv
<1>1. Init => IInv
  BY InitTyping, InitRest DEF IInv
<1>2. IInv /\ [Next]_vars => IInv'
  <2> SUFFICES ASSUME IInv, [Next]_vars PROVE IInv'
    OBVIOUS
  <2>1. Typing' BY TypingStep DEF IInv
  <2>2. Locks' BY LocksStep DEF IInv
  <2>3. Content' BY ContentStep DEF IInv
  <2>4. Service' BY ServiceStep
  <2> QED BY <2>1, <2>2, <2>3, <2>4 DEF IInv
<1> QED BY <1>1, <1>2, PTL DEF Spec

\* save_graph never lets a partial file be seen, through crashes, failed saves
\* and power losses.
THEOREM NeverTorn == ASSUME DistinctPaths PROVE Spec => []NoTornFile
<1>1. IInv => NoTornFile
  BY DEF IInv, Content, DiskOK, NoTornFile
<1> QED BY <1>1, Invariance, PTL

\* What a client was told had succeeded is in the file, unless a failed stat or
\* a power loss took it away.
THEOREM Durability == ASSUME DistinctPaths PROVE Spec => []AckedDurable
<1>1. IInv => AckedDurable
  BY DEF IInv, Service, Promises
<1> QED BY <1>1, Invariance, PTL

\* Every closure runs on a graph that has all that was acknowledged before its
\* request was sent, but for what is lost in that way.
THEOREM Freshness == ASSUME DistinctPaths PROVE Spec => []RequestsSeeAcked
<1>1. IInv => RequestsSeeAcked
  BY DEF IInv, Service, Promises
<1> QED BY <1>1, Invariance, PTL

\* With no failing stat and no power loss nothing is lost at all: whichever
\* loads and saves fail and whenever the process dies, what a client was told
\* had succeeded is in the file.
AckedInFile == \A m \in acked : m \in disk[PathOf[FileOf[m]]].data
THEOREM NothingLost ==
    ASSUME DistinctPaths, "stat" \notin Failures, "power" \notin Failures
    PROVE  Spec => []AckedInFile
<1> DEFINE Kept == \A p \in Paths : lost[p] = {}
<1>1. Init => Kept
  BY DEF Init
<1>2. Kept /\ [Next]_vars => Kept'
  BY DEF Next, Step, Begin, Lookup, LoadOk, LoadErr, LoadMissed, AcquireRead, ReadDone,
         AcquireWrite, Apply, Reject, CreateTmp, WriteSome, WriteAll, Sync, Rename,
         SaveFails, Unlock, Reply, FlushDir, Crash, PowerLoss, vars, history
<1>3. IInv /\ Kept => AckedInFile
  BY StoreAssumption DEF IInv, Typing, TypeOK, Service, Promises, AckedDurable, AckedInFile
<1> QED BY <1>1, <1>2, <1>3, Invariance, PTL DEF Spec

\* No request sees a mutation that is not in the file, unless its save failed
\* and that was reported.
THEOREM NoDirtyRead == ASSUME DistinctPaths PROVE Spec => []NoDirtyReads
<1>1. IInv => NoDirtyReads
  BY DEF IInv, Service
<1> QED BY <1>1, Invariance, PTL

\* The graph in memory and the file differ by failed saves and by what a failed
\* stat has hidden only.
THEOREM CacheCoherence == ASSUME DistinctPaths PROVE Spec => []MemoryMatchesDisk
<1>1. IInv => MemoryMatchesDisk
  <2> SUFFICES ASSUME IInv, NEW f \in loaded, ~WriteLocked(f)
               PROVE  /\ disk[PathOf[f]].data \subseteq memory[f] \cup lost[PathOf[f]]
                      /\ memory[f] \subseteq disk[PathOf[f]].data \cup unsaved
    BY DEF MemoryMatchesDisk
  <2>1. \A t \in Threads : Saving(t) => file(t) # f
    BY DEF WriteLocked, Saving, HoldsWrite
  <2> QED BY <2>1 DEF IInv, Content, MemoryOK
<1> QED BY <1>1, Invariance, PTL

\* Nothing that has reached the disk is taken back, unless a failed stat hid it.
THEOREM NoRegression == ASSUME DistinctPaths PROVE Spec => PlatterNeverRegresses
<1> DEFINE Grows == \A p \in Paths : platter[p].data \subseteq platter'[p].data \cup lost'[p]
<1>1. IInv /\ [Next]_vars => [Grows]_vars
  <2> SUFFICES ASSUME IInv, Next, NEW p \in Paths
               PROVE  platter[p].data \subseteq platter'[p].data \cup lost'[p]
    OBVIOUS
  <2>1. CASE UNCHANGED platter
    BY <2>1
  <2>2. ASSUME NEW q \in Paths, FlushDir(q)
        PROVE  platter[p].data \subseteq platter'[p].data \cup lost'[p]
    <3>1. platter' = [platter EXCEPT ![q] = disk[q]]
      BY <2>2 DEF FlushDir, Survivors, IInv, Content, DiskOK
    <3>2. /\ platter'[p] = IF p = q THEN disk[p] ELSE platter[p]
          /\ platter[p].data \subseteq disk[p].data \cup lost[p]
      BY <3>1 DEF IInv, Typing, TypeOK, Content, DiskOK
    <3>3. lost' = lost
      BY <2>2 DEF FlushDir, history
    <3> QED BY <3>2, <3>3
  <2>3. UNCHANGED platter \/ \E q \in Paths : FlushDir(q)
    BY DEF Next, Step, Begin, Lookup, LoadOk, LoadErr, LoadMissed,
           AcquireRead, ReadDone, AcquireWrite, Apply, Reject, CreateTmp, WriteSome,
           WriteAll, Sync, Rename, SaveFails, Unlock, Reply, Crash, PowerLoss, diskVars
  <2> QED BY <2>1, <2>2, <2>3
<1> QED BY <1>1, Invariance, PTL DEF Spec, PlatterNeverRegresses
=============================================================================
