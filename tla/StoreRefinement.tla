-------------------------- MODULE StoreRefinement ---------------------------
(***************************************************************************)
(* Store implements AtomicStore: what threads, locks, save steps, failed   *)
(* loads and saves, crashes and power losses do to a file is a sequence of *)
(* mutations that become durable, visible and acknowledged, each once and  *)
(* whole, and of losses that the abstract store knows of.                  *)
(***************************************************************************)
EXTENDS StoreProofs

-----------------------------------------------------------------------------
(* Each mutation is under way in one thread at most, and is in no graph    *)
(* before that thread's closure and in no file before its rename.          *)

Busy(t) == pc[t] # "idle" /\ op[t] \in Mutations

NotYetApplied(t) == Busy(t) /\ pc[t] \in {"lookup", "loading", "wait", "locked"}

OnceServed ==
    /\ \A t \in Threads : Busy(t) => op[t] \in issued /\ op[t] \notin acked
    /\ \A t, u \in Threads : Busy(t) /\ Busy(u) /\ op[t] = op[u] => t = u

OnlyIssued ==
    /\ acked \subseteq issued
    /\ \A f \in Files : memory[f] \subseteq issued
    /\ \A p \in Paths : disk[p].data \cup lost[p] \subseteq issued

NotEarly ==
    /\ \A t \in Threads : NotYetApplied(t) =>
          /\ \A f \in Files : op[t] \notin memory[f]
          /\ \A p \in Paths : op[t] \notin disk[p].data
    /\ \A t \in Threads : Saving(t) => op[t] \notin disk[path(t)].data

Once == OnceServed /\ OnlyIssued /\ NotEarly

\* A mutation is under way once, and in no graph before its time.
LEMMA OnceStep ==
    ASSUME DistinctPaths, IInv, Once, [Next]_vars
    PROVE  Once'
<1> USE StoreAssumption DEF Goto, threadVars, diskVars, history, file, path, HoldsWrite, Saving, Typing, TypeOK, OpsOK, Once, OnceServed, OnlyIssued, NotEarly, Busy, NotYetApplied, WriteInode, Image
<1>0. Typing
  BY DEF IInv
<1> SUFFICES ASSUME Next PROVE Once'
  BY DEF vars
<1>1. ASSUME NEW t \in Threads, NEW o \in Requests, Begin(t, o)
       PROVE Once'
  <2>1. OnceServed' BY <1>0, <1>1 DEF Begin
  <2>2. OnlyIssued' BY <1>0, <1>1 DEF Begin
  <2>3. NotEarly' BY <1>0, <1>1 DEF Begin
  <2> QED BY <2>1, <2>2, <2>3
<1>2. ASSUME NEW t \in Threads, Lookup(t)
       PROVE Once'
  <2>1. OnceServed' BY <1>0, <1>2 DEF Lookup
  <2>2. OnlyIssued' BY <1>0, <1>2 DEF Lookup
  <2>3. NotEarly' BY <1>0, <1>2 DEF Lookup
  <2> QED BY <2>1, <2>2, <2>3
<1>3. ASSUME NEW t \in Threads, LoadOk(t)
       PROVE Once'
  <2>1. OnceServed' BY <1>0, <1>3 DEF LoadOk
  <2>2. OnlyIssued' BY <1>0, <1>3 DEF LoadOk
  <2>3. NotEarly' BY <1>0, <1>3 DEF LoadOk
  <2> QED BY <2>1, <2>2, <2>3
<1>4. ASSUME NEW t \in Threads, LoadErr(t)
       PROVE Once'
  <2>1. OnceServed' BY <1>0, <1>4 DEF LoadErr
  <2>2. OnlyIssued' BY <1>0, <1>4 DEF LoadErr
  <2>3. NotEarly' BY <1>0, <1>4 DEF LoadErr
  <2> QED BY <2>1, <2>2, <2>3
<1>5. ASSUME NEW t \in Threads, AcquireRead(t)
       PROVE Once'
  <2>1. OnceServed' BY <1>0, <1>5 DEF AcquireRead
  <2>2. OnlyIssued' BY <1>0, <1>5 DEF AcquireRead
  <2>3. NotEarly' BY <1>0, <1>5 DEF AcquireRead
  <2> QED BY <2>1, <2>2, <2>3
<1>6. ASSUME NEW t \in Threads, ReadDone(t)
       PROVE Once'
  <2>1. OnceServed' BY <1>0, <1>6 DEF ReadDone
  <2>2. OnlyIssued' BY <1>0, <1>6 DEF ReadDone
  <2>3. NotEarly' BY <1>0, <1>6 DEF ReadDone
  <2> QED BY <2>1, <2>2, <2>3
<1>7. ASSUME NEW t \in Threads, AcquireWrite(t)
       PROVE Once'
  <2>1. OnceServed' BY <1>0, <1>7 DEF AcquireWrite
  <2>2. OnlyIssued' BY <1>0, <1>7 DEF AcquireWrite
  <2>3. NotEarly' BY <1>0, <1>7 DEF AcquireWrite
  <2> QED BY <2>1, <2>2, <2>3
<1>8. ASSUME NEW t \in Threads, Apply(t)
       PROVE Once'
  <2>1. OnceServed' BY <1>0, <1>8 DEF Apply
  <2>2. OnlyIssued' BY <1>0, <1>8 DEF Apply
  <2>3. NotEarly' BY <1>0, <1>8 DEF Apply
  <2> QED BY <2>1, <2>2, <2>3
<1>9. ASSUME NEW t \in Threads, Reject(t)
       PROVE Once'
  <2>1. OnceServed' BY <1>0, <1>9 DEF Reject
  <2>2. OnlyIssued' BY <1>0, <1>9 DEF Reject
  <2>3. NotEarly' BY <1>0, <1>9 DEF Reject
  <2> QED BY <2>1, <2>2, <2>3
<1>10. ASSUME NEW t \in Threads, CreateTmp(t)
       PROVE Once'
  <2>1. disk' = disk
    BY <1>10 DEF CreateTmp, IInv, Content, HandlesOK
  <2>2. OnceServed' BY <1>0, <1>10 DEF CreateTmp
  <2>3. OnlyIssued' BY <1>0, <1>10, <2>1 DEF CreateTmp
  <2>4. NotEarly' BY <1>0, <1>10, <2>1 DEF CreateTmp
  <2> QED BY <2>2, <2>3, <2>4
<1>11. ASSUME NEW t \in Threads, WriteSome(t)
       PROVE Once'
  <2>1. disk' = disk
    BY <1>11 DEF WriteSome, IInv, Content, HandlesOK
  <2>2. OnceServed' BY <1>0, <1>11 DEF WriteSome
  <2>3. OnlyIssued' BY <1>0, <1>11, <2>1 DEF WriteSome
  <2>4. NotEarly' BY <1>0, <1>11, <2>1 DEF WriteSome
  <2> QED BY <2>2, <2>3, <2>4
<1>12. ASSUME NEW t \in Threads, WriteAll(t)
       PROVE Once'
  <2>1. disk' = disk
    BY <1>12 DEF WriteAll, IInv, Content, HandlesOK
  <2>2. OnceServed' BY <1>0, <1>12 DEF WriteAll
  <2>3. OnlyIssued' BY <1>0, <1>12, <2>1 DEF WriteAll
  <2>4. NotEarly' BY <1>0, <1>12, <2>1 DEF WriteAll
  <2> QED BY <2>2, <2>3, <2>4
<1>13. ASSUME NEW t \in Threads, Sync(t)
       PROVE Once'
  <2>1. disk' = disk
    BY <1>13 DEF Sync, IInv, Content, HandlesOK
  <2>2. OnceServed' BY <1>0, <1>13 DEF Sync
  <2>3. OnlyIssued' BY <1>0, <1>13, <2>1 DEF Sync
  <2>4. NotEarly' BY <1>0, <1>13, <2>1 DEF Sync
  <2> QED BY <2>2, <2>3, <2>4
<1>14. ASSUME NEW t \in Threads, Rename(t)
       PROVE Once'
  <2>0. /\ disk' = [disk EXCEPT ![path(t)] = tmp[path(t)]]
        /\ tmp[path(t)].data = memory[file(t)]
        /\ file(t) \in Files /\ path(t) \in Paths
    BY <1>0, <1>14, BusyPath DEF Rename, IInv, Content, TmpOK
  <2>1. \A p \in Paths : disk'[p].data = IF p = path(t) THEN memory[file(t)] ELSE disk[p].data
    BY <1>0, <2>0
  <2>2. OnceServed' BY <1>0, <1>14 DEF Rename
  <2>3. OnlyIssued' BY <1>0, <1>14, <2>0, <2>1 DEF Rename
  <2>4. NotEarly'
    <3>1. \A u \in Threads \ {t} : Saving(u) => path(u) # path(t)
      BY <1>0, <1>14, OneSaverPerPath DEF Rename, IInv
    <3> QED BY <1>0, <1>14, <2>0, <2>1, <3>1, BusyPath DEF Rename
  <2> QED BY <2>2, <2>3, <2>4
<1>15. ASSUME NEW t \in Threads, SaveFails(t)
       PROVE Once'
  <2>1. OnceServed' BY <1>0, <1>15 DEF SaveFails
  <2>2. OnlyIssued' BY <1>0, <1>15 DEF SaveFails
  <2>3. NotEarly' BY <1>0, <1>15 DEF SaveFails
  <2> QED BY <2>1, <2>2, <2>3
<1>16. ASSUME NEW t \in Threads, Unlock(t)
       PROVE Once'
  <2>1. OnceServed' BY <1>0, <1>16 DEF Unlock
  <2>2. OnlyIssued' BY <1>0, <1>16 DEF Unlock
  <2>3. NotEarly' BY <1>0, <1>16 DEF Unlock
  <2> QED BY <2>1, <2>2, <2>3
<1>17. ASSUME NEW t \in Threads, Reply(t)
       PROVE Once'
  <2>1. OnceServed' BY <1>0, <1>17 DEF Reply
  <2>2. OnlyIssued' BY <1>0, <1>17 DEF Reply
  <2>3. NotEarly' BY <1>0, <1>17 DEF Reply
  <2> QED BY <2>1, <2>2, <2>3
<1>18. ASSUME NEW p \in Paths, FlushDir(p)
       PROVE Once'
  <2>1. OnceServed' BY <1>0, <1>18 DEF FlushDir
  <2>2. OnlyIssued' BY <1>0, <1>18 DEF FlushDir
  <2>3. NotEarly' BY <1>0, <1>18 DEF FlushDir
  <2> QED BY <2>1, <2>2, <2>3
<1>19. ASSUME Crash
       PROVE Once'
  <2>1. OnceServed' BY <1>0, <1>19 DEF Crash, ProcessGone
  <2>2. OnlyIssued' BY <1>0, <1>19 DEF Crash, ProcessGone
  <2>3. NotEarly' BY <1>0, <1>19 DEF Crash, ProcessGone
  <2> QED BY <2>1, <2>2, <2>3
<1>20. ASSUME PowerLoss
       PROVE Once'
  <2>1. OnceServed' BY <1>0, <1>20 DEF PowerLoss, ProcessGone, IInv, Content, DiskOK
  <2>2. OnlyIssued' BY <1>0, <1>20 DEF PowerLoss, ProcessGone, IInv, Content, DiskOK
  <2>3. NotEarly' BY <1>0, <1>20 DEF PowerLoss, ProcessGone, IInv, Content, DiskOK
  <2> QED BY <2>1, <2>2, <2>3
<1>21. ASSUME NEW t \in Threads, LoadMissed(t)
       PROVE Once'
  <2>1. OnceServed' BY <1>0, <1>21 DEF LoadMissed
  <2>2. OnlyIssued' BY <1>0, <1>21, BusyPath DEF LoadMissed
  <2>3. NotEarly' BY <1>0, <1>21 DEF LoadMissed
  <2> QED BY <2>1, <2>2, <2>3
<1> QED BY <1>1, <1>2, <1>3, <1>4, <1>5, <1>6, <1>7, <1>8, <1>9, <1>10, <1>11, <1>12, <1>13, <1>14, <1>15, <1>16, <1>17, <1>18, <1>19, <1>20, <1>21 DEF Next, Step

\* Nothing is under way at first.
LEMMA InitOnce == ASSUME Init PROVE Once
  BY StoreAssumption DEF Init, Once, OnceServed, OnlyIssued, NotEarly, Busy, NotYetApplied,
         Saving, EmptyImage

-----------------------------------------------------------------------------
(* The steps.                                                              *)

\* What is served of one file, before a step and after it.
LEMMA ServedAt ==
    ASSUME NEW f \in Files
    PROVE  /\ Served[f] = IF f \in loaded THEN memory[f] \ InFlight(f)
                                          ELSE disk[PathOf[f]].data
           /\ Served'[f] = IF f \in loaded' THEN memory'[f] \ InFlight(f)'
                                            ELSE disk'[PathOf[f]].data
  BY DEF Served

\* A thread that holds a write lock has the only operation in flight.
LEMMA OneInFlight ==
    ASSUME IInv, NEW t \in Threads, HoldsWrite(t)
    PROVE  InFlight(file(t)) = {op[t]}
  BY DEF IInv, Locks, Exclusion, InFlight

\* What the clients can tell apart is in these variables.
LEMMA SameView ==
    ASSUME loaded' = loaded, memory' = memory, disk' = disk, lost' = lost,
           \A t \in Threads : /\ HoldsWrite(t)' <=> HoldsWrite(t)
                              /\ HoldsWrite(t) => op'[t] = op[t]
    PROVE  Served' = Served /\ Durable' = Durable /\ Lost' = Lost
<1>1. \A f \in Files : InFlight(f)' = InFlight(f)
  BY DEF InFlight, file
<1> QED BY <1>1 DEF Served, Durable, Lost

\* The specification's steps that are none of AtomicStore's.
Stutters == Served' = Served /\ Durable' = Durable /\ Lost' = Lost /\ acked' = acked

\* What a thread is about to acknowledge is visible: its operation is no other
\* thread's.
LEMMA ReplyVisible ==
    ASSUME IInv, Once, NEW t \in Threads, pc[t] = "reply",
           op[t] \in Mutations, outcome[t] = "ok"
    PROVE  op[t] \in Served[file(t)]
<1>0. Typing /\ Locks /\ Content
  BY DEF IInv
<1>1. file(t) \in Files /\ path(t) = PathOf[file(t)]
  BY <1>0, BusyPath DEF path
<1>2. op[t] \in disk[PathOf[file(t)]].data
  BY <1>0, <1>1 DEF Content, AppliedOK
<1>3. op[t] \notin InFlight(file(t))
  <2>1. \A u \in Threads : HoldsWrite(u) => u # t /\ Busy(u)
    BY <1>0 DEF HoldsWrite, Busy, Typing, OpsOK
  <2>2. \A u \in Threads : HoldsWrite(u) => op[u] # op[t]
    BY <2>1 DEF Once, OnceServed, Busy
  <2> QED BY <2>2 DEF InFlight
<1>4. op[t] \in memory[file(t)]
  BY <1>0 DEF Content, AppliedOK
<1> QED BY <1>1, <1>2, <1>3, <1>4 DEF Served

\* Every step is one of AtomicStore, or none.
LEMMA StepMaps ==
    ASSUME DistinctPaths, IInv, Once, [Next]_vars
    PROVE  [Atomic!ANext]_(Atomic!avars)
<1> USE StoreAssumption DEF Goto, threadVars, diskVars, history, Typing, TypeOK, OpsOK, HoldsWrite
<1>0. Typing /\ Locks /\ Content
  BY DEF IInv
<1> SUFFICES ASSUME Next PROVE Stutters \/ Atomic!ANext
  <2>1. UNCHANGED vars => Stutters
    <3> SUFFICES ASSUME UNCHANGED vars PROVE Stutters
      OBVIOUS
    <3>1. Served' = Served /\ Durable' = Durable /\ Lost' = Lost
      BY SameView DEF vars
    <3> QED BY <3>1 DEF vars, Stutters
  <2> QED BY <2>1 DEF Stutters, Atomic!avars
<1>1. ASSUME NEW t \in Threads, NEW q \in Requests, Begin(t, q)
       PROVE Stutters \/ Atomic!ANext
  <2>1. Served' = Served /\ Durable' = Durable /\ Lost' = Lost
    BY <1>0, <1>1, SameView DEF Begin
  <2> QED BY <2>1, <1>1 DEF Begin, Stutters
<1>2. ASSUME NEW t \in Threads, Lookup(t)
       PROVE Stutters \/ Atomic!ANext
  <2>1. Served' = Served /\ Durable' = Durable /\ Lost' = Lost
    BY <1>0, <1>2, SameView DEF Lookup
  <2> QED BY <2>1, <1>2 DEF Lookup, Stutters
<1>3. ASSUME NEW t \in Threads, LoadOk(t)
       PROVE Stutters \/ Atomic!ANext
  <2>0. file(t) \in Files /\ path(t) = PathOf[file(t)] /\ file(t) \notin loaded
    BY <1>0, <1>3, BusyPath DEF LoadOk, Locks, LoadingOK, path
  <2>1. InFlight(file(t)) = {}
    BY <1>0, <2>0 DEF Locks, LoadedOK, UsesStore, InFlight
  <2>3. ASSUME NEW f \in Files PROVE Served'[f] = Served[f]
    <3>1. InFlight(f)' = InFlight(f)
      BY <1>0, <1>3 DEF LoadOk, InFlight, file
    <3>2. Served'[f] = IF f \in loaded' THEN memory'[f] \ InFlight(f)
                                        ELSE disk'[PathOf[f]].data
      BY <3>1, ServedAt
    <3>3. CASE f = file(t)
      <4>1. InFlight(f) = {} /\ f \notin loaded /\ f \in loaded'
        BY <1>3, <2>0, <2>1, <3>3 DEF LoadOk
      <4>2. memory'[f] = disk[PathOf[f]].data
        BY <1>0, <1>3, <2>0, <3>3 DEF LoadOk
      <4>3. Served[f] = disk[PathOf[f]].data
        BY <4>1, ServedAt
      <4> QED BY <3>2, <4>1, <4>2, <4>3
    <3>4. CASE f # file(t)
      BY <1>0, <1>3, <3>2, <3>4, ServedAt DEF LoadOk
    <3> QED BY <3>3, <3>4
  <2>4. Served' = Served /\ Durable' = Durable /\ Lost' = Lost
    BY <1>3, <2>3 DEF LoadOk, Served, Durable, Lost
  <2> QED BY <2>4, <1>3 DEF LoadOk, Stutters
<1>4. ASSUME NEW t \in Threads, LoadErr(t)
       PROVE Stutters \/ Atomic!ANext
  <2>1. Served' = Served /\ Durable' = Durable /\ Lost' = Lost
    BY <1>0, <1>4, SameView DEF LoadErr
  <2> QED BY <2>1, <1>4 DEF LoadErr, Stutters
<1>5. ASSUME NEW t \in Threads, AcquireRead(t)
       PROVE Stutters \/ Atomic!ANext
  <2>1. Served' = Served /\ Durable' = Durable /\ Lost' = Lost
    BY <1>0, <1>5, SameView DEF AcquireRead
  <2> QED BY <2>1, <1>5 DEF AcquireRead, Stutters
<1>6. ASSUME NEW t \in Threads, ReadDone(t)
       PROVE Stutters \/ Atomic!ANext
  <2>1. Served' = Served /\ Durable' = Durable /\ Lost' = Lost
    BY <1>0, <1>6, SameView DEF ReadDone
  <2> QED BY <2>1, <1>6 DEF ReadDone, Stutters
<1>7. ASSUME NEW t \in Threads, AcquireWrite(t)
       PROVE Stutters \/ Atomic!ANext
  <2>0. /\ file(t) \in Files /\ file(t) \in loaded
        /\ op[t] \notin memory[file(t)] /\ op' = op
    BY <1>0, <1>7, BusyPath DEF AcquireWrite, Locks, LoadedOK, UsesStore,
       Once, NotEarly, NotYetApplied, Busy
  <2>3. ASSUME NEW f \in Files PROVE Served'[f] = Served[f]
    <3>1. InFlight(f)' = IF f = file(t) THEN InFlight(f) \cup {op[t]} ELSE InFlight(f)
      BY <1>0, <1>7 DEF AcquireWrite, InFlight, file
    <3>2. Served'[f] = IF f \in loaded THEN memory[f] \ InFlight(f) ELSE disk[PathOf[f]].data
      <4>1. CASE f = file(t)
        <5>1. InFlight(f)' = InFlight(f) \cup {op[t]} /\ op[t] \notin memory[f]
          BY <2>0, <3>1, <4>1
        <5>2. memory[f] \ InFlight(f)' = memory[f] \ InFlight(f)
          BY <5>1
        <5> QED BY <1>7, <2>0, <4>1, <5>2, ServedAt DEF AcquireWrite
      <4>2. CASE f # file(t)
        <5>1. InFlight(f)' = InFlight(f)
          BY <3>1, <4>2
        <5> QED BY <1>7, <5>1, ServedAt DEF AcquireWrite
      <4> QED BY <4>1, <4>2
    <3> QED BY <3>2, ServedAt
  <2>4. Served' = Served /\ Durable' = Durable /\ Lost' = Lost
    BY <1>7, <2>3 DEF AcquireWrite, Served, Durable, Lost
  <2> QED BY <2>4, <1>7 DEF AcquireWrite, Stutters
<1>8. ASSUME NEW t \in Threads, Apply(t)
       PROVE Stutters \/ Atomic!ANext
  <2>0. file(t) \in Files /\ InFlight(file(t)) = {op[t]}
    BY <1>0, <1>8, BusyPath, OneInFlight DEF Apply
  <2>3. ASSUME NEW f \in Files PROVE Served'[f] = Served[f]
    <3>1. InFlight(f)' = InFlight(f)
      BY <1>0, <1>8 DEF Apply, InFlight, file
    <3>2. Served'[f] = IF f \in loaded THEN memory'[f] \ InFlight(f) ELSE disk[PathOf[f]].data
      BY <1>8, <3>1, ServedAt DEF Apply
    <3> QED BY <1>0, <1>8, <2>0, <3>2, ServedAt DEF Apply
  <2>4. Served' = Served /\ Durable' = Durable /\ Lost' = Lost
    BY <1>8, <2>3 DEF Apply, Served, Durable, Lost
  <2> QED BY <2>4, <1>8 DEF Apply, Stutters
<1>9. ASSUME NEW t \in Threads, Reject(t)
       PROVE Stutters \/ Atomic!ANext
  <2>1. Served' = Served /\ Durable' = Durable /\ Lost' = Lost
    BY <1>0, <1>9, SameView DEF Reject
  <2> QED BY <2>1, <1>9 DEF Reject, Stutters
<1>10. ASSUME NEW t \in Threads, CreateTmp(t)
       PROVE Stutters \/ Atomic!ANext
  <2>0. disk' = disk
    BY <1>0, <1>10 DEF CreateTmp, WriteInode, Content, HandlesOK
  <2>1. Served' = Served /\ Durable' = Durable /\ Lost' = Lost
    BY <1>0, <1>10, <2>0, SameView DEF CreateTmp
  <2> QED BY <2>1, <1>10 DEF CreateTmp, Stutters
<1>11. ASSUME NEW t \in Threads, WriteSome(t)
       PROVE Stutters \/ Atomic!ANext
  <2>0. disk' = disk
    BY <1>0, <1>11 DEF WriteSome, WriteInode, Content, HandlesOK
  <2>1. Served' = Served /\ Durable' = Durable /\ Lost' = Lost
    BY <1>0, <1>11, <2>0, SameView DEF WriteSome
  <2> QED BY <2>1, <1>11 DEF WriteSome, Stutters
<1>12. ASSUME NEW t \in Threads, WriteAll(t)
       PROVE Stutters \/ Atomic!ANext
  <2>0. disk' = disk
    BY <1>0, <1>12 DEF WriteAll, WriteInode, Content, HandlesOK
  <2>1. Served' = Served /\ Durable' = Durable /\ Lost' = Lost
    BY <1>0, <1>12, <2>0, SameView DEF WriteAll
  <2> QED BY <2>1, <1>12 DEF WriteAll, Stutters
<1>13. ASSUME NEW t \in Threads, Sync(t)
       PROVE Stutters \/ Atomic!ANext
  <2>0. disk' = disk
    BY <1>0, <1>13 DEF Sync, WriteInode, Content, HandlesOK
  <2>1. Served' = Served /\ Durable' = Durable /\ Lost' = Lost
    BY <1>0, <1>13, <2>0, SameView DEF Sync
  <2> QED BY <2>1, <1>13 DEF Sync, Stutters
<1>14. ASSUME NEW t \in Threads, Rename(t)
       PROVE Stutters \/ Atomic!ANext
  <2> DEFINE m == op[t]
             f == file(t)
  <2>0. /\ f \in Files /\ path(t) = PathOf[f] /\ path(t) \in Paths /\ f \in loaded
        /\ m \in Mutations /\ InFlight(f) = {m}
    BY <1>0, <1>14, BusyPath, OneInFlight DEF Rename, path, Locks, LoadedOK, UsesStore
  <2>1. /\ tmp[path(t)].data = memory[f] /\ m \in memory[f]
        /\ disk[path(t)].data \subseteq memory[f] \cup lost[path(t)]
    BY <1>0, <1>14, <2>0 DEF Rename, Content, TmpOK, AppliedOK, Saving, MemoryOK
  <2>2. m \notin disk[path(t)].data /\ m \notin acked
    BY <1>0, <1>14, <2>0 DEF Rename, Once, NotEarly, OnceServed, Busy, Saving
  <2>3. \A g \in Files : disk'[PathOf[g]] = IF g = f THEN tmp[path(t)] ELSE disk[PathOf[g]]
    BY <1>0, <1>14, <2>0 DEF Rename, DistinctPaths
  <2>4. ASSUME NEW g \in Files PROVE Served'[g] = Served[g]
    <3>1. InFlight(g)' = InFlight(g)
      BY <1>0, <1>14 DEF Rename, InFlight, file
    <3>2. Served'[g] = IF g \in loaded THEN memory[g] \ InFlight(g) ELSE disk'[PathOf[g]].data
      BY <1>14, <3>1, ServedAt DEF Rename
    <3> QED BY <2>0, <2>3, <3>2, ServedAt
  <2>5. Served' = Served
    BY <2>4 DEF Served
  <2>6. /\ Served[f] = memory[f] \ {m} /\ Durable[f] = disk[path(t)].data
        /\ Lost[f] = lost[path(t)]
    BY <2>0 DEF Served, Durable, Lost
  <2>7. Durable' = [Durable EXCEPT ![f] = memory[f]]
    BY <2>0, <2>1, <2>3 DEF Durable
  <2>8. f = FileOf[m] /\ memory[f] = Served[f] \cup {m} /\ acked' = acked /\ Lost' = Lost
    BY <1>14, <2>1, <2>6 DEF Rename, file, Lost
  <2>9. Atomic!Persist(m)
    BY <2>1, <2>2, <2>5, <2>6, <2>7, <2>8 DEF Atomic!Persist
  <2> QED BY <2>0, <2>9 DEF Atomic!ANext
<1>15. ASSUME NEW t \in Threads, SaveFails(t)
       PROVE Stutters \/ Atomic!ANext
  <2>1. Served' = Served /\ Durable' = Durable /\ Lost' = Lost
    BY <1>0, <1>15, SameView DEF SaveFails
  <2> QED BY <2>1, <1>15 DEF SaveFails, Stutters
<1>16. ASSUME NEW t \in Threads, Unlock(t)
       PROVE Stutters \/ Atomic!ANext
  <2> DEFINE m == op[t]
             f == file(t)
  <2>0. /\ f \in Files /\ f \in loaded /\ path(t) = PathOf[f] /\ m \in Mutations /\ InFlight(f) = {m}
        /\ f = FileOf[m] /\ m \notin acked
    BY <1>0, <1>16, BusyPath, OneInFlight DEF Unlock, path, Locks, LoadedOK, UsesStore, file,
       Once, OnceServed, Busy
  <2>2. /\ Served[f] = memory[f] \ {m} /\ Durable[f] = disk[path(t)].data
        /\ Lost[f] = lost[path(t)]
    BY <2>0 DEF Served, Durable, Lost
  <2>3. ASSUME NEW g \in Files
        PROVE  Served'[g] = IF g = f THEN memory[g] ELSE Served[g]
    <3>1. InFlight(g)' = IF g = f THEN {} ELSE InFlight(g)
      <4>1. CASE g = f
        BY <1>0, <1>16, <4>1 DEF Unlock, Locks, Exclusion, InFlight, file
      <4>2. CASE g # f
        BY <1>0, <1>16, <4>2 DEF Unlock, InFlight, file
      <4> QED BY <4>1, <4>2
    <3>2. Served'[g] = IF g = f THEN memory[g] ELSE
                       IF g \in loaded THEN memory[g] \ InFlight(g) ELSE disk[PathOf[g]].data
      BY <1>16, <2>0, <3>1, ServedAt DEF Unlock
    <3> QED BY <3>2, ServedAt
  <2>7. Served' = [Served EXCEPT ![f] = memory[f]]
    BY <2>3 DEF Served
  <2>4. Durable' = Durable /\ acked' = acked /\ Lost' = Lost
    BY <1>16 DEF Unlock, Durable, Lost
  <2>5. CASE m \notin memory[f]
    <3>1. Served' = Served
      <4>1. Served[f] = memory[f]
        BY <2>2, <2>5
      <4> QED BY <2>7, <4>1 DEF Served
    <3> QED BY <2>4, <3>1 DEF Stutters
  <2>6. CASE m \in memory[f]
    <3>1. disk[path(t)].data \subseteq memory[f] \cup lost[path(t)]
      BY <1>0, <2>0 DEF Content, MemoryOK
    <3>2. Atomic!Publish(m)
      BY <2>0, <2>2, <2>4, <2>6, <2>7, <3>1 DEF Atomic!Publish
    <3> QED BY <2>0, <3>2 DEF Atomic!ANext
  <2> QED BY <2>5, <2>6
<1>17. ASSUME NEW t \in Threads, Reply(t)
       PROVE Stutters \/ Atomic!ANext
  <2>1. Served' = Served /\ Durable' = Durable /\ Lost' = Lost
    BY <1>0, <1>17, SameView DEF Reply
  <2>2. CASE op[t] \in Mutations /\ outcome[t] = "ok"
    <3> DEFINE m == op[t]
               f == file(t)
    <3>1. f = FileOf[m] /\ f \in Files /\ path(t) = PathOf[f] /\ acked' = acked \cup {m}
      BY <1>0, <1>17, <2>2, BusyPath DEF Reply, file, path
    <3>2. m \in disk[PathOf[f]].data
      BY <1>0, <1>17, <2>2, <3>1 DEF Reply, Content, AppliedOK
    <3>3. m \in Served[f]
      BY <1>17, <2>2, <3>1, <3>2, ReplyVisible DEF Reply
    <3>4. Atomic!Acknowledge(m)
      BY <2>1, <3>1, <3>2, <3>3 DEF Atomic!Acknowledge, Durable
    <3> QED BY <2>2, <3>4 DEF Atomic!ANext
  <2>3. CASE ~(op[t] \in Mutations /\ outcome[t] = "ok")
    <3>1. acked' = acked
      BY <1>17, <2>3 DEF Reply
    <3> QED BY <2>1, <3>1 DEF Stutters
  <2> QED BY <2>2, <2>3
<1>18. ASSUME NEW p \in Paths, FlushDir(p)
       PROVE Stutters \/ Atomic!ANext
  <2>1. Served' = Served /\ Durable' = Durable /\ Lost' = Lost
    BY <1>0, <1>18, SameView DEF FlushDir
  <2> QED BY <2>1, <1>18 DEF FlushDir, Stutters
<1>19. ASSUME Crash
       PROVE Stutters \/ Atomic!ANext
  <2>1. Durable' = Durable /\ acked' = acked
    BY <1>19 DEF Crash, ProcessGone, Durable
  <2>2. Served' = Durable
    BY <1>19 DEF Crash, ProcessGone, Served, Durable
  <2>3. Lost' = [f \in Files |-> Lost[f] \ Durable[f]]
    BY <1>0, <1>19 DEF Crash, Lost, Durable
  <2> QED BY <2>1, <2>2, <2>3 DEF Atomic!ANext, Atomic!Restart
<1>20. ASSUME PowerLoss
       PROVE Stutters \/ Atomic!ANext
  <2> DEFINE kept == [f \in Files |-> platter[PathOf[f]].data]
  <2>1. Durable' = kept /\ Served' = kept /\ acked' = acked
    BY <1>20 DEF PowerLoss, ProcessGone, Durable, Served
  <2>2. Lost' = [f \in Files |-> (Lost[f] \cup Durable[f]) \ kept[f]]
    BY <1>0, <1>20 DEF PowerLoss, Lost, Durable
  <2>3. kept \in [Files -> SUBSET Mutations]
    BY <1>0 DEF Image
  <2>4. \A f \in Files : kept[f] \subseteq Durable[f] \cup Lost[f]
    BY <1>0 DEF Content, DiskOK, Durable, Lost
  <2>5. Atomic!Rollback(kept)
    BY <2>1, <2>2, <2>4 DEF Atomic!Rollback
  <2> QED BY <2>3, <2>5 DEF Atomic!ANext
<1>21. ASSUME NEW t \in Threads, LoadMissed(t)
       PROVE Stutters \/ Atomic!ANext
  <2> DEFINE f == file(t)
  <2>0. f \in Files /\ path(t) = PathOf[f] /\ path(t) \in Paths /\ f \notin loaded
    BY <1>0, <1>21, BusyPath DEF LoadMissed, Locks, LoadingOK, path
  <2>1. InFlight(f) = {}
    BY <1>0, <2>0 DEF Locks, LoadedOK, UsesStore, InFlight
  <2>2. ASSUME NEW g \in Files
        PROVE  Served'[g] = IF g = f THEN {} ELSE Served[g]
    <3>1. InFlight(g)' = InFlight(g)
      BY <1>0, <1>21 DEF LoadMissed, InFlight, file
    <3>2. Served'[g] = IF g \in loaded' THEN memory'[g] \ InFlight(g)
                                        ELSE disk'[PathOf[g]].data
      BY <3>1, ServedAt
    <3>3. CASE g = f
      <4>1. g \in loaded' /\ memory'[g] = {}
        BY <1>0, <1>21, <2>0, <3>3 DEF LoadMissed
      <4> QED BY <3>2, <3>3, <4>1
    <3>4. CASE g # f
      BY <1>0, <1>21, <3>2, <3>4, ServedAt DEF LoadMissed
    <3> QED BY <3>3, <3>4
  <2>3. Served' = [Served EXCEPT ![f] = {}]
    BY <2>2 DEF Served
  <2>4. Served[f] = Durable[f] /\ Durable' = Durable /\ acked' = acked
    BY <1>21, <2>0, ServedAt DEF LoadMissed, Durable
  <2>5. \A g \in Files :
           lost'[PathOf[g]] = IF g = f THEN lost[PathOf[f]] \cup disk[PathOf[f]].data
                                       ELSE lost[PathOf[g]]
    BY <1>0, <1>21, <2>0 DEF LoadMissed, DistinctPaths
  <2>6. Lost' = [Lost EXCEPT ![f] = @ \cup Durable[f]]
    BY <2>0, <2>5 DEF Lost, Durable
  <2>7. Atomic!Miss(f)
    BY <2>3, <2>4, <2>6 DEF Atomic!Miss
  <2> QED BY <2>0, <2>7 DEF Atomic!ANext
<1> QED BY <1>1, <1>2, <1>3, <1>4, <1>5, <1>6, <1>7, <1>8, <1>9, <1>10, <1>11, <1>12, <1>13, <1>14, <1>15, <1>16, <1>17, <1>18, <1>19, <1>20, <1>21 DEF Next, Step

\* Init maps to AtomicStore's.
LEMMA InitMaps == ASSUME Init PROVE Atomic!AInit
  BY StoreAssumption DEF Init, Atomic!AInit, Served, Durable, Lost, EmptyImage

\* For names that resolve to distinct paths the store implements AtomicStore,
\* whatever the number of threads, files and mutations, and whichever stats,
\* loads, saves, processes and power supplies fail.
THEOREM Implements == ASSUME DistinctPaths PROVE Spec => AtomicSpec
<1>1. Init => Once /\ Atomic!AInit
  BY InitOnce, InitMaps
<1>2. IInv /\ Once /\ [Next]_vars => Once'
  BY OnceStep
<1>3. IInv /\ Once /\ [Next]_vars => [Atomic!ANext]_(Atomic!avars)
  BY StepMaps
<1> QED BY <1>1, <1>2, <1>3, Invariance, PTL DEF Spec, AtomicSpec, Atomic!ASpec
=============================================================================
