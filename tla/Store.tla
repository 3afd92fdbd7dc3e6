------------------------------- MODULE Store -------------------------------
(***************************************************************************)
(* The in-memory store registry and its persistence, src/src/store.rs.     *)
(*                                                                         *)
(* A pool of threads (tokio workers running tool handlers to completion)   *)
(* serves requests.  A request looks its Store up in the StoreMap under    *)
(* the map mutex, loading the file on first use, then runs a closure under *)
(* the Store's RwLock; a mutating request then saves the whole graph:      *)
(* create "<file>.tmp", write it, fsync it, rename it over the file.       *)
(*                                                                         *)
(* A graph is abstracted to the set of mutations it reflects: the empty    *)
(* graph is {}, running the closure of mutation m adds m.                  *)
(***************************************************************************)
CONSTANTS
    Files,      \* logical file names, the keys of StoreMap.stores
    Paths,      \* the paths those names resolve to under data_dir
    PathOf,     \* data_dir.join(file), as the file system resolves it
    Threads,    \* worker threads
    Requests,   \* what clients send
    Mutations,  \* the requests that mutate; each is sent once, a retry is another
    FileOf,     \* the logical file each request is for
    Failures,   \* what may fail: a subset of Faults
    None,       \* the request of an idle thread
    NoFile      \* a directory entry that does not exist

\* Reading a data file, looking whether it is there, saving it; the end of the
\* process; the loss of power.
Faults == {"load", "stat", "save", "crash", "power"}

\* An inode as the file system sees it: the graph it holds, whether it holds
\* all of it, and whether fsync has put it on the disk.
Image == [data : SUBSET Mutations, whole : BOOLEAN, synced : BOOLEAN]

ASSUME StoreAssumption ==
    /\ PathOf \in [Files -> Paths]
    /\ Mutations \subseteq Requests
    /\ FileOf \in [Requests -> Files]
    /\ Failures \subseteq Faults
    /\ None \notin Requests
    /\ NoFile \notin Image

VARIABLES
    pc,        \* the step each thread is at
    op,        \* the request each thread serves
    outcome,   \* how the request came out: "ok", "rejected", "error"
    fd,        \* what the thread's File handle refers to
    loaded,    \* the keys present in StoreMap.stores
    memory,    \* Store.graph of each file
    disk,      \* the data file each path names
    tmp,       \* the "<file>.tmp" beside it, or NoFile
    platter,   \* what each path would hold after a power loss
    issued,    \* history: mutations some client has sent
    acked,     \* history: mutations some client was told had succeeded
    unsaved,   \* history: mutations this process applied but failed to save
    lost,      \* history: mutations each path held that a failed stat has hidden
               \* from this process, or a failed stat or a power loss removed
    mustSee,   \* history: what was acknowledged before the request was sent
    seen       \* history: the graph the request's closure was given

threadVars == <<pc, op, outcome, fd>>
diskVars == <<disk, tmp, platter>>
history == <<issued, acked, unsaved, lost, mustSee, seen>>
vars == <<threadVars, loaded, memory, diskVars, history>>

Steps == {"idle", "lookup", "loading", "wait", "reading", "locked", "create",
          "write", "sync", "rename", "unlock", "reply"}

\* The inode of an empty file: it loads as the empty graph.
EmptyImage(synced) == [data |-> {}, whole |-> TRUE, synced |-> synced]

Synced(image) == [data |-> image.data, whole |-> image.whole, synced |-> TRUE]

TypeOK ==
    /\ pc \in [Threads -> Steps]
    /\ op \in [Threads -> Requests \cup {None}]
    /\ outcome \in [Threads -> {"ok", "rejected", "error"}]
    /\ fd \in [Threads -> {"none", "tmp", "data", "gone"}]
    /\ loaded \subseteq Files
    /\ memory \in [Files -> SUBSET Mutations]
    /\ disk \in [Paths -> Image]
    /\ tmp \in [Paths -> Image \cup {NoFile}]
    /\ platter \in [Paths -> Image]
    /\ issued \subseteq Mutations
    /\ acked \subseteq Mutations
    /\ unsaved \subseteq Mutations
    /\ lost \in [Paths -> SUBSET Mutations]
    /\ mustSee \in [Threads -> SUBSET Mutations]
    /\ seen \in [Threads -> SUBSET Mutations]

Init ==
    /\ pc = [t \in Threads |-> "idle"]
    /\ op = [t \in Threads |-> None]
    /\ outcome = [t \in Threads |-> "ok"]
    /\ fd = [t \in Threads |-> "none"]
    /\ loaded = {}
    /\ memory = [f \in Files |-> {}]
    /\ disk = [p \in Paths |-> EmptyImage(TRUE)]
    /\ tmp = [p \in Paths |-> NoFile]
    /\ platter = disk
    /\ issued = {} /\ acked = {} /\ unsaved = {}
    /\ lost = [p \in Paths |-> {}]
    /\ mustSee = [t \in Threads |-> {}]
    /\ seen = [t \in Threads |-> {}]

-----------------------------------------------------------------------------
(* Locks.  Who holds one follows from the step a thread is at.             *)

file(t) == FileOf[op[t]]

path(t) == PathOf[file(t)]

Goto(t, step) == pc' = [pc EXCEPT ![t] = step]

\* StoreMap.stores is locked by the thread that is loading a file; a lookup
\* that finds its Store locks and unlocks it within one step.
MapMutexFree == \A t \in Threads : pc[t] # "loading"

HoldsWrite(t) ==
    pc[t] \in {"locked", "create", "write", "sync", "rename", "unlock"}

WriteLocked(f) == \E t \in Threads : HoldsWrite(t) /\ file(t) = f

ReadLocked(f) == \E t \in Threads : pc[t] = "reading" /\ file(t) = f

-----------------------------------------------------------------------------
(* Requests                                                                *)

AckedFor(f) == {m \in acked : FileOf[m] = f}

\* A client sends a request and a worker picks it up.
Begin(t, o) ==
    /\ pc[t] = "idle"
    /\ o \notin issued
    /\ op' = [op EXCEPT ![t] = o]
    /\ issued' = issued \cup ({o} \cap Mutations)
    /\ mustSee' = [mustSee EXCEPT ![t] = AckedFor(FileOf[o])]
    /\ Goto(t, "lookup")
    /\ UNCHANGED <<outcome, fd, loaded, memory, diskVars,
                   acked, unsaved, lost, seen>>

\* StoreMap::get locks the map; a cached Store is cloned and the map unlocked,
\* otherwise the mutex stays held while the file is loaded.
Lookup(t) ==
    /\ pc[t] = "lookup"
    /\ MapMutexFree
    /\ Goto(t, IF file(t) \in loaded THEN "wait" ELSE "loading")
    /\ UNCHANGED <<op, outcome, fd, loaded, memory, diskVars, history>>

\* Mutant of LoadOk: a first use serves an empty graph and the file is only
\* ever written.
LoadOkStartsEmpty(t) ==
    /\ pc[t] = "loading"
    /\ loaded' = loaded \cup {file(t)}
    /\ Goto(t, "wait")
    /\ UNCHANGED <<op, outcome, fd, memory, diskVars, history>>

\* Store::open: path.exists(), load_graph parses the file (a missing or empty
\* one is the empty graph) and the Store is inserted in the map.
LoadOk(t) ==
    /\ pc[t] = "loading"
    /\ disk[path(t)].whole
    /\ memory' = [memory EXCEPT ![file(t)] = disk[path(t)].data]
    /\ loaded' = loaded \cup {file(t)}
    /\ Goto(t, "wait")
    /\ UNCHANGED <<op, outcome, fd, diskVars, history>>

\* Mutant of LoadErr: load_graph(..).unwrap_or_default() caches an empty graph.
LoadErrCachesEmpty(t) ==
    /\ pc[t] = "loading"
    /\ "load" \in Failures \/ ~disk[path(t)].whole
    /\ loaded' = loaded \cup {file(t)}
    /\ Goto(t, "wait")
    /\ UNCHANGED <<op, outcome, fd, memory, diskVars, history>>

\* The file is there but read_to_string fails, or a line does not parse; nothing
\* is cached and the request is answered with the error.
LoadErr(t) ==
    /\ pc[t] = "loading"
    /\ "load" \in Failures \/ ~disk[path(t)].whole
    /\ outcome' = [outcome EXCEPT ![t] = "error"]
    /\ Goto(t, "reply")
    /\ UNCHANGED <<op, fd, loaded, memory, diskVars, history>>

\* path.exists() is false on any error of stat too: the file is taken for a
\* missing one and the empty graph is cached, to be saved over it later.
LoadMissed(t) ==
    /\ pc[t] = "loading"
    /\ "stat" \in Failures
    /\ memory' = [memory EXCEPT ![file(t)] = {}]
    /\ lost' = [lost EXCEPT ![path(t)] = @ \cup disk[path(t)].data]
    /\ loaded' = loaded \cup {file(t)}
    /\ Goto(t, "wait")
    /\ UNCHANGED <<op, outcome, fd, diskVars,
                   issued, acked, unsaved, mustSee, seen>>

\* Mutant of AcquireRead: reads are not excluded by the writer.
AcquireReadAnyTime(t) ==
    /\ pc[t] = "wait" /\ op[t] \notin Mutations
    /\ Goto(t, "reading")
    /\ UNCHANGED <<op, outcome, fd, loaded, memory, diskVars, history>>

\* Store::read.
AcquireRead(t) ==
    /\ pc[t] = "wait" /\ op[t] \notin Mutations
    /\ ~WriteLocked(file(t))
    /\ Goto(t, "reading")
    /\ UNCHANGED <<op, outcome, fd, loaded, memory, diskVars, history>>

ReadDone(t) ==
    /\ pc[t] = "reading"
    /\ seen' = [seen EXCEPT ![t] = memory[file(t)]]
    /\ Goto(t, "reply")
    /\ UNCHANGED <<op, outcome, fd, loaded, memory, diskVars,
                   issued, acked, unsaved, lost, mustSee>>

\* Mutant of AcquireWrite: writers of one file do not exclude each other.
AcquireWriteShared(t) ==
    /\ pc[t] = "wait" /\ op[t] \in Mutations
    /\ ~ReadLocked(file(t))
    /\ Goto(t, "locked")
    /\ UNCHANGED <<op, outcome, fd, loaded, memory, diskVars, history>>

\* Store::mutate.
AcquireWrite(t) ==
    /\ pc[t] = "wait" /\ op[t] \in Mutations
    /\ ~WriteLocked(file(t)) /\ ~ReadLocked(file(t))
    /\ Goto(t, "locked")
    /\ UNCHANGED <<op, outcome, fd, loaded, memory, diskVars, history>>

\* The closure succeeds: the graph in memory changes before anything is saved.
Apply(t) ==
    /\ pc[t] = "locked"
    /\ seen' = [seen EXCEPT ![t] = memory[file(t)]]
    /\ memory' = [memory EXCEPT ![file(t)] = @ \cup {op[t]}]
    /\ Goto(t, "create")
    /\ UNCHANGED <<op, outcome, fd, loaded, diskVars,
                   issued, acked, unsaved, lost, mustSee>>

\* The closure returns an error: it has changed nothing, and `?` leaves mutate
\* before the save.
Reject(t) ==
    /\ pc[t] = "locked"
    /\ seen' = [seen EXCEPT ![t] = memory[file(t)]]
    /\ outcome' = [outcome EXCEPT ![t] = "rejected"]
    /\ Goto(t, "unlock")
    /\ UNCHANGED <<op, fd, loaded, memory, diskVars,
                   issued, acked, unsaved, lost, mustSee>>

-----------------------------------------------------------------------------
(* save_graph, with the write lock held.                                   *)

\* A write through the thread's handle changes the inode the handle is on,
\* whatever name, if any, that inode has by now.
WriteInode(t, image) ==
    /\ tmp' = IF fd[t] = "tmp" THEN [tmp EXCEPT ![path(t)] = image] ELSE tmp
    /\ disk' = IF fd[t] = "data" THEN [disk EXCEPT ![path(t)] = image] ELSE disk

\* Mutant of CreateTmp: the data file itself is truncated and rewritten.
CreateInPlace(t) ==
    /\ pc[t] = "create"
    /\ disk' = [disk EXCEPT ![path(t)] = EmptyImage(FALSE)]
    /\ fd' = [fd EXCEPT ![t] = "data"]
    /\ Goto(t, "write")
    /\ UNCHANGED <<op, outcome, loaded, memory, tmp, platter, history>>

\* File::create makes the temporary file, or truncates the one that is there.
CreateTmp(t) ==
    /\ pc[t] = "create"
    /\ tmp' = [tmp EXCEPT ![path(t)] = EmptyImage(FALSE)]
    /\ fd' = [fd EXCEPT ![t] = "tmp"]
    /\ Goto(t, "write")
    /\ UNCHANGED <<op, outcome, loaded, memory, disk, platter, history>>

\* write_all has written part of the text.
WriteSome(t) ==
    /\ pc[t] = "write"
    /\ WriteInode(t, [data |-> {}, whole |-> FALSE, synced |-> FALSE])
    /\ UNCHANGED <<threadVars, loaded, memory, platter, history>>

\* write_all returns: the file holds serialize_graph(graph).
WriteAll(t) ==
    /\ pc[t] = "write"
    /\ WriteInode(t, [data |-> memory[file(t)], whole |-> TRUE, synced |-> FALSE])
    /\ Goto(t, "sync")
    /\ UNCHANGED <<op, outcome, fd, loaded, memory, platter, history>>

\* Mutant of Sync: the fsync before the rename is missing.
SyncSkipped(t) ==
    /\ pc[t] = "sync"
    /\ fd' = [fd EXCEPT ![t] = "none"]
    /\ Goto(t, "rename")
    /\ UNCHANGED <<op, outcome, loaded, memory, diskVars, history>>

\* sync_all; the handle is closed at the end of the block.
Sync(t) ==
    /\ pc[t] = "sync"
    /\ WriteInode(t, Synced(IF fd[t] = "tmp" THEN tmp[path(t)] ELSE disk[path(t)]))
    /\ fd' = [fd EXCEPT ![t] = "none"]
    /\ Goto(t, "rename")
    /\ UNCHANGED <<op, outcome, loaded, memory, platter, history>>

\* Mutant of Rename: its arguments are swapped.
RenameSwapped(t) ==
    /\ pc[t] = "rename"
    /\ tmp' = [tmp EXCEPT ![path(t)] = disk[path(t)]]
    /\ disk' = [disk EXCEPT ![path(t)] = NoFile]
    /\ Goto(t, "unlock")
    /\ UNCHANGED <<op, outcome, fd, loaded, memory, platter, history>>

\* rename replaces the data file by the temporary one.  Handles follow the
\* inode they were opened on.
Rename(t) ==
    /\ pc[t] = "rename"
    /\ tmp[path(t)] # NoFile
    /\ disk' = [disk EXCEPT ![path(t)] = tmp[path(t)]]
    /\ tmp' = [tmp EXCEPT ![path(t)] = NoFile]
    /\ fd' = [u \in Threads |->
                IF fd[u] \notin {"tmp", "data"} \/ path(u) # path(t) THEN fd[u]
                ELSE IF fd[u] = "tmp" THEN "data" ELSE "gone"]
    /\ Goto(t, "unlock")
    /\ UNCHANGED <<op, outcome, loaded, memory, platter, history>>

\* Mutant of SaveFails: the save's error is dropped and success is reported.
SaveFailsSilently(t) ==
    /\ pc[t] \in {"create", "write", "sync", "rename"}
    /\ "save" \in Failures
    /\ unsaved' = unsaved \cup {op[t]}
    /\ fd' = [fd EXCEPT ![t] = "none"]
    /\ Goto(t, "unlock")
    /\ UNCHANGED <<op, outcome, loaded, memory, diskVars,
                   issued, acked, lost, mustSee, seen>>

\* Mutant of SaveFails: a failed save is tried again until it succeeds.
SaveFailsRetries(t) ==
    /\ pc[t] \in {"create", "write", "sync", "rename"}
    /\ "save" \in Failures
    /\ fd' = [fd EXCEPT ![t] = "none"]
    /\ Goto(t, "create")
    /\ UNCHANGED <<op, outcome, loaded, memory, diskVars, history>>

\* Any call of save_graph may fail: mutate returns the error and keeps the
\* changed graph in memory; whatever was written stays in the temporary file.
SaveFails(t) ==
    /\ pc[t] \in {"create", "write", "sync", "rename"}
    /\ \/ "save" \in Failures
       \/ pc[t] = "rename" /\ tmp[path(t)] = NoFile
    /\ outcome' = [outcome EXCEPT ![t] = "error"]
    /\ unsaved' = unsaved \cup {op[t]}
    /\ fd' = [fd EXCEPT ![t] = "none"]
    /\ Goto(t, "unlock")
    /\ UNCHANGED <<op, loaded, memory, diskVars,
                   issued, acked, lost, mustSee, seen>>

\* mutate returns and drops the write guard.
Unlock(t) ==
    /\ pc[t] = "unlock"
    /\ Goto(t, "reply")
    /\ UNCHANGED <<op, outcome, fd, loaded, memory, diskVars, history>>

\* The client receives the answer and the thread is free.
Reply(t) ==
    /\ pc[t] = "reply"
    /\ acked' = acked \cup (IF outcome[t] = "ok" THEN {op[t]} \cap Mutations ELSE {})
    /\ op' = [op EXCEPT ![t] = None]
    /\ outcome' = [outcome EXCEPT ![t] = "ok"]
    /\ mustSee' = [mustSee EXCEPT ![t] = {}]
    /\ seen' = [seen EXCEPT ![t] = {}]
    /\ Goto(t, "idle")
    /\ UNCHANGED <<fd, loaded, memory, diskVars, issued, unsaved, lost>>

-----------------------------------------------------------------------------
(* The environment: the file system and the machine.                       *)

\* What writing an inode back in the background may leave on the disk.
Survivors(image) ==
    IF image.synced
    THEN {image}
    ELSE {Synced(image),
          [data |-> {}, whole |-> FALSE, synced |-> TRUE]}

\* The file system writes the directory back; save_graph never asks it to.
\* Only a power loss can tell the difference.
FlushDir(p) ==
    /\ "power" \in Failures
    /\ platter[p] # disk[p]
    /\ \E image \in Survivors(disk[p]) : platter' = [platter EXCEPT ![p] = image]
    /\ UNCHANGED <<threadVars, loaded, memory, disk, tmp, history>>

\* Everything in the process is gone; nobody gets an answer.
ProcessGone ==
    /\ pc' = [t \in Threads |-> "idle"]
    /\ op' = [t \in Threads |-> None]
    /\ outcome' = [t \in Threads |-> "ok"]
    /\ fd' = [t \in Threads |-> "none"]
    /\ loaded' = {}
    /\ memory' = [f \in Files |-> {}]
    /\ unsaved' = {}
    /\ mustSee' = [t \in Threads |-> {}]
    /\ seen' = [t \in Threads |-> {}]
    /\ UNCHANGED <<issued, acked>>

\* The process dies and is started again; the page cache survives, and what a
\* failed stat had hidden is found again, if it has not been saved over.
Crash ==
    /\ "crash" \in Failures
    /\ ProcessGone
    /\ lost' = [p \in Paths |-> lost[p] \ disk[p].data]
    /\ UNCHANGED diskVars

\* The machine dies: only what was written back is found again.
PowerLoss ==
    /\ "power" \in Failures
    /\ ProcessGone
    /\ disk' = platter
    /\ lost' = [p \in Paths |-> (lost[p] \cup disk[p].data) \ platter[p].data]
    /\ tmp' = [p \in Paths |-> NoFile]
    /\ UNCHANGED platter

Step(t) ==
    \/ Lookup(t) \/ LoadOk(t) \/ LoadErr(t) \/ LoadMissed(t)
    \/ AcquireRead(t) \/ ReadDone(t)
    \/ AcquireWrite(t) \/ Apply(t) \/ Reject(t)
    \/ CreateTmp(t) \/ WriteSome(t) \/ WriteAll(t) \/ Sync(t) \/ Rename(t)
    \/ SaveFails(t) \/ Unlock(t) \/ Reply(t)

Next ==
    \/ \E t \in Threads : \/ \E o \in Requests : Begin(t, o)
                          \/ Step(t)
    \/ \E p \in Paths : FlushDir(p)
    \/ Crash
    \/ PowerLoss

Spec == Init /\ [][Next]_vars

\* Worker threads are scheduled: a handler that can take its next step takes
\* it.  A writer shares the lock with readers that may come without end; std's
\* RwLock stops admitting them once a writer is queued, so a writer for whom
\* the lock is free again and again gets it.
Fairness ==
    \A t \in Threads :
        /\ WF_vars(Lookup(t)) /\ WF_vars(LoadOk(t) \/ LoadErr(t) \/ LoadMissed(t))
        /\ WF_vars(AcquireRead(t)) /\ WF_vars(ReadDone(t))
        /\ SF_vars(AcquireWrite(t)) /\ WF_vars(Apply(t) \/ Reject(t))
        /\ WF_vars(CreateTmp(t) \/ WriteAll(t) \/ Sync(t) \/ Rename(t) \/ SaveFails(t))
        /\ WF_vars(Unlock(t)) /\ WF_vars(Reply(t))

FairSpec == Spec /\ Fairness

-----------------------------------------------------------------------------
(* Properties                                                              *)

\* Two logical names never resolve to one path.
DistinctPaths == \A f, g \in Files : PathOf[f] = PathOf[g] => f = g

\* Readers never observe a partial file (save_graph), whichever of a crash, a
\* failed save or a power loss comes when: no data file is ever torn, on the
\* disk or in the page cache.
NoTornFile == \A p \in Paths : disk[p].whole /\ platter[p].whole

\* A mutation whose success was reported is in the data file, at every moment
\* at which the process may die (mutate replies after save_graph returned);
\* nothing but a failed stat or a power loss takes it away again.
AckedDurable ==
    \A m \in acked :
        LET p == PathOf[FileOf[m]] IN m \in disk[p].data \cup lost[p]

\* Once a thread's closure has run, it ran on a graph with every mutation that
\* had been acknowledged when its request was sent and is not lost: also on a
\* Store that was loaded again after a crash or a power loss, or beside another
\* thread's failed save.
SawGraph(t) == \/ pc[t] \in {"create", "write", "sync", "rename", "unlock"}
               \/ pc[t] = "reply" /\ outcome[t] = "ok"
RequestsSeeAcked ==
    \A t \in Threads : SawGraph(t) => mustSee[t] \subseteq seen[t] \cup lost[path(t)]

\* The graph a closure ran on holds nothing that is not in the file, but for
\* mutations whose save this process reported as failed: nobody sees a
\* mutation while it is being saved.
NoDirtyReads ==
    \A t \in Threads :
        SawGraph(t) => seen[t] \subseteq disk[path(t)].data \cup unsaved

\* A loaded graph that no thread is changing is the file's graph plus the
\* mutations whose save failed, which stay visible and go out with the next
\* successful save, and less only what a failed stat has hidden: a file that
\* cannot be read or parsed is never taken for an empty one.
MemoryMatchesDisk ==
    \A f \in loaded :
        ~WriteLocked(f) => /\ disk[PathOf[f]].data \subseteq memory[f] \cup lost[PathOf[f]]
                           /\ memory[f] \subseteq disk[PathOf[f]].data \cup unsaved

\* No save, that of a process restarted after a crash or a power loss included,
\* takes back what had reached the disk, unless a failed stat hid it.
PlatterNeverRegresses ==
    [][\A p \in Paths : platter[p].data \subseteq platter'[p].data \cup lost'[p]]_vars

\* Every request is answered, or dies with its process.
RequestsAnswered == \A t \in Threads : pc[t] = "lookup" ~> pc[t] = "idle"

-----------------------------------------------------------------------------
(* Store implements AtomicStore.  A mutation becomes visible when its write *)
(* lock is dropped and durable when the file is renamed; a file that is not *)
(* loaded serves what loading it would.                                     *)

\* The mutations that a thread has applied and not yet published.
InFlight(f) == {op[t] : t \in {u \in Threads : HoldsWrite(u) /\ file(u) = f}}

Served == [f \in Files |-> IF f \in loaded THEN memory[f] \ InFlight(f)
                                           ELSE disk[PathOf[f]].data]
Durable == [f \in Files |-> disk[PathOf[f]].data]
Lost == [f \in Files |-> lost[PathOf[f]]]

Atomic == INSTANCE AtomicStore
            WITH served <- Served, durable <- Durable, lost <- Lost

AtomicSpec == Atomic!ASpec
=============================================================================
