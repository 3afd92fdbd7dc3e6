# A TLA+ verification of the advanced_memory_mcp server

The server (`src/src/`, Rust) keeps knowledge graphs for users of the Model
Context Protocol: one JSONL file per user or team, loaded once, served from
memory and rewritten after every mutation. This project models its persistence,
its graph operations and queries, who may use them, and clients that repeat
calls; it model-checks them with TLC on small instances, and with TLAPS it
proves most of what it checks for every value of the constants: the persistence
and the access control for every number of files, threads, requests and
sessions, the graph operations and queries for every graph and every argument,
and what an acknowledgement is worth to any number of clients that retry. Line
numbers below refer to files under `src/`.

## 1. The system

### Components

| Part | Source | State | Operations |
|---|---|---|---|
| Store registry | `src/store.rs` `StoreMap` | `HashMap<file, Arc<Store>>` under one `Mutex` | `get`: look up, or load the file with the mutex held |
| Store | `src/store.rs` `Store` | one `Graph` under a `RwLock`, a data file, a `.tmp` file | `read`, `mutate` = closure, then `save_graph` (create, write, fsync, rename), all under the write lock |
| Graph | `src/graph.rs` | `entities`, `relations`, two vectors; facts inside entities | ten mutations, four queries, type normalization |
| MCP tools | `src/mcp.rs` | none of their own | authenticate, check the mode, parse, `read` or `mutate`, answer |
| Tokens | `src/tokens.rs` | token → (file, mode), read at start-up, never changed | `load`, `get` |
| Web UI sessions | `src/webui/auth.rs`, `mod.rs` | none: the signed cookie holds token and time of issue | `sign_session`, `verify_session`, `resolve_session` |
| Web UI endpoints | `src/webui/api.rs` | none of their own | edit and delete observations, delete an entity, graph data |
| Web UI pages | `src/webui/views.rs` | none | render one read of the graph |
| Process | `src/main.rs` | the above, built at start-up | start, serve, stop on Ctrl-C |
| Health check | `src/health.rs` | none | constant answer, probe |

### How they interact

A request arrives on a tokio worker. Its handler resolves a token (a Bearer
header, or a cookie that holds one) to a file and a mode, gets the file's
`Store` from the `StoreMap`, and runs one closure on the graph, under the read
lock (`Store::read`) or the write lock (`Store::mutate`). There is no `await`
between the first step and the last: a handler is a sequential program that
runs on its worker until it answers, and what interleaves is handlers on
different workers, the file system, and the end of the process. The only
shared state is the registry, the graphs behind their locks, and the files.
Mutating closures read the clock once, inside the lock.

### What is hard

* a mutation changes memory first and the disk afterwards, under one lock, and
  any of the four calls of the save may fail: memory is then ahead of the file;
* a process may die between any two steps, and the next one starts from the
  files; a machine may lose power, and what a rename made visible may not be
  what fsync made durable;
* a file is loaded at first use, by one of several threads that want it, and a
  file that cannot be looked at is taken for one that is not there;
* clients repeat calls whose answers they missed, and the server may serve a
  copy of a call long after its client gave it up;
* sessions live in cookies, tokens in a file that is read once, and the clock
  that ages sessions may be set: what a request is allowed depends on three
  things that change at different times;
* graph operations treat names, texts and triples as identities, but not every
  operation enforces them: what holds depends on the sequence of calls;
* batches are validated against the graph before the call and applied to the
  graph as the call changes it.

### What makes each part correct

* *Store*: a data file is never partial; a mutation whose success was reported
  is in the file; a request sees all that had been acknowledged when it was
  sent and nothing that is still being saved; memory differs from the file by
  failed saves only; every request is answered. Two things break these promises,
  a stat that fails when a file is first used and a power loss, and what they
  took is all that may be missing.
* *Graph*: facts are appended and closed, never lost or replaced; names stay
  unique; a rename, a merge and a delete leave no relation behind; replays
  change nothing; a rejected batch changes nothing and an accepted one cannot
  fail half-way.
* *Queries*: as-of queries agree with the supersession history, whatever is
  recorded late, early or out of order; a limit cuts off what the order puts
  last; for instants in UTC the order of the strings is the order in time; the
  neighbourhood of an entity is all that is near it; pages, drawings and tools,
  which each filter the graph with code of their own, show the same.
* *Access*: a file changes only for a token that the process maps to it with a
  read-write mode, whichever way the request came and whatever was done to
  sessions and to `tokens.json` since it came; a session is accepted for its 24
  hours and no longer, and not with another secret than the one that signed it.
* *Clients that retry*: a success means that the call is in the file, whatever
  its earlier attempts did; copies and lost attempts leave no trace; a call
  whose facts are recorded is not refused.

## 2. The modules

| Module | What it is |
|---|---|
| `Store` | the registry and the persistence, thread by thread, with the file system, crashes and power losses |
| `AtomicStore` | what `Store` promises: per file, a set of mutations that is served and one that is durable |
| `StoreProofs`, `StoreRefinement` | the inductive invariant and the theorems; that `Store` implements `AtomicStore` |
| `GraphOps` | the mutations of `graph.rs` as operators from graphs to graphs, and their mutants |
| `GraphTypes` | what a graph is made of: the sets of facts, entities, relations and graphs |
| `KnowledgeGraph` | one file's graph under sequences of those mutations |
| `GraphProperties` | what they promise |
| `GraphLemmas`, `GraphProofs` | what the operators return for every argument of their types; the theorems about sequences of calls |
| `GraphQueries` | `search_facts`, `search_nodes`, `open_nodes`, the pages of the web UI and the neighbourhood that it draws, as operators |
| `GraphLoops` | the loops of `graph.rs` and `graph_data`, to compare `GraphOps` and `GraphQueries` with |
| `GraphViews` | that the reads of one graph agree |
| `GraphHistory` | a line of facts each of which supersedes the one before, and what `search_facts` says of it |
| `LoopProofs` | that those loops do what the operators say |
| `Instants` | instants as strings and as points in time |
| `QueryProofs` | the theorems about views, histories and the order of answers, and when the two orders of instants agree |
| `Retries`, `RetriesProofs` | clients that repeat a call until they are told how it came out; the theorems about what they are told |
| `Access` | `tokens.json`, the process, its secret, sessions and the clock |
| `WebUi`, `WebProofs` | requests of sessions and of bearer tokens on the graphs of several files; the theorems |
| `MCStore`, `MCGraph`, `MCHistory`, `MCRetries`, `MCWebUi` | constants for TLC |

How they are put together: `KnowledgeGraph`, `Retries` and `WebUi` are state
machines around the operators of `GraphOps`; `GraphProperties`, `GraphLoops`
and `GraphViews` state what holds of `KnowledgeGraph`, `GraphHistory` extends
it and `GraphQueries` by a history, and `MCHistory` adds `Instants` for what
its times stand for; `WebUi` composes `Access` with the graphs. `Store` shows
that a mutation is one step for everybody who looks, and the graph machines
take it for one.

Definitions called mutants are wrong variants of the definition that follows
them (a dropped guard, a swapped order). No specification uses them; each
property of a passing run is violated when one of them takes its
definition's place.

### `Store`

| Variable | Code |
|---|---|
| `pc`, `op`, `outcome`, `fd` | the handler a worker runs: the line it is at, its request, its result so far, its `File` |
| `loaded`, `memory` | the keys of `StoreMap.stores`, and the graph behind each `RwLock` |
| `disk`, `tmp` | what the data file and its `.tmp` name: the inode's contents, whether all of it is there, whether it was fsynced |
| `platter` | what the data file's name would lead to after a power loss |
| `issued`, `acked`, `unsaved`, `mustSee`, `seen` | history, for the properties: mutations sent, acknowledged, failed to save; what a request had to see, and what it saw |
| `lost` | history: of each file, what a failed stat hid or a power loss took, until a load finds it again |

Locks are derived from `pc`: the map mutex is held by a thread at `loading`,
the read lock at `reading`, the write lock from `locked` to `unlock`.
`Lookup`, `LoadOk`, `LoadErr` and `LoadMissed` are `StoreMap::get`; `AcquireRead` and
`ReadDone` are `Store::read`; `AcquireWrite`, `Apply` or `Reject`, `Unlock` are
`Store::mutate`; `CreateTmp`, `WriteSome`, `WriteAll`, `Sync`, `Rename` and
`SaveFails` are `save_graph`. `Reply` is the answer: after it the client knows.

A graph is abstracted to the set of mutations it reflects, and a closure to one
that adds its mutation to the set (`Apply`) or errs and leaves it alone
(`Reject`; that this is what the closures do is checked on the graph modules).
Adding to a set commutes, which the real closures do not: the properties of
this module are about which mutations a file, a memory and a reader have, and
the locks keep the closures apart whatever they do. `create_dir_all`
(store.rs:181) is part of `CreateTmp`; its failure is a `SaveFails`. The file's
text is abstracted: an image is `whole` or it is not, and `load_graph` fails on
one that is not. A handle follows its inode through a rename by another
thread, which matters only when two stores share a path.

`load_graph` has two outcomes when a file cannot be had. An error of reading or
parsing is returned and nothing is cached (`LoadErr`). But before that it asks
`path.exists()` (store.rs:52), which is false whenever the stat fails, for lack of
permission or on an I/O error as well as for a file that is missing: then the empty
graph is cached and served, and the next save puts it over the file
(`LoadMissed`). What the file held is added to `lost`, and every promise of the
module is up to `lost`; the theorem `NothingLost` says that without failing stats
and power losses there is none. `Failures` says which of the five can happen:
`load`, `stat`, `save`, `crash`, `power`.

`FlushDir`, `Survivors` and `PowerLoss` are the file system as the code relies
on it: after a power loss a name leads to an inode that was there before or
after the rename, whole if it was fsynced and possibly partial if it was not.
The temporary file is taken to be gone after a power loss: `File::create`
truncates it in any case.

### `KnowledgeGraph`

`graph` is the `Graph` of one `Store`, `clock` the last reading of `now_iso`.
Each action is one call of a mutating method as `Store::mutate` runs it, whole
and alone, with its arguments taken from a constant set; `Edit` is the web UI's
`update_observation`. A call that the code refuses is a step that is not taken.
Readings of the clock need not be monotonic. Facts have `text`, `from`
(`validFrom`), `to` (`validTo`) and `recorded` (`recordedAt`); entities and
relations have the two timestamps; `None` is a JSON null, and a legacy row has
`None` in both. Left out: `source`, unknown fields that round-trip, the counters
and echoes of the answers, `discardedType`, the refusal of empty names, and a
batch entry that names an entity with no contents (it changes nothing; it is
refused when the entity is missing). Times are numbers in the order of their
strings, so nothing here depends on how instants are written.

`GraphOps` gives the methods in closed form (which rows survive, which inputs
are added), because that is what one reads a specification for; `GraphLoops`
transcribes the loops whose closed form is not obvious, the runs compare
them in every reachable graph, panics included, and `LoopProofs` proves that they
agree in every graph.

### `GraphQueries` and `GraphHistory`

`SearchFacts` is `search_facts` with all its filters, its stable sort and its
limit; the substring of a query is abstracted to the set of the texts that
contain it. A hit is a place in the graph, of an entity and of a fact in it, and
the sort is given by what it achieves: `ComesBefore` orders the hits by the keys
that `sort_by` compares, and hits with equal keys by their places, since
`sort_by` is stable; the n-th hit is the one that n - 1 come before. `Within`
says which names the breadth-first search of `graph_data` is to reach, as paths
of bounded length; `LoopWithin`, in `GraphLoops`, is the search itself.

The graph does not record which fact superseded which: the second fact's
`validFrom` becomes the first one's `validTo`, and that is all. `GraphHistory`
keeps the missing link in the variable `line`, the places of the facts of one
entity each of which was recorded as superseding the one before, and asks
whether the intervals still tell the story. `Record`, `Reword` and `Gather` are
`Observe`, `Edit` and `Merge` of `KnowledgeGraph`, with what they do to the
line; edits to a text that the entity already has are left out (section 6 says
what they do), and so are deletions from the entity, which may take away a part
of the line.

The times of `GraphHistory` are places in an order of strings. `MCHistory` gives
them as the places of written instants (`Instants`), and `AsOfTellsTheTime`
asks whether answers as of a string are right for the instant it stands for.

### `GraphViews`

`OpenNodes` and `SearchNodes` are the tools; `FilterEntities` is the predicate
of `list_entities`, which trims the search and the type (`Trimmed`), without its
sort; `search_nodes` does not trim; `EntityPage` is what `entity_detail` hands
to the template; `GraphData` is what `graph_data` answers. The properties
compare them with each other in every reachable graph, because no code ties
them: each is a filter written for itself.

### `Instants`

`Accepted` is what `validate_instant` lets through: a date, whose last field may
lack its leading zero, since chrono's `%Y-%m-%d` does not ask for it, or RFC
3339 with or without a fraction and with any offset. An instant is the fields of
its string, `Spelling` lists them as they come in the string, with the character
after the seconds standing for the two of `.`, `+`, `-` and `Z` that make the
difference, and `Before` is the order of the strings. Of a date the model keeps
its number and whether it was padded (one below ten may not be), and compares
the last digit and those before it. A fraction is there with all its digits, of
which `Precision` counts the values, or not at all; fractions of different
lengths are not modelled, nor is the lower-case `t` or blank that RFC 3339
parsers accept for the `T`. `NowIso` is what `now_iso` writes, `Canonical` the
instants in UTC written with `+00:00`, and dates with all their digits.

### `Access` and `WebUi`

| Variable | Code |
|---|---|
| `config` | the file `tokens.json`, which an operator edits |
| `entries` | the `TokenConfig` of the process, as `main` read it; none while no process runs |
| `secret`, `starts` | `WebUi.ui_secret`, from `MEMORY_UI_SECRET` or drawn by the process; the number of the start stands for a secret nobody else has |
| `cookie` | the session cookie in each browser: a token and a time of issue, signed |
| `clock` | `Utc::now` |
| `time`, `lost` | history: what has really gone by, and how much the clock was set back |
| `graphs` | the graph of each file |
| `doomed` | a `DELETE` that has found its entity under the read lock and will delete it under the write lock |
| `last` | history: the token of the last request |

`LoadOK` and `Start` are `TokenConfig::load` and `main`, `SignIn` and `SignOut`
are `login_post` and `logout`, `Accepts` is `verify_session` and `SignedIn` is
`resolve_session`. A signature is the secret that it was made with: nobody makes
one without it. `UpdateObservationRequest` and `DeleteObservationRequest` are
one step each, `delete_entity` is `FindEntity` and `DeleteEntityRequest` with
everything else in between, the end of the process included (which ends it).
`CallTool` is a call of one of the nine tools that write, with a bearer token:
`Created`, `Deleted` and `Rearranged` are what they may leave. Graph operations
are those of `GraphOps`, all at one reading of the clock.

### `Retries`

| Variable | Code |
|---|---|
| `call`, `phase` | what each client wants done, and how far it is: an error that is no refusal, and silence, make it try again |
| `copies` | its requests that it has given up waiting for and the server has not yet served |
| `memory`, `disk` | the graph behind the lock and the one in the file |
| `faults` | failed saves, time-outs and restarts so far, which `MaxFaults` bounds |
| `before` | history: who had been told of success when a client first asked |

`Mutate` is `Store::mutate` around a closure: refused, done and saved, or done
in memory and not saved. The tools are the additive ones, which
`tool_annotations` marks idempotent. Deletions, renames and merges are left
out, and not because they would do: a copy of a deletion that is served late
undoes a creation in between, and no tool carries an identity of the call that
would tell a copy from a new call.

## 3. The runs

| Run | Instance | Shows |
|---|---|---|
| `store_failures` | 2 threads, 2 files, 3 mutations (2 for one file), a read; every failure: loads, stats, saves, crashes, power losses | no torn file; acknowledged mutations durable and seen, unless lost; no dirty reads; memory matches disk; what reached the disk stays; the store implements `AtomicStore` |
| `store_serves` | 2 threads, stats and saves may fail, crashes, fair | every request is answered |
| `graph_relations` | 3 names, 2 entities, 2 relations, dated and undated, two readings of the clock; every create, delete, rename, merge | names stay unique, keys but for one kind of rename; only `create_relations` leaves dangling relations; a rename can be undone; what a merge keeps and with which dates, and the dedupe loop; every change is stamped; the neighbourhood search, pages and drawings |
| `graph_facts` | 2 entities, 3 texts, batches of one and two inputs with `supersedes`, edits, deletions, renames, merges, types | facts are only appended and closed; supersedes are applied; validation suffices; replays; nothing forgotten; texts stay unique but for one kind of edit; normalization; list and search |
| `graph_history` | 2 entities, 4 facts, 4 instants (a date, that midnight in seconds, the server's clock, half a second later), undated legacy facts | a line always has a standing member, only one if it is chronological; the past is not rewritten; the limit; answers are right for the instants that the strings stand for |
| `web_ui` | 2 tokens, 2 files, 1 browser, 3 contents of `tokens.json`, 2 starts | sessions end in time and with their secret; every write, by one of nine tools or three endpoints, is authorized |
| `retries` | 3 clients, 7 calls on one entity, 3 faults | success is durable; retries leave no trace; what is done is not refused |
| `store_alias`, `graph_merge_loops`, `graph_current_facts`, `history_unpadded`, `web_revoked` | | each a disagreement between the code and what is written about it (section 6) |

*Bounds.* Two threads are what a conflict here needs: a writer in its save, and
a second writer or a reader that is queued, loading or late; the theorems are for
any number. Two mutations of one
file and one of another distinguish a lost update from an update of another
file. Each mutation is sent once (a retry is another request), reads without
end, and crashes and failures at every step, so the number of steps is not
bounded. Three names are the source, the target and a bystander of a rename or a
merge. `MaxEntities`, `MaxFacts` and `MaxRelations` bound the graphs explored:
two facts that a batch of two closes and extends, two relations that a
re-pointing makes equal. A batch of two inputs is enough for an input to depend
on an earlier one. Corrections can go wrong with three facts (the third begins
before the second); the line may have four. `Depths` includes one that is no
number, one below the clamp and one beyond the longest path; the clamp at 10 is
beyond what three names can tell apart. In `web_ui`, two tokens are the one that
may write a file and the one that may not, or may write another, and two starts
are the process that issued a cookie and the next one; `MaxAge` is one unit,
`MaxTime` two and `MaxLost` one, so that a session is in time, is too old, and is
kept alive by a clock that was set back; with `MaxRows` of two and `MaxFacts` of one
there are the two entities of a merge or a rename, a relation between them and a
fact. One browser can sign in with another token while
its own deletion is under way. In `retries`, three clients are one that
supersedes a fact, one whose fact that is, and one that interferes; three
faults are a failed save, a time-out and a restart in any order. Threads,
clients and names are permuted by symmetry where only invariants and action
properties are checked and every constant is symmetric. The rest of the
configurations' bounds are the sets of arguments in the MC modules.

*Deadlock* is checked in every run but `retries`, which may stop: all clients
have been told and no fault is left.

*Fairness.* Worker threads are scheduled by tokio and the kernel, so a handler
that can take its next step eventually does: weak fairness of every step, with
one condition for the alternatives of a step (it succeeds or it fails), so
neither outcome is promised. `WriteSome` has none: a write makes progress
because `WriteAll` does. The write lock needs strong fairness, since readers may
come without end: `std`'s `RwLock` admits no new reader once a writer waits. No
fairness is assumed of clients, crashes or the file system. A crash ends the
requests of its process. Load errors are off in `store_serves` (a failed stat is
none, it ends the load): with an endless supply of them the map mutex, which is
not a fair lock, can be taken by others again and again.

## 4. What is proved

The theorems hold for every value of the constants that their modules'
assumptions allow, and for every finite or infinite behaviour.

| Module | Theorem | Statement |
|---|---|---|
| `StoreProofs` | `TypeCorrect` | `[]TypeOK` |
| | `Invariance` | the inductive invariant `IInv` |
| | `NeverTorn` | `[]NoTornFile` |
| | `Durability` | `[]AckedDurable` |
| | `Freshness` | `[]RequestsSeeAcked` |
| | `NothingLost` | what was acknowledged is in the file, given that no stat and no power fails |
| | `NoDirtyRead` | `[]NoDirtyReads` |
| | `CacheCoherence` | `[]MemoryMatchesDisk` |
| | `NoRegression` | `PlatterNeverRegresses` |
| `StoreRefinement` | `Implements` | `AtomicSpec`: `Store` implements `AtomicStore`, whatever fails |
| `GraphProofs` | `GraphTyped` | `[]TypeOK` |
| | `NamesIdentify` | `[]UniqueNames`, given `NamedOnce` |
| | `RelationsFollow` | `NoNewDangling`: only `create_relations` leaves a relation without its entities |
| | `KeysIdentify` | `KeysStayUnique`, given `KeyedOnce` |
| | `TextsIdentify` | `TextsStayUnique`, given `TextedOnce` |
| | `StorageAppendsOnly` | `[]AddObservationsOnlyCloses`: what is recorded is closed or left alone |
| | `SuccessionTakesPlace` | `[]SupersedesApplied` |
| | `NothingIsForgotten` | `NothingForgotten`, given `NamedOnce` |
| | `RepeatsChangeNothing` | `[]ReplayIsNoOp` |
| | `StampsTell` | `ChangesAreStamped` |
| | `MergesUnite` | `[]MergeUnites` |
| | `RenamesCanBeTakenBack` | `[]RenameReversible`, given `NamedOnce` |
| | `NormalizingAgainChangesNothing` | `[]NormalizeIsIdempotent`, given `TypesSettle` |
| `QueryProofs` | `PagesShowAll` | `[]PagesShowEachRelation` |
| | `DrawingsShowThePage` | `[]PageAgreesWithDrawing` |
| | `ListsFindWhatSearchFinds` | `[]ListAgreesWithSearch` |
| | `OneAlwaysStands`, `OnlyOneStands` | `[]AlwaysOneStands`, `[]NoTwoStand` |
| | `ThePastStays` | `[]PastStaysTrue` |
| | `LimitsKeepTheFirst` | `[]LimitKeepsTheFirst` |
| | `AnswersTellTheTime` | `[]AsOfTellsTheTime`, given `WrittenCanonically` |
| | `CanonicalOrder` | of two canonical instants, the one whose string comes first is not the later one |
| `LoopProofs` | `WhatIsValidatedApplies` | `[]AddObservationsMatchesLoop` |
| | `DedupeIsItsLoop` | `[]DedupeMatchesLoop` |
| | `SearchIsNeighbourhood` | `[]NeighbourhoodIsBall` |
| `RetriesProofs` | `SuccessIsDurable` | `[]OkMeansDurable` |
| | `RetriesLeaveNoTrace` | `[]RetriesAreInvisible` |
| | `RecordedIsNotRefused` | `DoneIsNotRefused` |
| `WebProofs` | `SessionsEnd` | `[]SessionLifetime` |
| | `SessionsReset` | `[]ResetOnRestart` |
| | `Authorization` | `WritesAreAuthorized` |

### Persistence

*Assumptions.* `StoreAssumption` (the constants have their types) and
`DistinctPaths`: no two logical names resolve to one path. `store_alias` shows
that without the second the first property fails. All five failures are allowed.
`save_graph` does not fsync the directory, so a power loss may take an acknowledged
rename back, and a failed stat hides what the file holds; `lost` says what, and only
`NothingLost` assumes that neither is among the failures.

*Argument.* None of the properties is inductive. The invariant has four layers,
each proved from the ones before:

1. *Typing.*
2. *Locks*: two threads in their saves are in the saves of different files
   (`OneSaverPerPath`, by `DistinctPaths`), one thread at most loads, and a
   thread past its lookup has its store in the map.
3. *Content*: what a handle refers to, and what the temporary file holds at each
   step of a save: at `sync` it is whole and is the graph in memory, at `rename`
   it has been fsynced as well. `disk` and `platter` are whole and fsynced, and
   the platter's graph is in the file's. These give `NeverTorn` and
   `NoRegression`, with every failure at every step.
   Memory contains the file but for `lost`, and exceeds it by failed saves and the
   operation of the thread that is saving.
4. *Service*: an acknowledged mutation is in the file or lost; a request's
   `mustSee` is acknowledged; what a closure saw contains it but for `lost`, is in
   the file or failed to be saved, and is still in memory (`StillServed`): a failed
   stat hides things only while no thread works on the file. These give the
   others.

For each layer the proof goes action by action, and for each action through the
conjuncts it can disturb.

*Refinement.* What is served of a file is its memory without the mutation that
the holder of its write lock has applied and not yet released, or the file
itself while it is not loaded; what is durable is the data file. `Rename` is
then `Persist`, `Unlock` of a mutation that was applied is `Publish`, the
`Reply` to it is `Acknowledge`, `LoadMissed` is `Miss`, `Crash` is `Restart`,
`PowerLoss` is `Rollback`, and all other steps stutter. That a mutation is
published only once, and not before its time, needs one more invariant, `Once`:
a mutation is under way in one thread at most, is in no graph before that
thread's closure has run, and is in no file before that thread's rename.

### Graphs

*Assumptions.* `TypesAssumption`, `GraphAssumption` and `ArgumentsTyped`: the
constants have their types, and the arguments of the calls are graphs, entities,
relations, inputs and names; `NormalTypes`: normalizing a type yields a type. The
bounds on the sizes of graphs are constants too and may be any numbers. Some
theorems need more, and say so:
`NamedOnce`, that no graph that is loaded and no batch of `create_entities` has
a name twice; `KeyedOnce`, that no batch of `create_relations` has a triple
twice; `TextedOnce`, that no entity of a batch has a text twice. Without them the
theorems are false, since the code compares the entries of a batch with the
graph and not with each other (graph.rs:269); a caller has to. `TypesSettle`, for
normalization, is that a canonical type is its own normal form and that title
case, once applied, stays as it is. The `entity_types.json` that comes with the
server satisfies the first. The second fails for the few letters whose upper
case is longer than they are: "ßa" becomes "SSa" and then "Ssa" (`py_title`,
graph.rs:22), so a type that begins with one is changed twice.

*Argument.* Most operations keep some rows of a vector and rewrite them, so
`GraphLemmas` begins with `Retain`: the place of a kept row is its rank among the
kept ones, and each place of the result is the place of one row. From that come,
for each operation, what it does to names, to keys and to texts, to the facts of
one entity and to dangling relations, with no behaviour in sight. `GraphProofs`
goes through the actions. `TypeOK` is inductive and all the invariant that most
of the theorems need; `UniqueNames` is inductive relative to it. `NothingForgotten`
needs both: a merge removes every row of the source's name and gathers the
facts of the first. The properties of one call (`AddObservationsOnlyCloses`,
`SupersedesApplied`, `ReplayIsNoOp`) follow from `TypeOK` alone. For replays, what
a call has recorded is still there in the graph that it leaves, and a call whose
every input is there adds and closes nothing. `MergesUnite` follows a row of the
graph through `Absorb`, the re-pointing, the removal of loops and `Dedupe`, which
keeps of the rows with one key the one with the least date; it needs no
uniqueness, for a merge looks at the first entity of each name.
`RenamesCanBeTakenBack` needs that no other entity answers to the old name and no
relation mentions the new one: the second rename then re-points exactly the rows
that the first one did.

### Queries and histories

*Views.* `PagesShowAll`, `DrawingsShowThePage` and `ListsFindWhatSearchFinds`
hold in every graph, so they need `TypeOK` only (and `SearchAssumption`: what
contains a string contains it trimmed, and every string contains the empty one).
The first counts the copies of a relation: a filter keeps as many as there are
or none (`CountRetain`), the page's two lists are filters of a filter, and no
relation passes both. The second goes through the shortest paths: a neighbour is
at distance one, and at depth one there is no other. The third says what the two
predicates have in common: the list, before it is sorted, is the search for the
trimmed string, row by row, and what is found for the string as written is among
it (`SearchGrows`).

*Assumptions.* `SubjectAssumption`: every initial graph has the entity whose
history is told, and there names identify entities and texts identify facts of an
entity. Without it a successor could be looked up under another fact's text.

*Argument.* A graph does not say which fact superseded which. The inductive
invariant `HistoryInv` says that the line is a chain: each member but the first
has a beginning, and it is the end of the one before (`Chained`); and that names
and texts still identify. `Record` extends the chain by the fact whose beginning
the closure was dated with; everything else, merges and rewordings included,
keeps facts in their places with their intervals (`IntervalsKept`). Of a chain, the
first member that has not ended at t has begun by then, since the one before had
ended: `OneAlwaysStands`. Of a chain in order of time, an earlier member has ended
when a later one begins: `OnlyOneStands`. The invariant was checked with TLC
before it was proved.

*Order.* `HitsAreRanked`: `ComesBefore` is a strict total order of the hits, so
the number of hits before a hit is its rank, every rank below their number is
taken, and the answer lists the hits by rank. `LimitsKeepTheFirst` follows for any
query. `ThePastStays` compares two answers: what a batch that is not backdated adds
or closes begins or ends no earlier than the clock's reading, so as of an earlier
t the same facts stand; their keys are the old ones, hence their ranks.

*Instants.* `AnswersTellTheTime` assumes that what is written is canonical
(`WrittenCanonically`): UTC as the server writes it, with or without a fraction, or
a date with all its digits. That the order of such strings never contradicts the
order in time is `CanonicalOrder`. The code accepts more than that, and for the rest
the theorem does not hold: `history_unpadded` and section 6.

### Loops

Each theorem compares a loop of the code with an operator, in every graph and, for
`add_observations`, for every batch; `TypeOK` is all that they need. The
argument is that of a loop invariant, with the round in place of a program
counter:

* *State after n rounds.* For each loop a closed form says what it has made of
  the first n of its inputs: the names within n steps of the center, and at the
  frontier those at n steps exactly (`SearchFindsBall`); of each key that has
  occurred the best row so far, and the keys in order (`DedupingGoesOn`); the
  targets that earlier inputs have claimed (`ValidatingGoesOn`); the graph that
  `AddObservations` leaves for the first n inputs (`ApplyingGoesOn`).
* *One round.* The body of the loop leads from the closed form for n - 1 to the
  one for n. The longest is `ApplyingGoesOn`, where the batch cut after n inputs is
  compared with the batch cut before: which texts are new (`TextsAfter`), which
  facts are closed and which are added (`ClosedFurther`, `NewFactsFurther`). That an
  accepted batch never panics is part of it: what an input supersedes was there
  when the batch was validated, and rounds take no text away.
* *All rounds.* The library's induction theorems take a predicate as a
  parameter, which is beyond the provers here. Instead the first round at which
  two sequences of states differ is looked at: sets of numbers have a least
  member (`LeastNumber`), so two sequences that begin alike and go on alike are
  alike (`SameRounds`). The sequence of the closed forms satisfies the recursion
  that defines the loop, so that recursion has a solution, and it is this one.

### Clients that retry

`RetryAssumption` gives the constants their types: any set of clients, any
additive calls, any graph to begin with. That a success means that the call is
in the file is not inductive by itself: a later save replaces the file by what is
in memory. `SettledInv` adds that what an acknowledged call asked for is in memory
as well (`Settled`: the entities' names, the relations' keys, the observations'
texts are there), which every additive call leaves as it is and a restart makes
so. A settled call may be repeated and changes
nothing, the ground for `SuccessIsDurable` and `RecordedIsNotRefused`.

`RetriesLeaveNoTrace` needs an invariant that names the order in which calls took
effect, for memory and for the file (`StoryInv`). A story is a sequence of clients
without repetitions whose calls, made once each from the initial graph on, are
accepted and leave the graph in question (`Leads`); all of them have been sent and
are settled in it; who was acknowledged is in it; and nobody comes before a
client that it knew to have succeeded. A request that is served and whose client is in
the story changes nothing, since its call is settled; any other is told last
(`StoryGrows`), and nobody can have known of its success. A save gives the file
memory's story, and a restart gives memory the file's. `StoryRuns` shows that the
recursion of `RunOf` goes through the graphs of the story, as for the loops.

### Access

`AccessAssumption` gives the constants their types. `SessionsEnd` follows from
`AgeShown`: the time since a session's issue is at most the age that the clock
shows plus what the clock has been set back since; the age that the clock shows
is what `verify_session` looks at. `SessionsReset` follows from `SecretsOwn`: a
secret that is not the environment's is the number of the start that drew it,
in the process and in each cookie. `Authorization` needs that a deletion that is
under way was let in by the configuration that the process still has
(`DoomedAuthorized`): the configuration changes only when there is no process
to serve it.

### Instants

`InstantAssumption` gives the lengths of days and hours, and the precision.
`CanonicalOrder` compares the first field in which two strings differ: the date,
the second of the day (a date alone is the prefix of all its instants), or what
follows the seconds, where an absent fraction (`+`) comes before a present one
(`.`).

### What is only model-checked

`RequestsAnswered`: liveness under fairness is beyond the prover. Every other
property of a passing run is stated by a theorem; the runs stay, for they show
on a small instance that the properties can be violated by wrong code, and that
no assumption of a theorem is empty.

## 5. What is not modelled

* *Lock poisoning.* A closure that panics under the write lock would make every
  later request for the file panic. The one `expect` that depends on the
  caller's data (graph.rs:395) is shown never to fire
  (`AddObservationsMatchesLoop`).
* *Rendering*: the templates, the list's sort by a column, redirects, the
  warning before a drawing of a large graph.
* *Text*: JSON, JSONL and Python-compatible escapes, HTML, the wording of
  errors, Unicode case mapping (`Lower` and `Title` are constants), the loading
  of `entity_types.json`.
* *Cryptography*: the encoding and attributes of cookies, HMAC, the constant
  time of comparisons, how a secret is drawn.
* *Other writers of the data files*: the code never looks at a file again after
  it was loaded, so their changes are lost.
* *Transport*: HTTP, the MCP protocol, Host validation, `health.rs`.
* *The helpers in Python*, benchmarks and fixtures: not part of the server.

## 6. Disagreements between the code and what is written about it

* `store_alias`: stores are keyed by name, so two names of one file
  (`team.jsonl`, `./team.jsonl`) have two locks and one temporary file, and a
  partial file can become visible (store.rs:8 says it cannot).
* `graph_merge_loops`: a merge drops all self-loops of the graph, not only
  those that re-pointing creates (graph.rs:620).
* `graph_current_facts`: without `asOf` and `includeSuperseded`, `search_facts`
  leaves out every fact that has an end, also one whose validity has not ended
  yet (graph.rs:240): a fact that a correction closes at a date to come is
  hidden at once, while the correction, which is not true yet, is found.
* `history_unpadded`: `validate_instant` lets a date pass whose day or month has one
  digit (mcp.rs:311), and compared as a string `2026-05-2` comes after
  `2026-05-10`: a fact that ends on the second is told true as of the tenth.
  mcp.rs:306-308 says that what the order of strings cannot deal with is rejected.
* `web_revoked`: a token that is taken out of `tokens.json` keeps its sessions
  until the process is restarted, since the file is read at start-up only
  (main.rs:135; webui/auth.rs:8-9 says that revocations take effect
  immediately).

Others were met that no run shows:

* A stat that fails is taken for a missing file (store.rs:52): requests see an empty
  graph, and the next save drops what the file held, acknowledged or not.
  store.rs:46-47 speaks of a missing or empty file only. `AckedDurable` and the
  others say that with power losses this is the only way.
* The entity list trims what it is asked for (views.rs:38-39), `search_nodes` does
  not (graph.rs:716): around white space they differ. `ListAgreesWithSearch` says
  how.
* `delete_entity` looks its entity up twice, under two locks (webui/api.rs:212-220):
  it deletes whatever has the name by then, also an entity that another request
  renamed to it or merged into it in between, and answers with success when there is
  none any more.
* A rename does not deduplicate the relations that it re-points; relations that
  already mention the new name collide with them (README.md:13 says that
  relations are deduplicated). `KeysStayUnique` says that this is the only way.
* An edit in the web UI may give two facts of an entity one text, which
  graph.rs:62 calls their identity. `TextsStayUnique` says that this is the only
  way.
* `validate_instant` (mcp.rs:305) accepts offsets, and instants are then
  compared as strings: `2026-05-02T01:00:00+02:00` is an hour before midnight
  and sorts after it, and `…:00Z` sorts after the fractions of that second.
  `AsOfTellsTheTime` is checked and proved for canonical instants.
* Normalization is idempotent only if every alias's canonical form is its own
  normal form (mcp.rs:220 does not say so): with "nonprofit" for "NGO" and no
  alias for "ngo", the second run makes it "Ngo".
* `create_entities` may add two entities of one name in one call (graph.rs:269
  says so), and a merge of that name then takes the first one's observations
  and removes both (graph.rs:656).
* A relation to a name without an entity is drawn as an edge to a node that is
  not there (webui/api.rs:80).

## 7. Plan

1. That the chain of a line survives the deletion of a fact which is no member.
2. The composition of `Store` with the operations of `KnowledgeGraph` in place
   of its abstract mutations.
