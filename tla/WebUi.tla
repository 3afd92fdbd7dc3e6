-------------------------------- MODULE WebUi --------------------------------
(***************************************************************************)
(* Requests on the graphs: the endpoints of the web UI, which a session    *)
(* cookie authenticates (src/src/webui/api.rs), and the tools, which a     *)
(* bearer token does (src/src/mcp.rs).  Several processes' lives, since    *)
(* the graphs are in the files; that a mutation is whole, and saved, is    *)
(* the subject of Store.                                                   *)
(***************************************************************************)
EXTENDS Access, Sequences

CONSTANTS
    NoType, Lower, Title, Aliases,  \* parameters of GraphOps
    InitialGraph,     \* what every file holds at first
    Names,            \* entities that are deleted in the web UI
    Edits,            \* <<entity, old text, new text>>
    EntityBatches, RelationBatches, ObservationBatches,   \* arguments of the
    EntityDeletions, FactDeletions, RelationDeletions,    \* tools, as in
    Moves,                                                \* KnowledgeGraph
    MaxRows, MaxFacts \* bounds on the rows of a graph and the facts of an entity

INSTANCE GraphOps

Now == 1  \* time stamps are the subject of KnowledgeGraph

VARIABLES
    graphs,  \* the graph of each file
    doomed,  \* DELETE of each browser, once it has found its entity
    last     \* history: the token that the last request came with

webVars == <<accessVars, graphs, doomed, last>>

WebInit ==
    /\ AccessInit
    /\ graphs = [f \in Files |-> InitialGraph]
    /\ doomed = [b \in Browsers |-> None]
    /\ last = None

-----------------------------------------------------------------------------
Small(g) ==
    /\ Len(g.entities) <= MaxRows /\ Len(g.relations) <= MaxRows
    /\ \A i \in DOMAIN g.entities : Len(g.entities[i].facts) <= MaxFacts

\* A request with token t leaves g in the file f.
Serve(t, f, g) ==
    /\ Small(g)
    /\ graphs' = [graphs EXCEPT ![f] = g]
    /\ last' = t
    /\ UNCHANGED accessVars

\* Mutant of MayWrite: the endpoint does not look at the mode.
MayWriteAnyMode(b) == SignedIn(b)

\* current_user_or_401 and forbidden_if_read_only, which every endpoint calls
\* for itself.
MayWrite(b) == SignedIn(b) /\ ~ReadOnly(EntryOf(b))

\* MemoryServer::auth and authed_store.
ToolMayWrite(t) == Running /\ t \in DOMAIN entries /\ ~ReadOnly(entries[t])

\* PATCH /ui/api/observations
UpdateObservationRequest(b) ==
    /\ MayWrite(b) /\ doomed[b] = None
    /\ \E e \in Edits :
          LET g == graphs[EntryOf(b).file]
          IN /\ CanUpdate(g, e[1], e[2])
             /\ Serve(cookie[b].token, EntryOf(b).file,
                      UpdateObservation(g, e[1], e[2], e[3], Now))
    /\ UNCHANGED doomed

\* POST /ui/api/observations/delete
DeleteObservationRequest(b) ==
    /\ MayWrite(b) /\ doomed[b] = None
    /\ \E e \in Edits :
          Serve(cookie[b].token, EntryOf(b).file,
                DeleteObservations(graphs[EntryOf(b).file], {<<e[1], e[2]>>}, Now))
    /\ UNCHANGED doomed

\* DELETE /ui/api/entities/{name}, up to the end of the read that looks for
\* the entity; without one the answer is 404.
FindEntity(b) ==
    /\ MayWrite(b) /\ doomed[b] = None
    /\ \E n \in Names :
          /\ HasEntity(graphs[EntryOf(b).file], n)
          /\ doomed' = [doomed EXCEPT ![b] =
                [token |-> cookie[b].token, file |-> EntryOf(b).file, name |-> n]]
    /\ UNCHANGED <<accessVars, graphs, last>>

\* The rest of it, under the write lock, whatever others did in between.
DeleteEntityRequest(b) ==
    /\ doomed[b] # None
    /\ LET r == doomed[b]
       IN Serve(r.token, r.file, DeleteEntities(graphs[r.file], {r.name}))
    /\ doomed' = [doomed EXCEPT ![b] = None]

\* What the tools may leave of g, by creating,
Created(g) ==
    {CreateEntities(g, b, Now) : b \in EntityBatches} \cup
    {CreateRelations(g, b, Now) : b \in RelationBatches} \cup
    {AddObservations(g, b, Now) : b \in {c \in ObservationBatches : ObservationsOK(g, c)}}

\* by deleting,
Deleted(g) ==
    {DeleteEntities(g, names) : names \in EntityDeletions} \cup
    {DeleteObservations(g, pairs, Now) : pairs \in FactDeletions} \cup
    {DeleteRelations(g, keys) : keys \in RelationDeletions}

\* and by renaming, merging and normalizing.
Rearranged(g) ==
    {RenameEntity(g, m[1], m[2], Now) : m \in {n \in Moves : CanRename(g, n[1], n[2])}} \cup
    {MergeEntities(g, m[1], m[2], Now) : m \in {n \in Moves : CanMerge(g, n[1], n[2])}} \cup
    {NormalizeAll(g, Now)}

\* A call of one of the nine tools that write.
CallTool(t) ==
    /\ ToolMayWrite(t)
    /\ LET g == graphs[entries[t].file]
       IN \E h \in Created(g) \cup Deleted(g) \cup Rearranged(g) :
             Serve(t, entries[t].file, h)
    /\ UNCHANGED doomed

\* The end of the process is the end of its requests; everything else goes on
\* beside them.
Background ==
    /\ AccessNext
    /\ doomed' = IF entries' = None THEN [b \in Browsers |-> None] ELSE doomed
    /\ UNCHANGED <<graphs, last>>

WebNext ==
    \/ Background
    \/ \E t \in Tokens : CallTool(t)
    \/ \E b \in Browsers :
          \/ UpdateObservationRequest(b) \/ DeleteObservationRequest(b)
          \/ FindEntity(b) \/ DeleteEntityRequest(b)

WebSpec == WebInit /\ [][WebNext]_webVars

-----------------------------------------------------------------------------
\* A file's graph changes only for a token that the configuration read at the
\* start of the process maps to that file and lets write: whichever way the
\* request came, whatever has been done to tokens.json or the session since,
\* and also if it had begun before another sign-in.
WritesAreAuthorized ==
    [][ \A f \in Files : graphs'[f] # graphs[f] =>
          /\ Running /\ last' \in DOMAIN entries
          /\ entries[last'] = [file |-> f, mode |-> "read-write"] ]_webVars
=============================================================================
