--------------------------- MODULE KnowledgeGraph ---------------------------
(***************************************************************************)
(* One data file's graph under the tools that change it: the Graph methods *)
(* of src/src/graph.rs as Store::mutate runs them, one at a time under the *)
(* write lock.  A call that the code refuses, and a call that changes      *)
(* nothing, is a stuttering step.                                          *)
(***************************************************************************)
EXTENDS GraphTypes

CONSTANTS
    Now,                 \* readings of the wall clock: it need not be monotonic
    InitialGraphs,       \* the graph load_graph finds at the start
    EntityBatches,       \* arguments of create_entities
    RelationBatches,     \* arguments of create_relations
    ObservationBatches,  \* arguments of add_observations
    Edits,               \* <<entity, old text, new text>> from the web UI
    FactDeletions,       \* arguments of delete_observations
    EntityDeletions,     \* arguments of delete_entities
    RelationDeletions,   \* arguments of delete_relations
    Moves,               \* <<name, name>>: arguments of rename and merge
    MaxEntities, MaxFacts, MaxRelations  \* bounds on the graph explored

ASSUME GraphAssumption ==
    /\ Now \subseteq Times
    /\ MaxEntities \in Nat /\ MaxFacts \in Nat /\ MaxRelations \in Nat

ASSUME ArgumentsTyped ==
    /\ InitialGraphs \subseteq Graph
    /\ EntityBatches \subseteq Seq(Entity)
    /\ RelationBatches \subseteq Seq(Relation)
    /\ ObservationBatches \subseteq Seq(FactInput)
    /\ Edits \subseteq Names \X FactTexts \X FactTexts
    /\ Moves \subseteq Names \X Names

VARIABLES
    graph,  \* Store.graph
    clock   \* now_iso() as the last mutation read it

vars == <<graph, clock>>

TypeOK == graph \in Graph /\ clock \in Now

Init == graph \in InitialGraphs /\ clock \in Now

Bounded(g) ==
    /\ Len(g.entities) <= MaxEntities /\ Len(g.relations) <= MaxRelations
    /\ \A i \in DOMAIN g.entities : Len(g.entities[i].facts) <= MaxFacts

\* The mutation leaves g, having read the clock as now.
Becomes(g, now) == Bounded(g) /\ graph' = g /\ clock' = now

-----------------------------------------------------------------------------
(* The tools                                                               *)

Create(now) ==
    \E b \in EntityBatches : Becomes(CreateEntities(graph, b, now), now)

Relate(now) ==
    \E b \in RelationBatches : Becomes(CreateRelations(graph, b, now), now)

Observe(now) ==
    \E b \in ObservationBatches :
        /\ ObservationsOK(graph, b)
        /\ Becomes(AddObservations(graph, b, now), now)

Edit(now) ==
    \E e \in Edits :
        /\ CanUpdate(graph, e[1], e[2])
        /\ Becomes(UpdateObservation(graph, e[1], e[2], e[3], now), now)

Forget(now) ==
    \E pairs \in FactDeletions : Becomes(DeleteObservations(graph, pairs, now), now)

Delete(now) ==
    \E names \in EntityDeletions : Becomes(DeleteEntities(graph, names), now)

Unrelate(now) ==
    \E keys \in RelationDeletions : Becomes(DeleteRelations(graph, keys), now)

Rename(now) ==
    \E m \in Moves :
        /\ CanRename(graph, m[1], m[2])
        /\ Becomes(RenameEntity(graph, m[1], m[2], now), now)

Merge(now) ==
    \E m \in Moves :
        /\ CanMerge(graph, m[1], m[2])
        /\ Becomes(MergeEntities(graph, m[1], m[2], now), now)

Normalize(now) == Becomes(NormalizeAll(graph, now), now)

Next ==
    \E now \in Now :
        \/ Create(now) \/ Relate(now) \/ Observe(now) \/ Edit(now)
        \/ Forget(now) \/ Delete(now) \/ Unrelate(now)
        \/ Rename(now) \/ Merge(now) \/ Normalize(now)

Spec == Init /\ [][Next]_vars
=============================================================================
