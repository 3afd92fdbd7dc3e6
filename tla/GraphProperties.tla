-------------------------- MODULE GraphProperties ---------------------------
(***************************************************************************)
(* What the tools promise about the graph.  State predicates that quantify *)
(* over a tool's arguments ask it of every call that could come next in a  *)
(* reachable state; action properties ask it of every call that does.      *)
(***************************************************************************)
EXTENDS KnowledgeGraph

-----------------------------------------------------------------------------
(* Names, texts and keys as identities                                     *)

\* "Entities deduplicated by name": when no create_entities call names an
\* entity twice, no sequence of creations, renames and merges yields two
\* entities with one name.
UniqueNames == Distinct(graph.entities, LAMBDA e : e.name)

\* Relations are deduplicated by (from, to, relationType), whatever is created,
\* merged or deleted.  Only a rename onto a name that relations mention without
\* there being such an entity may leave two rows with one key: rename_entity
\* re-points and, unlike merge_entities, does not deduplicate.
UniqueKeys(g) == Distinct(g.relations, Key)

KeysStayUnique ==
    [][ UniqueKeys(graph) =>
            \/ UniqueKeys(graph')
            \/ \E m \in Moves :
                  /\ CanRename(graph, m[1], m[2]) /\ m[2] \in Dangling(graph)
                  /\ graph' = RenameEntity(graph, m[1], m[2], clock') ]_vars

\* A fact's identity within its entity is its exact text (Fact), whichever of
\* a batch, a merge, a supersede or a deletion changes the entity.  Only an edit
\* may give a fact the text of another: update_observation looks up the old text
\* and not the new one.
TextIdentifiesFact(g) ==
    \A e \in Range(g.entities) : Distinct(e.facts, LAMBDA f : f.text)

TextsStayUnique ==
    [][ TextIdentifiesFact(graph) =>
            \/ TextIdentifiesFact(graph')
            \/ \E e \in Edits :
                  /\ CanUpdate(graph, e[1], e[2])
                  /\ e[3] \in Texts(EntityOf(graph, e[1])) \ {e[2]}
                  /\ graph' = UpdateObservation(graph, e[1], e[2], e[3], clock') ]_vars

-----------------------------------------------------------------------------
(* Relations and the entities they name                                    *)

\* Only create_relations, which does not look at the entities, may leave a
\* relation pointing at no entity: a delete cascades, a rename and a merge
\* take the relations along, however many entities share a name.
NoNewDangling ==
    [][ \/ Dangling(graph') \subseteq Dangling(graph)
        \/ \E b \in RelationBatches : graph' = CreateRelations(graph, b, clock') ]_vars

Unstamped(g) ==
    [entities |-> [i \in DOMAIN g.entities |-> [g.entities[i] EXCEPT !.updated = None]],
     relations |-> [i \in DOMAIN g.relations |-> [g.relations[i] EXCEPT !.updated = None]]]

\* Renaming an entity to a name that nothing mentions loses nothing: renaming
\* it back gives the graph again, but for the stamps.
RenameReversible ==
    \A m \in Moves, now \in Now :
        CanRename(graph, m[1], m[2]) /\ m[2] \notin Endpoints(graph) =>
            LET there == RenameEntity(graph, m[1], m[2], now)
            IN /\ CanRename(there, m[2], m[1])
               /\ Unstamped(RenameEntity(there, m[2], m[1], now)) = Unstamped(graph)

\* merge_entities keeps, for every relation that is not a self-loop once
\* re-pointed, exactly one row with its key, dated as early as any of the rows
\* it stands for; the target keeps its facts in place, gains every text of the
\* source and is as old as the older of the two.
MergeUnites ==
    \A m \in Moves : CanMerge(graph, m[1], m[2]) =>
        LET s == EntityOf(graph, m[1])
            t == EntityOf(graph, m[2])
            merged == MergeEntities(graph, m[1], m[2], clock)
            t2 == EntityOf(merged, m[2])
            sent == {r \in {Repoint(q, m[1], m[2]) : q \in Range(graph.relations)} :
                        r.from # r.to}
            dates(k) == {r.created : r \in {q \in sent : Key(q) = k}} \ {None}
        IN /\ SubSeq(t2.facts, 1, Len(t.facts)) = t.facts
           /\ Texts(t2) = Texts(s) \cup Texts(t)
           /\ t2.created = Earliest(s.created, t.created)
           /\ ~HasEntity(merged, m[1]) /\ m[1] \notin Endpoints(merged)
           /\ Keys(merged) = {Key(r) : r \in sent}
           /\ Distinct(merged.relations, Key)
           /\ \A r \in Range(merged.relations) :
                 r.created = IF dates(Key(r)) = {} THEN None ELSE Min(dates(Key(r)))

\* merge_entities drops the self-loops that re-pointing creates: a loop of an
\* entity that is not merged is kept.
MergeKeepsOtherLoops ==
    \A m \in Moves : CanMerge(graph, m[1], m[2]) =>
        \A r \in Range(graph.relations) :
            r.from = r.to /\ r.from \notin {m[1], m[2]} =>
                Key(r) \in Keys(MergeEntities(graph, m[1], m[2], clock))

-----------------------------------------------------------------------------
(* Facts                                                                   *)

\* Storage is append-only: add_observations leaves every stored fact in its
\* place; it may only end the validity of an active one, at the instant at
\* which a new fact of the same entity, stored with it, begins to be valid.
\* The new facts have texts of their own.
AddObservationsOnlyCloses ==
    \A b \in ObservationBatches : ObservationsOK(graph, b) =>
        LET after == AddObservations(graph, b, clock) IN
        \A i \in DOMAIN graph.entities :
            LET old == graph.entities[i].facts
                new == after.entities[i].facts
                added == (Len(old) + 1)..Len(new)
            IN /\ Len(old) <= Len(new)
               /\ \A k \in DOMAIN old :
                     \/ new[k] = old[k]
                     \/ /\ IsActive(old[k])
                        /\ \E a \in added : new[k] = [old[k] EXCEPT !.to = new[a].from]
               /\ \A a \in added, k \in DOMAIN new : new[a].text = new[k].text => a = k

\* An accepted call closes each fact it names, once: nothing that was
\* validated is lost when the call is applied, unless the same text came
\* earlier in the same call.
SupersedesApplied ==
    \A b \in ObservationBatches : ObservationsOK(graph, b) =>
        LET after == AddObservations(graph, b, clock) IN
        \A i \in Supersedes(graph, b) :
            (\A j \in 1..(i - 1) : b[j].entity = b[i].entity => b[j].text # b[i].text)
            => LET e == EntityOf(after, b[i].entity)
               IN FactOf(e, b[i].supersedes).to = FactOf(e, b[i].text).from

\* No text is lost but by an edit or a deletion: in particular a merge takes
\* everything the source had along.
NothingForgotten ==
    [][ \/ AllTexts(graph) \subseteq AllTexts(graph')
        \/ Edit(clock') \/ Forget(clock') \/ Delete(clock') ]_vars

-----------------------------------------------------------------------------
(* Replays and stamps                                                      *)

\* The tools annotated idempotent (tool_annotations): a repeat of the same
\* call, at a later or an earlier reading of the clock, is accepted and leaves
\* the graph unchanged.
ReplayIsNoOp ==
    \A n1, n2 \in Now :
        /\ \A b \in EntityBatches :
              LET g == CreateEntities(graph, b, n1) IN CreateEntities(g, b, n2) = g
        /\ \A b \in RelationBatches :
              LET g == CreateRelations(graph, b, n1) IN CreateRelations(g, b, n2) = g
        /\ \A b \in ObservationBatches : ObservationsOK(graph, b) =>
              LET g == AddObservations(graph, b, n1)
              IN ObservationsOK(g, b) /\ AddObservations(g, b, n2) = g
        /\ \A d \in FactDeletions :
              LET g == DeleteObservations(graph, d, n1) IN DeleteObservations(g, d, n2) = g

\* normalize_entity_types is annotated idempotent too: a second run finds
\* nothing left to change.
NormalizeIsIdempotent ==
    \A n1, n2 \in Now :
        LET g == NormalizeAll(graph, n1) IN NormalizeAll(g, n2) = g

\* lastUpdated: a row that a mutation creates or changes in any way carries
\* the time of that mutation; only a merge re-points relations unstamped.
ChangesAreStamped ==
    [][ /\ \A e \in Range(graph'.entities) :
              e \in Range(graph.entities) \/ e.updated = clock'
        /\ \/ \A r \in Range(graph'.relations) :
                 r \in Range(graph.relations) \/ r.updated = clock'
           \/ Merge(clock') ]_vars
=============================================================================
