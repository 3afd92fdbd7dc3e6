----------------------------- MODULE GraphLoops ------------------------------
(***************************************************************************)
(* The loops of src/src/graph.rs and of graph_data, one step for each      *)
(* iteration, to compare the closed forms of GraphOps and GraphQueries     *)
(* with.                                                                   *)
(***************************************************************************)
EXTENDS GraphProperties, GraphQueries

CONSTANT Depths  \* what the depth parameter of graph_data may be

\* add_observations, the validating loop.
ValidateInput(g, v, input) ==
    LET e == EntityOf(g, input.entity)
        target == <<input.entity, input.supersedes>>
    IN IF ~v.ok THEN v
       ELSE IF ~HasEntity(g, input.entity) THEN [v EXCEPT !.ok = FALSE]
       ELSE IF input.supersedes = None \/ input.text \in Texts(e) THEN v
       ELSE IF \/ input.supersedes \notin Texts(e)
               \/ ~IsActive(FactOf(e, input.supersedes))
               \/ target \in v.pending
            THEN [v EXCEPT !.ok = FALSE]
       ELSE [v EXCEPT !.pending = @ \cup {target}]

LoopValid(g, batch) ==
    LET after[n \in 0..Len(batch)] ==
            IF n = 0 THEN [ok |-> TRUE, pending |-> {}]
            ELSE ValidateInput(g, after[n - 1], batch[n])
    IN after[Len(batch)].ok

\* add_observations, the applying loop; a missing target is a panic, which
\* would poison the lock.
ApplyInput(s, input, now) ==
    LET k == EntityIndex(s.graph, input.entity)
        e == s.graph.entities[k]
        fact == NewFact(input, now)
        panics == input.supersedes # None /\ input.supersedes \notin Texts(e)
        closed == IF input.supersedes = None THEN e.facts
                  ELSE [e.facts EXCEPT ![TextIndex(e, input.supersedes)].to = fact.from]
        observed == [e EXCEPT !.facts = Append(closed, fact), !.updated = now]
    IN IF s.panicked \/ input.text \in Texts(e) THEN s
       ELSE IF panics THEN [s EXCEPT !.panicked = TRUE]
       ELSE [s EXCEPT !.graph.entities[k] = observed]

LoopAdd(g, batch, now) ==
    LET after[n \in 0..Len(batch)] ==
            IF n = 0 THEN [graph |-> g, panicked |-> FALSE]
            ELSE ApplyInput(after[n - 1], batch[n], now)
    IN after[Len(batch)]

\* merge_entities, the loop that dedupes the relations: a row whose key has been
\* seen replaces the one that is kept if it is older.
DedupeRow(d, r) ==
    LET key == Key(r)
        first == key \notin DOMAIN d.seen
        kept == d.seen[key].created
        wins == first \/ (r.created # None /\ (kept = None \/ r.created < kept))
    IN [seen |-> [k \in DOMAIN d.seen \cup {key} |->
                     IF k = key /\ wins THEN r ELSE d.seen[k]],
        order |-> IF first THEN Append(d.order, key) ELSE d.order]

LoopDedupe(rs) ==
    LET after[n \in 0..Len(rs)] ==
            IF n = 0 THEN [seen |-> << >>, order |-> << >>]
            ELSE DedupeRow(after[n - 1], rs[n])
        d == after[Len(rs)]
    IN [i \in DOMAIN d.order |-> d.seen[d.order[i]]]

\* Mutant of Expand: relations are followed from their source only.
ExpandForward(g, s) ==
    LET next == {r.to : r \in {q \in Range(g.relations) : q.from \in s.frontier}}
                \ s.included
    IN [included |-> s.included \cup next, frontier |-> next]

\* graph_data, one round of its breadth-first search: what the frontier leads
\* to and has not been reached before is the next frontier.
Expand(g, s) ==
    LET next == ({r.to : r \in {q \in Range(g.relations) : q.from \in s.frontier}}
                 \cup {r.from : r \in {q \in Range(g.relations) : q.to \in s.frontier}})
                \ s.included
    IN [included |-> s.included \cup next, frontier |-> next]

LoopWithin(g, center, depth) ==
    LET round[n \in 0..depth] ==
            IF n = 0 THEN [included |-> {center}, frontier |-> {center}]
            ELSE Expand(g, round[n - 1])
    IN round[depth].included

\* In every reachable graph the closed form of add_observations accepts what
\* its validation accepts and leaves what its loop leaves, and the loop never
\* panics: what was validated is still there when it is applied.
AddObservationsMatchesLoop ==
    \A b \in ObservationBatches :
        /\ LoopValid(graph, b) = ObservationsOK(graph, b)
        /\ ObservationsOK(graph, b) =>
              LoopAdd(graph, b, clock) =
                  [graph |-> AddObservations(graph, b, clock), panicked |-> FALSE]

\* The closed form of the dedupe keeps the rows, and the order, of the loop.
DedupeMatchesLoop == Dedupe(graph.relations) = LoopDedupe(graph.relations)

\* The breadth-first search of graph_data, which goes on from the last round's
\* names only, finds every name within the depth asked for and no other,
\* around loops, along relations against their direction and through names of
\* no entity.
NeighbourhoodIsBall ==
    \A e \in Range(graph.entities), raw \in Depths :
        LoopWithin(graph, e.name, Depth(raw)) = Within(graph, e.name, Depth(raw))
=============================================================================
