---------------------------- MODULE GraphHistory ----------------------------
(***************************************************************************)
(* How one fact evolved: line lists facts of the entity Subject, by their  *)
(* places among its facts, each of which was recorded as superseding the   *)
(* one before it.  The graph keeps no such link: search_facts must make    *)
(* out the standing truth from the intervals alone.                        *)
(*                                                                         *)
(* Meanwhile other facts are recorded, texts are edited in the web UI and  *)
(* other entities are merged into Subject.  Edits are to texts the entity  *)
(* does not have, and nothing of Subject is deleted.                       *)
(***************************************************************************)
EXTENDS KnowledgeGraph, GraphQueries

CONSTANTS
    Subject,  \* an entity of every initial graph, with an active fact
    Queries,  \* queries that the answers' order and limit are checked for
    Real      \* the instant that each of Times stands for

\* Names and texts identify in the files, as UniqueNames and TextsStayUnique
\* have it.
ASSUME SubjectAssumption ==
    Subject # None /\ \A g \in InitialGraphs :
        /\ HasEntity(g, Subject)
        /\ Distinct(g.entities, LAMBDA e : e.name)
        /\ \A i \in DOMAIN g.entities : Distinct(g.entities[i].facts, LAMBDA f : f.text)

ASSUME QueriesAssumption == \A q \in Queries : q.limit \in Nat /\ q.ascending \in BOOLEAN

VARIABLE line

historyVars == <<graph, clock, line>>

Facts == EntityOf(graph, Subject).facts
LineFact(k) == Facts[line[k]]

HistoryInit ==
    /\ Init
    /\ line \in {<<k>> : k \in {j \in DOMAIN Facts : IsActive(Facts[j])}}

\* The text of the input that supersedes the last fact of the line, if any.
Successors(batch) ==
    {batch[i].text : i \in {j \in AddedTo(graph, batch, Subject) :
                               batch[j].supersedes = LineFact(Len(line)).text}}

Record(now) ==
    \E b \in ObservationBatches :
        /\ ObservationsOK(graph, b)
        /\ Becomes(AddObservations(graph, b, now), now)
        /\ line' = IF Successors(b) = {} THEN line
                   ELSE Append(line, TextIndex(EntityOf(graph', Subject),
                                               CHOOSE t \in Successors(b) : TRUE))

Reword(now) ==
    \E e \in Edits :
        /\ CanUpdate(graph, e[1], e[2]) /\ e[3] \notin Texts(EntityOf(graph, e[1]))
        /\ Becomes(UpdateObservation(graph, e[1], e[2], e[3], now), now)
        /\ UNCHANGED line

Gather(now) ==
    \E m \in Moves :
        /\ m[2] = Subject /\ CanMerge(graph, m[1], m[2])
        /\ Becomes(MergeEntities(graph, m[1], m[2], now), now)
        /\ UNCHANGED line

HistoryNext == \E now \in Now : Record(now) \/ Reword(now) \/ Gather(now)

HistorySpec == HistoryInit /\ [][HistoryNext]_historyVars

-----------------------------------------------------------------------------
\* What was true of Subject as of t, with no limit that matters.
AsOf(g, t) ==
    SearchFacts(g, [query |-> None, entity |-> Subject, asOf |-> t, since |-> None,
                    until |-> None, superseded |-> FALSE, ascending |-> TRUE,
                    limit |-> Len(EntityOf(g, Subject).facts)])

\* The members of the line that the query as of t finds.
StandAt(t) ==
    LET found == AsOf(graph, t).facts
    IN {k \in DOMAIN line : \E i \in DOMAIN found : found[i].fact = LineFact(k)}

\* The line has begun by t and has not ended.
Covers(t) ==
    /\ LineFact(1).from = None \/ LineFact(1).from <= t
    /\ IsActive(LineFact(Len(line))) \/ t < LineFact(Len(line)).to

Chronological ==
    \A k \in 2..Len(line) :
        LineFact(k - 1).from = None \/ LineFact(k - 1).from <= LineFact(k).from

\* "As-of: the standing truth at a date": from its beginning on a line of
\* corrections has a standing member at every instant, also when corrections
\* are backdated, announced for the future or recorded out of order.
AlwaysOneStands == \A t \in Times : Covers(t) => StandAt(t) # {}

\* It has only one when every correction begins no earlier than what it
\* corrects: closing a fact at the beginning of the next leaves no overlap.
NoTwoStand == Chronological => \A t \in Times : Cardinality(StandAt(t)) <= 1

\* The texts found as of t, in order.
Told(g, t) ==
    LET found == AsOf(g, t).facts IN [k \in DOMAIN found |-> found[k].fact.text]

\* An observation that is not backdated does not change what was true before
\* it was recorded: the answers as of every earlier instant stay the same.
PastStaysTrue ==
    \A now \in Now : \A t \in {u \in Times : u < now} :
        LET told == Told(graph, t)
        IN \A b \in ObservationBatches :
              /\ ObservationsOK(graph, b)
              /\ \A i \in DOMAIN b : b[i].from = None \/ b[i].from >= now
              => Told(AddObservations(graph, b, now), t) = told

\* The limit never cuts off a fact in favour of one that the order asked for
\* puts after it; undated facts are the first to go, in both directions.
LimitKeepsTheFirst ==
    \A q \in Queries :
        LET page == SearchFacts(graph, q)
            wanted == {i \in DOMAIN Facts : Wanted(q, Facts[i])}
            shown == {i \in wanted : \E k \in DOMAIN page.facts :
                                        page.facts[k].fact = Facts[i]}
        IN q.entity = Subject =>
           /\ page.total = Cardinality(wanted)
           /\ Cardinality(shown) = Min({q.limit, page.total})
           /\ \A i \in shown, j \in wanted \ shown :
                 \/ Facts[j].from = None
                 \/ /\ Facts[i].from # None
                    /\ IF q.ascending THEN Facts[i].from <= Facts[j].from
                       ELSE Facts[i].from >= Facts[j].from

\* "Lexicographic comparison over mixed-precision ISO strings is what the
\* engine relies on": a fact found as of t is true at the instant that t stands
\* for, from its beginning to its end, and a fact left out is not true strictly
\* between them.  So it is while instants are written canonically, in whatever
\* precision, and not for all that validate_instant accepts.
AsOfTellsTheTime ==
    \A t \in Times :
        LET found == AsOf(graph, t).facts
            since(f, bound) == f.from = None \/ Real[f.from] < Real[t] + bound
            until(f, bound) == f.to = None \/ Real[t] < Real[f.to] + bound
        IN \A i \in DOMAIN Facts :
              IF \E k \in DOMAIN found : found[k].fact = Facts[i]
              THEN since(Facts[i], 1) /\ until(Facts[i], 1)
              ELSE ~(since(Facts[i], 0) /\ until(Facts[i], 0))

\* "includeSuperseded: include facts whose validity ended (default false)": a
\* fact whose validity has not ended is found without it.
StandingIsFound ==
    LET current == SearchFacts(graph,
            [query |-> None, entity |-> Subject, asOf |-> None, since |-> None,
             until |-> None, superseded |-> FALSE, ascending |-> FALSE,
             limit |-> Len(Facts)])
    IN \A i \in DOMAIN Facts : Standing(Facts[i], clock) =>
           \E k \in DOMAIN current.facts : current.facts[k].fact = Facts[i]
=============================================================================
