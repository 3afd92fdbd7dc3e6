---------------------------- MODULE GraphQueries ----------------------------
(***************************************************************************)
(* Reading a graph: search_facts, search_nodes and open_nodes              *)
(* (src/src/graph.rs), the pages of the web UI (src/src/webui/views.rs)    *)
(* and the neighbourhood that it draws (src/src/webui/api.rs).             *)
(*                                                                         *)
(*   query  [query, entity, asOf, since, until, superseded, ascending,     *)
(*           limit], None for a filter that is not given                   *)
(*                                                                         *)
(* The substring asked for is the set of the texts that contain it.        *)
(***************************************************************************)
EXTENDS GraphOps

\* Mutant of Standing: the end of an interval belongs to it.
StandingThrough(f, t) == (f.from = None \/ f.from <= t) /\ (f.to = None \/ t <= f.to)

\* A fact is true from its beginning to just before its end; without a
\* beginning it always was.
Standing(f, t) == (f.from = None \/ f.from <= t) /\ (f.to = None \/ t < f.to)

Wanted(q, f) ==
    /\ q.query = None \/ f.text \in q.query
    /\ IF q.asOf # None THEN Standing(f, q.asOf) ELSE q.superseded \/ IsActive(f)
    /\ q.since = None \/ (f.from # None /\ q.since <= f.from)
    /\ q.until = None \/ (f.from # None /\ f.from <= q.until)

\* Options are ordered with None first.
OptionLess(s, t) == t # None /\ (s = None \/ s < t)

KeyLess(f, h) ==
    OptionLess(f.from, h.from) \/ (f.from = h.from /\ OptionLess(f.recorded, h.recorded))

\* Mutant of SortsBefore: descending is ascending read backwards.
SortsBeforeReversed(q, f, h) ==
    LET ascending(u, v) == (u.from # None /\ v.from = None)
                           \/ ((u.from = None <=> v.from = None) /\ KeyLess(u, v))
    IN IF q.ascending THEN ascending(f, h) ELSE ascending(h, f)

\* Undated facts come last in both directions.
SortsBefore(q, f, h) ==
    IF f.from = None \/ h.from = None
    THEN \/ f.from # None
         \/ h.from = None /\ IF q.ascending THEN KeyLess(f, h) ELSE KeyLess(h, f)
    ELSE IF q.ascending THEN KeyLess(f, h) ELSE KeyLess(h, f)

\* A hit is the place of a fact, <<place of the entity, place in the entity>>.
FactAt(g, p) == g.entities[p[1]].facts[p[2]]

Hits(g, q) ==
    LET searched == {i \in DOMAIN g.entities : q.entity \in {None, g.entities[i].name}}
        places == UNION {{i} \X DOMAIN g.entities[i].facts : i \in searched}
    IN {p \in places : Wanted(q, FactAt(g, p))}

\* A stable sort: of two hits with equal keys the first stays first.
ComesBefore(g, q, p, r) ==
    \/ SortsBefore(q, FactAt(g, p), FactAt(g, r))
    \/ /\ ~SortsBefore(q, FactAt(g, r), FactAt(g, p))
       /\ p[1] < r[1] \/ (p[1] = r[1] /\ p[2] < r[2])

\* The hit that n - 1 of the hits come before.
NthHit(g, q, hits, n) ==
    CHOOSE p \in hits : Cardinality({r \in hits : ComesBefore(g, q, r, p)}) = n - 1

\* The first of the hits, and how many there are.
SearchFacts(g, q) ==
    LET hits == Hits(g, q)
        shown(p) == [entity |-> g.entities[p[1]].name, fact |-> FactAt(g, p)]
    IN [facts |-> [n \in 1..Min({q.limit, Cardinality(hits)}) |->
                      shown(NthHit(g, q, hits, n))],
        total |-> Cardinality(hits)]

-----------------------------------------------------------------------------
(* Entities and the relations that touch them.  A substring asked for is   *)
(* the set of the names, types and texts that contain it, in any case.     *)

\* Mutant of OpenNodes: only the relations that start at one of the names.
OpenNodesFrom(g, names) ==
    [entities |-> Where(g.entities, LAMBDA e : e.name \in names),
     relations |-> Where(g.relations, LAMBDA r : r.from \in names)]

OpenNodes(g, names) ==
    [entities |-> Where(g.entities, LAMBDA e : e.name \in names),
     relations |-> Where(g.relations, LAMBDA r : {r.from, r.to} \cap names # {})]

SearchNodes(g, needle) ==
    LET found == Where(g.entities,
                    LAMBDA e : ({e.name, e.type} \cup Texts(e)) \cap needle # {})
        names == {found[i].name : i \in DOMAIN found}
    IN [entities |-> found,
        relations |-> Where(g.relations, LAMBDA r : {r.from, r.to} \cap names # {})]

\* Mutant of Incoming: a self-loop comes in, too.
IncomingWithLoops(rs, n) == Where(rs, LAMBDA r : r.to = n)

Incoming(rs, n) == Where(rs, LAMBDA r : r.to = n /\ r.from # n)

\* entity_detail: the first entity of the name, its active facts before the
\* superseded ones, and the relations that it has.
EntityPage(g, n) ==
    LET opened == OpenNodes(g, {n})
        facts == EntityOf(opened, n).facts
    IN [active |-> Where(facts, IsActive),
        superseded |-> Where(facts, LAMBDA f : ~IsActive(f)),
        outgoing |-> Where(opened.relations, LAMBDA r : r.from = n),
        incoming |-> Incoming(opened.relations, n)]

-----------------------------------------------------------------------------
(* The neighbourhood of an entity                                          *)

\* A depth that is not given, or no number, counts as 2.
Depth(raw) == IF raw \in Int THEN Max({1, Min({raw, 10})}) ELSE 2

Linked(g, n, m) ==
    \E i \in DOMAIN g.relations :
        {<<n, m>>, <<m, n>>} \cap {<<g.relations[i].from, g.relations[i].to>>} # {}

Mentioned(g) == UNION {{g.relations[i].from, g.relations[i].to} : i \in DOMAIN g.relations}

\* The names that at most depth relations, followed in either direction, lead
\* to; a name on the way need not be an entity's.
Within(g, center, depth) ==
    {n \in Mentioned(g) \cup {center} :
        \E k \in 0..depth : \E path \in [0..k -> Mentioned(g) \cup {center}] :
            /\ path[0] = center /\ path[k] = n
            /\ \A i \in 1..k : Linked(g, path[i - 1], path[i])}

\* What graph_data answers: the entities and the relations inside.
GraphData(g, center, depth) ==
    LET included == Within(g, center, depth) IN
    [nodes |-> {i \in DOMAIN g.entities : g.entities[i].name \in included},
     edges |-> {i \in DOMAIN g.relations :
                   {g.relations[i].from, g.relations[i].to} \subseteq included}]
=============================================================================
