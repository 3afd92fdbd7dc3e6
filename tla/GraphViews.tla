---------------------------- MODULE GraphViews -----------------------------
(***************************************************************************)
(* That the reads of one graph agree: its list and entity pages, its       *)
(* drawings (src/src/webui), and the tools that search and open nodes      *)
(* (src/src/graph.rs) each filter it with code of their own.               *)
(***************************************************************************)
EXTENDS GraphLoops

CONSTANTS
    Searches,    \* what users and clients search for
    Trimmed,     \* a search or a type without the white space around it
    Containing   \* the strings that contain a search, in any case

\* Whatever contains a search contains what is left of it when it is trimmed, and
\* every string contains the empty one.
ASSUME SearchAssumption ==
    /\ Trimmed[NoType] = NoType
    /\ \A s \in Searches :
          /\ Containing[s] \subseteq Containing[Trimmed[s]]
          /\ Trimmed[s] = NoType =>
                Names \cup FactTexts \cup TypeNames \subseteq Containing[NoType]

Count(s, v) == Cardinality({i \in DOMAIN s : s[i] = v})

\* Whatever was created, renamed and merged, a relation is shown once, and
\* with all its copies, on the page of each of its ends that is an entity, a
\* self-loop included, and on no other page.
PagesShowEachRelation ==
    \A e \in Range(graph.entities), r \in Range(graph.relations) :
        LET page == EntityPage(graph, e.name)
        IN Count(page.outgoing, r) + Count(page.incoming, r)
           = IF Touches(r, e.name) THEN Count(graph.relations, r) ELSE 0

\* The drawing around an entity shows, at every depth, the relations of its
\* page, and the entities at their other ends, except where an end is no
\* entity; at depth 1 it shows no other entity.
PageAgreesWithDrawing ==
    \A e \in Range(graph.entities), raw \in Depths :
        LET page == EntityPage(graph, e.name)
            rows == page.outgoing \o page.incoming
            drawing == GraphData(graph, e.name, Depth(raw))
            ends == {e.name} \cup UNION {{r.from, r.to} : r \in Range(rows)}
            names == {graph.entities[i].name : i \in drawing.nodes}
        IN /\ {i \in drawing.edges : Touches(graph.relations[i], e.name)}
                = {i \in DOMAIN graph.relations : graph.relations[i] \in Range(rows)}
           /\ {n \in ends : HasEntity(graph, n)} \subseteq names
           /\ Depth(raw) = 1 => names \subseteq ends

-----------------------------------------------------------------------------
(* The entity list.  Searches and type filters are strings as they arrive. *)

\* Mutant of FilterEntities: the list forgets the observations.
FilterByName(g, search, type) ==
    Where(g.entities, LAMBDA e : /\ Trimmed[type] \in {NoType, e.type}
                                 /\ e.name \in Containing[Trimmed[search]])

\* filter_entities (src/src/webui/views.rs): what list_entities then sorts by a
\* column.  A parameter that is not given is empty, as NoType is.
FilterEntities(g, search, type) ==
    LET q == Trimmed[search]
        t == Trimmed[type]
    IN Where(g.entities, LAMBDA e :
            /\ t \in {NoType, e.type}
            /\ \/ q = NoType
               \/ e.name \in Containing[q] \/ e.type \in Containing[q]
               \/ \E i \in DOMAIN e.facts : e.facts[i].text \in Containing[q])

\* The entities of a type; the empty type asks for all.
OfType(es, ty) == Where(es, LAMBDA d : d.type = ty \/ ty = NoType)

\* filter_entities trims what it is asked for, search_nodes does not.  The list,
\* before it is sorted, has what search_nodes finds for the trimmed search, and
\* so at least what it finds for the search as written; over all types that
\* occur, by type, trimmed likewise.
ListAgreesWithSearch ==
    \A s \in Searches :
        LET Found(w) == SearchNodes(graph, Containing[w]).entities
            List(ty) == FilterEntities(graph, s, ty)
        IN /\ List(NoType) = Found(Trimmed[s])
           /\ Range(Found(s)) \subseteq Range(List(NoType))
           /\ \A e \in Range(graph.entities) :
                 List(e.type) = OfType(Found(Trimmed[s]), Trimmed[e.type])
=============================================================================
