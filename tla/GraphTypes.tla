----------------------------- MODULE GraphTypes ------------------------------
(***************************************************************************)
(* What a graph is made of, src/src/graph.rs, and what its rows have to do *)
(* with each other, for the modules that say something about every graph.  *)
(***************************************************************************)
EXTENDS GraphOps

CONSTANTS
    Names,      \* entity names
    FactTexts,  \* observation texts
    Times       \* instants an observation may be given or stamped with

ASSUME TypesAssumption ==
    /\ Times \subseteq Int /\ None \notin Int
    /\ None \notin FactTexts

TypeNames == DOMAIN Lower \cup {NoType}
Stamps == Times \cup {None}

\* Normalizing a type yields a type.
ASSUME NormalTypes == \A ty \in TypeNames : NormalizeType(ty) \in TypeNames

Fact == [text : FactTexts, from : Stamps, to : Stamps, recorded : Stamps]
Entity == [name : Names, type : TypeNames, facts : Seq(Fact),
           created : Stamps, updated : Stamps]
Relation == [from : Names, to : Names, type : TypeNames,
             created : Stamps, updated : Stamps]
Graph == [entities : Seq(Entity), relations : Seq(Relation)]

FactInput == [entity : Names, text : FactTexts, from : Stamps, to : Stamps,
              supersedes : FactTexts \cup {None}]

-----------------------------------------------------------------------------
AllTexts(g) == UNION {Texts(e) : e \in Range(g.entities)}
Endpoints(g) == UNION {{r.from, r.to} : r \in Range(g.relations)}
Dangling(g) == {n \in Endpoints(g) : ~HasEntity(g, n)}

Distinct(s, Id(_)) == \A i, j \in DOMAIN s : Id(s[i]) = Id(s[j]) => i = j
=============================================================================
