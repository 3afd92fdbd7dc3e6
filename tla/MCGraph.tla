------------------------------- MODULE MCGraph -------------------------------
(***************************************************************************)
(* Knowledge graphs small enough for TLC; each configuration turns on the  *)
(* tools its properties are about.                                         *)
(***************************************************************************)
EXTENDS GraphViews, SequencesExt

CONSTANTS a, b, c, x, y, z

AllNames == {a, b, c}
TwoNames == {a, b}
AllFactTexts == {x, y, z}
NameSymmetry == Permutations(AllNames)

NoBatches == {}
Empty == [entities |-> << >>, relations |-> << >>]
StartEmpty == {Empty}

NewEntity(n, ty, facts) ==
    [name |-> n, type |-> ty, facts |-> facts, created |-> None, updated |-> None]
NewRelation(n, m) ==
    [from |-> n, to |-> m, type |-> "knows", created |-> None, updated |-> None]
ActiveFact(t) == [text |-> t, from |-> 1, to |-> None, recorded |-> None]
Input(n, t, from, target) ==
    [entity |-> n, text |-> t, from |-> from, to |-> None, supersedes |-> target]

\* Types
PlainLower == "knows" :> "knows" @@ "Knows" :> "knows"
PlainTitle == "knows" :> "Knows" @@ "Knows" :> "Knows"
NoAliases == << >>

TypeLower == [ty \in {"nonprofit", "Nonprofit", "ngo", "Ngo", "NGO", " ngo", " Ngo"} |->
                 CASE ty \in {"nonprofit", "Nonprofit"} -> "nonprofit"
                   [] ty \in {"ngo", "Ngo", "NGO"} -> "ngo"
                   [] OTHER -> " ngo"]
TypeTitle == [ty \in DOMAIN TypeLower |->
                 CASE TypeLower[ty] = "nonprofit" -> "Nonprofit"
                   [] TypeLower[ty] = "ngo" -> "Ngo"
                   [] OTHER -> " Ngo"]
CanonicalAliases == "nonprofit" :> "NGO" @@ "ngo" :> "NGO"

\* Searches: "o" is in b, in two texts and in every type, " o" in one of the texts.
SomeSearches == {"", " ", "o", " o"}
TrimmedStrings ==
    [s \in SomeSearches \cup DOMAIN TypeLower |->
        CASE s = " " -> "" [] s = " o" -> "o" [] s = " ngo" -> "ngo" [] s = " Ngo" -> "Ngo"
          [] OTHER -> s]
ContainingSome ==
    "" :> Names \cup FactTexts \cup TypeNames @@
    " " :> {y, " ngo", " Ngo"} @@
    "o" :> {b, x, y} \cup DOMAIN TypeLower @@
    " o" :> {y}
EmptyString == "" :> ""

\* Entities and relations
OneEntity == {<<NewEntity(n, NoType, << >>)>> : n \in Names}
OneRelation == {<<NewRelation(n, m)>> : n, m \in Names}
Singletons == {{n} : n \in Names}
OneKey == {{<<n, m, "knows">>} : n, m \in Names}
AllMoves == Names \X Names

\* Nothing yet, or a file with two entities and a relation to a third name,
\* some rows without times.
EmptyOrLegacy == {Empty} \cup
    {[entities |-> <<[NewEntity(m[1], NoType, << >>) EXCEPT !.created = d],
                     NewEntity(m[2], NoType, << >>)>>,
      relations |-> <<NewRelation(m[1], m[3])>>] :
        d \in Stamps, m \in {<<a, b, c>>, <<a, c, b>>, <<b, a, c>>,
                             <<b, c, a>>, <<c, a, b>>, <<c, b, a>>}}

\* Facts
EntitiesWithFacts ==
    {<<NewEntity(a, NoType, << >>)>>,
     <<NewEntity(b, " ngo", <<ActiveFact(x)>>)>>,
     <<NewEntity(b, NoType, <<ActiveFact(y), ActiveFact(z)>>)>>}
EmptyOrTyped ==
    {Empty,
     [Empty EXCEPT !.entities = <<NewEntity(a, "nonprofit", <<ActiveFact(x)>>)>>]}
SingleInputs == {Input(a, t, f, s) : t \in FactTexts, f \in {1, None}, s \in FactTexts \cup {None}}
InputBatches ==
    {<<i>> : i \in SingleInputs} \cup
    {<<i, j>> : i, j \in {k \in SingleInputs : k.from = None /\ k.supersedes \in {None, x}}} \cup
    {<<Input(b, t, None, None), Input(a, t, None, None)>> : t \in FactTexts}
SomeEdits == {<<a, x, y>>, <<b, x, z>>}
IntoA == {<<b, a>>}
PairSets == {{<<a, x>>}, {<<a, y>>, <<b, z>>}}
=============================================================================
