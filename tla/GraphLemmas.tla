---------------------------- MODULE GraphLemmas -----------------------------
(***************************************************************************)
(* What the operators of GraphOps return for every graph and every         *)
(* argument of their types: the facts about them that the proofs of        *)
(* GraphProofs rest on.                                                    *)
(***************************************************************************)
EXTENDS GraphTypes, FiniteSetTheorems, FunctionTheorems, SequenceTheorems, TLAPS

-----------------------------------------------------------------------------
(* Retain                                                                  *)

\* The places of K up to i.
UpTo(K, i) == {j \in K : j <= i}

\* A place's rank among the places of K tells it from all others.
LEMMA Ranks ==
    ASSUME NEW m \in Nat, NEW K \in SUBSET (1..m)
    PROVE  /\ IsFiniteSet(K) /\ Cardinality(K) \in Nat
           /\ \A i \in K : Cardinality(UpTo(K, i)) \in 1..Cardinality(K)
           /\ \A i, j \in K : Cardinality(UpTo(K, i)) = Cardinality(UpTo(K, j)) => i = j
<1>1. IsFiniteSet(K)
  <2>1. IsFiniteSet(1..m)
    BY FS_Interval
  <2> QED BY <2>1, FS_Subset
<1>2. Cardinality(K) \in Nat
  BY <1>1, FS_CardinalityType
<1>3. ASSUME NEW i \in K
      PROVE  /\ IsFiniteSet(UpTo(K, i)) /\ UpTo(K, i) \in SUBSET K
             /\ Cardinality(UpTo(K, i)) \in 1..Cardinality(K)
  <2>1. UpTo(K, i) \in SUBSET K
    BY DEF UpTo
  <2>2. IsFiniteSet(UpTo(K, i)) /\ Cardinality(UpTo(K, i)) <= Cardinality(K)
    BY <1>1, <2>1, FS_Subset
  <2>3. i \in UpTo(K, i)
    BY DEF UpTo
  <2>4. Cardinality(UpTo(K, i)) \in Nat /\ Cardinality(UpTo(K, i)) # 0
    BY <2>2, <2>3, FS_CardinalityType, FS_EmptySet
  <2> QED BY <1>2, <2>1, <2>2, <2>4
<1>4. ASSUME NEW i \in K, NEW j \in K, i < j
      PROVE  Cardinality(UpTo(K, i)) # Cardinality(UpTo(K, j))
  <2>1. UpTo(K, i) \subseteq UpTo(K, j) /\ j \in UpTo(K, j) /\ j \notin UpTo(K, i)
    <3>1. i \in Int /\ j \in Int /\ \A k \in K : k \in Int
      OBVIOUS
    <3>2. ~(j <= i) /\ j <= j /\ \A k \in K : k <= i => k <= j
      BY <1>4, <3>1
    <3> QED BY <3>2 DEF UpTo
  <2>2. IsFiniteSet(UpTo(K, j))
    BY <1>3
  <2> QED BY <2>1, <2>2, FS_Subset
<1>5. \A i, j \in K : Cardinality(UpTo(K, i)) = Cardinality(UpTo(K, j)) => i = j
  <2> SUFFICES ASSUME NEW i \in K, NEW j \in K, i # j
               PROVE  Cardinality(UpTo(K, i)) # Cardinality(UpTo(K, j))
      OBVIOUS
  <2>1. i < j \/ j < i
    OBVIOUS
  <2> QED BY <1>4, <2>1
<1> QED BY <1>1, <1>2, <1>3, <1>5

\* Nth numbers the places of K from 1 on.
LEMMA NthOf ==
    ASSUME NEW m \in Nat, NEW K \in SUBSET (1..m)
    PROVE  /\ \A n \in 1..Cardinality(K) : Nth(K, n) \in K
           /\ \A n, k \in 1..Cardinality(K) : Nth(K, n) = Nth(K, k) => n = k
           /\ \A i \in K : \E n \in 1..Cardinality(K) : Nth(K, n) = i
           /\ \A n \in 1..Cardinality(K) : Cardinality(UpTo(K, Nth(K, n))) = n
<1> DEFINE rank == [i \in K |-> Cardinality(UpTo(K, i))]
<1> DEFINE N == 1..Cardinality(K)
<1>1. rank \in Injection(K, N)
  <2>1. rank \in [K -> N]
    BY Ranks
  <2>2. \A a, b \in K : rank[a] = rank[b] => a = b
    BY Ranks
  <2> HIDE DEF rank, N
  <2> QED BY <2>1, <2>2, Fun_IsInj
<1>2. IsFiniteSet(N) /\ Cardinality(N) = Cardinality(K)
  <2>1. Cardinality(K) \in Nat
    BY Ranks
  <2> QED BY <2>1, FS_Interval
<1>3. \A n \in N : \E i \in K : rank[i] = n
  <2> HIDE DEF rank, N
  <2>1. rank \in Surjection(K, N)
    BY <1>1, <1>2, FS_Injection
  <2> QED BY <2>1, Fun_SurjectionProperties
<1>4. \A n \in N : Nth(K, n) \in K /\ Cardinality(UpTo(K, Nth(K, n))) = n
  <2> TAKE n \in N
  <2>1. PICK i \in K : Cardinality(UpTo(K, i)) = n
    BY <1>3
  <2> QED BY <2>1 DEF Nth, UpTo
<1>5. \A i \in K : Nth(K, Cardinality(UpTo(K, i))) = i
  <2> TAKE i \in K
  <2>1. Cardinality(UpTo(K, i)) \in N
    BY Ranks
  <2> QED BY <1>4, <2>1, Ranks
<1> QED BY <1>4, <1>5, Ranks

\* Nth numbers them in their order.
LEMMA NthGrows ==
    ASSUME NEW m \in Nat, NEW K \in SUBSET (1..m),
           NEW n \in 1..Cardinality(K), NEW k \in 1..Cardinality(K), n < k
    PROVE  Nth(K, n) < Nth(K, k)
<1>0. \A i \in K : i \in Int
  OBVIOUS
<1>1. PICK a \in K : a = Nth(K, n) /\ Cardinality(UpTo(K, a)) = n
  BY NthOf
<1>2. PICK c \in K : c = Nth(K, k) /\ Cardinality(UpTo(K, c)) = k
  BY NthOf
<1>3. ASSUME c <= a PROVE FALSE
  <2>1. UpTo(K, c) \subseteq UpTo(K, a)
    <3>1. a \in Int /\ c \in Int
      BY <1>0
    <3>2. \A i \in K : i <= c => i <= a
      BY <1>0, <1>3, <3>1
    <3> QED BY <3>2 DEF UpTo
  <2>2. IsFiniteSet(UpTo(K, a))
    <3>1. IsFiniteSet(K) /\ UpTo(K, a) \in SUBSET K
      BY Ranks DEF UpTo
    <3> QED BY <3>1, FS_Subset
  <2>3. Cardinality(UpTo(K, c)) <= Cardinality(UpTo(K, a))
    BY <2>1, <2>2, FS_Subset
  <2>4. k <= n /\ n \in Int /\ k \in Int
    BY <1>1, <1>2, <2>3, Ranks
  <2> QED BY <2>4
<1>4. a < c
  BY <1>0, <1>3
<1> QED BY <1>1, <1>2, <1>4

\* Retain keeps the rows at the places K, each once.
LEMMA RetainRows ==
    ASSUME NEW S, NEW s \in Seq(S), NEW K \in SUBSET DOMAIN s
    PROVE  /\ Retain(s, K) \in Seq(S)
           /\ DOMAIN Retain(s, K) = 1..Cardinality(K)
           /\ \A n \in DOMAIN Retain(s, K) : Nth(K, n) \in K /\ Retain(s, K)[n] = s[Nth(K, n)]
           /\ \A n, k \in DOMAIN Retain(s, K) : Nth(K, n) = Nth(K, k) => n = k
           /\ \A i \in K : \E n \in DOMAIN Retain(s, K) : Nth(K, n) = i
<1>1. Len(s) \in Nat /\ DOMAIN s = 1..Len(s) /\ \A i \in DOMAIN s : s[i] \in S
  BY LenProperties, ElementOfSeq
<1>2. K \in SUBSET (1..Len(s))
  BY <1>1
<1>3. Cardinality(K) \in Nat
  BY <1>1, <1>2, Ranks
<1>4. \A n \in 1..Cardinality(K) : Nth(K, n) \in K
  BY <1>1, <1>2, NthOf
<1>5. DOMAIN Retain(s, K) = 1..Cardinality(K)
  BY DEF Retain
<1>6. Retain(s, K) \in [1..Cardinality(K) -> S]
  BY <1>1, <1>4 DEF Retain
<1>7. Retain(s, K) \in Seq(S)
  BY <1>3, <1>6, SeqDef
<1>8. \A n \in 1..Cardinality(K) : Retain(s, K)[n] = s[Nth(K, n)]
  BY DEF Retain
<1> QED BY <1>1, <1>2, <1>4, <1>5, <1>7, <1>8, NthOf

\* Of places there is a first.
LEMMA FirstPlace ==
    ASSUME NEW m \in Nat, NEW K \in SUBSET (1..m), K # {}
    PROVE  Min(K) \in K /\ \A i \in K : Min(K) <= i
<1>0. \A i \in K : i \in Int
  OBVIOUS
<1>1. Cardinality(K) \in Nat /\ 1 \in 1..Cardinality(K)
  <2>1. IsFiniteSet(K) /\ Cardinality(K) \in Nat
    BY Ranks
  <2>2. Cardinality(K) # 0
    BY <2>1, FS_EmptySet
  <2> QED BY <2>1, <2>2
<1>2. Nth(K, 1) \in K /\ Cardinality(UpTo(K, Nth(K, 1))) = 1
  BY <1>1, NthOf
<1>3. ASSUME NEW i \in K, i < Nth(K, 1) PROVE FALSE
  <2>1. IsFiniteSet(UpTo(K, Nth(K, 1)))
    <3>1. IsFiniteSet(K) /\ UpTo(K, Nth(K, 1)) \in SUBSET K
      BY Ranks DEF UpTo
    <3> QED BY <3>1, FS_Subset
  <2>2. i \in Int /\ Nth(K, 1) \in Int
    BY <1>0, <1>2
  <2>3. i \in UpTo(K, Nth(K, 1)) /\ Nth(K, 1) \in UpTo(K, Nth(K, 1)) /\ i # Nth(K, 1)
    BY <1>2, <1>3, <2>2 DEF UpTo
  <2>4. PICK x : UpTo(K, Nth(K, 1)) = {x}
    BY <1>2, <2>1, FS_Singleton
  <2> QED BY <2>3, <2>4
<1>4. \A i \in K : Nth(K, 1) <= i
  <2>1. \A i \in K : i \in Int /\ Nth(K, 1) \in Int /\ ~(i < Nth(K, 1))
    BY <1>0, <1>2, <1>3
  <2> QED BY <2>1
<1> QED BY <1>2, <1>4 DEF Min

-----------------------------------------------------------------------------
(* Sequences of rows                                                       *)

\* Rows that are rewritten one by one.
LEMMA Rewritten ==
    ASSUME NEW S, NEW T, NEW s \in Seq(S), NEW f \in [DOMAIN s -> T]
    PROVE  f \in Seq(T) /\ Len(f) = Len(s) /\ DOMAIN f = DOMAIN s
<1>1. Len(s) \in Nat /\ DOMAIN s = 1..Len(s)
  BY LenProperties
<1>2. f \in Seq(T)
  BY <1>1, SeqDef
<1>3. DOMAIN f = 1..Len(f) /\ Len(f) \in Nat
  BY <1>2, LenProperties
<1> QED BY <1>1, <1>2, <1>3

\* The rows of a sequence, by place.
LEMMA Rows ==
    ASSUME NEW S, NEW s \in Seq(S)
    PROVE  Len(s) \in Nat /\ DOMAIN s = 1..Len(s) /\ \A i \in DOMAIN s : s[i] \in S
BY LenProperties, ElementOfSeq

\* Rows that are added at the end.
LEMMA Joined ==
    ASSUME NEW S, NEW s \in Seq(S), NEW t \in Seq(S)
    PROVE  /\ s \o t \in Seq(S)
           /\ DOMAIN s \subseteq DOMAIN (s \o t)
           /\ \A i \in DOMAIN s : (s \o t)[i] = s[i]
           /\ \A i \in DOMAIN (s \o t) \ DOMAIN s :
                 i > Len(s) /\ i - Len(s) \in DOMAIN t /\ (s \o t)[i] = t[i - Len(s)]
           /\ \A j \in DOMAIN t : Len(s) + j \in DOMAIN (s \o t) \ DOMAIN s
                                 /\ (s \o t)[Len(s) + j] = t[j]
<1>1. /\ Len(s) \in Nat /\ DOMAIN s = 1..Len(s)
      /\ Len(t) \in Nat /\ DOMAIN t = 1..Len(t)
  BY LenProperties
<1>2. /\ s \o t \in Seq(S) /\ Len(s \o t) = Len(s) + Len(t)
      /\ \A i \in 1 .. Len(s) + Len(t) : (s \o t)[i] =
             IF i <= Len(s) THEN s[i] ELSE t[i - Len(s)]
  BY ConcatProperties
<1>3. DOMAIN (s \o t) = 1..(Len(s) + Len(t))
  BY <1>2, LenProperties
<1> DEFINE u == s \o t
<1> HIDE DEF u
<1> QED BY <1>1, <1>2, <1>3 DEF u

-----------------------------------------------------------------------------
(* Looking things up                                                       *)

\* A lookup by name finds the first row of that name.
LEMMA Looking ==
    ASSUME NEW g \in Graph, NEW n, HasEntity(g, n)
    PROVE  /\ EntityIndex(g, n) \in DOMAIN g.entities
           /\ g.entities[EntityIndex(g, n)].name = n
           /\ \A i \in DOMAIN g.entities : g.entities[i].name = n => EntityIndex(g, n) <= i
           /\ EntityOf(g, n) \in Entity /\ EntityOf(g, n).name = n
           /\ EntityOf(g, n) = g.entities[EntityIndex(g, n)]
<1>1. g.entities \in Seq(Entity)
  BY DEF Graph
<1>2. Len(g.entities) \in Nat /\ Named(g, n) \in SUBSET (1..Len(g.entities)) /\ Named(g, n) # {}
  BY <1>1, Rows DEF Named, HasEntity
<1>3. EntityIndex(g, n) \in Named(g, n) /\ \A i \in Named(g, n) : EntityIndex(g, n) <= i
  BY <1>2, FirstPlace DEF EntityIndex
<1> QED BY <1>1, <1>3, Rows DEF Named, EntityOf

\* A lookup by text finds the entity's first fact with that text.
LEMMA TextFound ==
    ASSUME NEW e \in Entity, NEW x \in Texts(e)
    PROVE  /\ TextIndex(e, x) \in DOMAIN e.facts
           /\ e.facts[TextIndex(e, x)].text = x
           /\ \A k \in DOMAIN e.facts : e.facts[k].text = x => TextIndex(e, x) <= k
<1> DEFINE K == {i \in DOMAIN e.facts : e.facts[i].text = x}
<1>1. e.facts \in Seq(Fact)
  BY DEF Entity
<1>2. Len(e.facts) \in Nat /\ K \in SUBSET (1..Len(e.facts)) /\ K # {}
  BY <1>1, Rows DEF Texts
<1> HIDE DEF K
<1>3. Min(K) \in K /\ \A i \in K : Min(K) <= i
  BY <1>2, FirstPlace
<1> QED BY <1>3 DEF TextIndex, K

-----------------------------------------------------------------------------
(* Creating                                                                *)

\* A row that create_entities adds: one of the batch, under a name not taken.
FromBatch(g, b, e) ==
    \E k \in DOMAIN b : /\ ~HasEntity(g, b[k].name)
                        /\ e.name = b[k].name /\ e.facts = b[k].facts

\* create_entities: the rows there were stay, and each new one comes from the
\* batch, under a name not taken; a batch that names entities once adds them once.
LEMMA CreateEntitiesDoes ==
    ASSUME NEW g \in Graph, NEW b \in Seq(Entity), NEW now \in Times
    PROVE  LET h == CreateEntities(g, b, now) IN
           /\ h \in Graph /\ h.relations = g.relations
           /\ DOMAIN g.entities \subseteq DOMAIN h.entities
           /\ \A i \in DOMAIN g.entities : h.entities[i] = g.entities[i]
           /\ \A i \in DOMAIN h.entities \ DOMAIN g.entities :
                 FromBatch(g, b, h.entities[i])
           /\ Distinct(b, LAMBDA e : e.name) =>
                 \A i, j \in DOMAIN h.entities \ DOMAIN g.entities :
                    h.entities[i].name = h.entities[j].name => i = j
           /\ \A k \in DOMAIN b : HasEntity(h, b[k].name)
           /\ \A i \in DOMAIN h.entities \ DOMAIN g.entities : h.entities[i].updated = now
<1> DEFINE K == {i \in DOMAIN b : ~HasEntity(g, b[i].name)}
           new == Retain(b, K)
           made == [i \in DOMAIN new |->
                      [name |-> new[i].name, type |-> NormalizeType(new[i].type),
                       facts |-> new[i].facts, created |-> now, updated |-> now]]
           h == CreateEntities(g, b, now)
<1>1. K \in SUBSET DOMAIN b
  OBVIOUS
<1>2. CreateEntities(g, b, now) = [g EXCEPT !.entities = @ \o made]
  BY DEF CreateEntities
<1>3. /\ new \in Seq(Entity)
      /\ \A i \in DOMAIN new : Nth(K, i) \in K /\ new[i] = b[Nth(K, i)]
      /\ \A i, j \in DOMAIN new : Nth(K, i) = Nth(K, j) => i = j
  <2> HIDE DEF K
  <2> QED BY <1>1, RetainRows
<1>4. \A i \in DOMAIN new : b[Nth(K, i)] \in Entity /\ ~HasEntity(g, b[Nth(K, i)].name)
  BY <1>3, Rows
<1>4b. \A k \in K : \E i \in DOMAIN new : Nth(K, i) = k
  <2> HIDE DEF K
  <2>1. /\ new \in Seq(Entity)
        /\ \A i \in DOMAIN new : Nth(K, i) \in K /\ new[i] = b[Nth(K, i)]
        /\ \A i, j \in DOMAIN new : Nth(K, i) = Nth(K, j) => i = j
        /\ \A k \in K : \E i \in DOMAIN new : Nth(K, i) = k
    BY <1>1, RetainRows
  <2> QED BY <2>1
<1>4a. \A k \in DOMAIN b : k \in K \/ HasEntity(g, b[k].name)
  OBVIOUS
<1> HIDE DEF K, new
<1>5. made \in [DOMAIN new -> Entity]
  BY <1>3, <1>4, NormalTypes, TypesAssumption DEF Entity, Stamps
<1>6. \A i \in DOMAIN made : /\ made[i].name = b[Nth(K, i)].name
                            /\ made[i].facts = b[Nth(K, i)].facts /\ made[i].updated = now
  BY <1>3
<1> HIDE DEF made
<1>7. made \in Seq(Entity) /\ DOMAIN made = DOMAIN new
  BY <1>3, <1>5, Rewritten
<1>8. /\ h = [entities |-> g.entities \o made, relations |-> g.relations]
      /\ g.entities \in Seq(Entity) /\ g.relations \in Seq(Relation)
  BY <1>2 DEF Graph
<1> HIDE DEF h
<1>9. h \in Graph /\ h.relations = g.relations /\ h.entities = g.entities \o made
  BY <1>7, <1>8, Joined DEF Graph
<1>10. /\ DOMAIN g.entities \subseteq DOMAIN h.entities
       /\ \A i \in DOMAIN g.entities : h.entities[i] = g.entities[i]
       /\ \A i \in DOMAIN h.entities \ DOMAIN g.entities :
             /\ i - Len(g.entities) \in DOMAIN made
             /\ h.entities[i] = made[i - Len(g.entities)]
  BY <1>7, <1>8, <1>9, Joined
<1>10a. \A n \in DOMAIN made : /\ Len(g.entities) + n \in DOMAIN h.entities
                               /\ h.entities[Len(g.entities) + n] = made[n]
  BY <1>7, <1>8, <1>9, Joined
<1>11. \A i \in DOMAIN h.entities \ DOMAIN g.entities :
          LET k == Nth(K, i - Len(g.entities)) IN
          /\ k \in DOMAIN b /\ ~HasEntity(g, b[k].name)
          /\ h.entities[i].name = b[k].name /\ h.entities[i].facts = b[k].facts
  BY <1>1, <1>3, <1>4, <1>6, <1>7, <1>10
<1>11a. \A i \in DOMAIN h.entities \ DOMAIN g.entities : h.entities[i].updated = now
  BY <1>6, <1>10
<1>12. ASSUME Distinct(b, LAMBDA e : e.name),
              NEW i \in DOMAIN h.entities \ DOMAIN g.entities,
              NEW j \in DOMAIN h.entities \ DOMAIN g.entities,
              h.entities[i].name = h.entities[j].name
       PROVE  i = j
  <2>1. Nth(K, i - Len(g.entities)) = Nth(K, j - Len(g.entities))
    BY <1>11, <1>12 DEF Distinct
  <2>2. i - Len(g.entities) = j - Len(g.entities)
    BY <1>3, <1>7, <1>10, <2>1
  <2>3. i \in Int /\ j \in Int /\ Len(g.entities) \in Int
    BY <1>8, <1>9, Rows DEF Graph
  <2> QED BY <2>2, <2>3
<1>13. ASSUME NEW k \in DOMAIN b PROVE HasEntity(h, b[k].name)
  <2>1. CASE k \in K
    <3>1. PICK n \in DOMAIN made : made[n].name = b[k].name
      BY <1>4b, <1>6, <1>7, <2>1
    <3> QED BY <1>10a, <3>1 DEF HasEntity, Named
  <2>2. CASE HasEntity(g, b[k].name)
    BY <1>10, <2>2 DEF HasEntity, Named
  <2> QED BY <1>4a, <2>1, <2>2
<1> QED BY <1>9, <1>10, <1>11, <1>11a, <1>12, <1>13 DEF h, FromBatch

\* create_relations: the rows there were stay, and the new ones have new keys.
LEMMA CreateRelationsDoes ==
    ASSUME NEW g \in Graph, NEW b \in Seq(Relation), NEW now \in Times
    PROVE  LET h == CreateRelations(g, b, now) IN
           /\ h \in Graph /\ h.entities = g.entities
           /\ DOMAIN g.relations \subseteq DOMAIN h.relations
           /\ \A i \in DOMAIN g.relations : h.relations[i] = g.relations[i]
           /\ \A i \in DOMAIN h.relations \ DOMAIN g.relations :
                 Key(h.relations[i]) \notin Keys(g)
           /\ Distinct(b, Key) =>
                 \A i, j \in DOMAIN h.relations \ DOMAIN g.relations :
                    Key(h.relations[i]) = Key(h.relations[j]) => i = j
           /\ \A k \in DOMAIN b : Key(b[k]) \in Keys(h)
           /\ \A i \in DOMAIN h.relations \ DOMAIN g.relations : h.relations[i].updated = now
<1> DEFINE K == {i \in DOMAIN b : Key(b[i]) \notin Keys(g)}
           new == Retain(b, K)
           made == [i \in DOMAIN new |-> [new[i] EXCEPT !.created = now, !.updated = now]]
           h == CreateRelations(g, b, now)
<1>1. K \in SUBSET DOMAIN b
  OBVIOUS
<1>2. CreateRelations(g, b, now) = [g EXCEPT !.relations = @ \o made]
  BY DEF CreateRelations
<1>3. /\ new \in Seq(Relation)
      /\ \A i \in DOMAIN new : Nth(K, i) \in K /\ new[i] = b[Nth(K, i)]
      /\ \A i, j \in DOMAIN new : Nth(K, i) = Nth(K, j) => i = j
  <2> HIDE DEF K
  <2> QED BY <1>1, RetainRows
<1>4. \A i \in DOMAIN new : b[Nth(K, i)] \in Relation /\ Key(b[Nth(K, i)]) \notin Keys(g)
  BY <1>3, Rows
<1>4b. \A k \in K : \E i \in DOMAIN new : Nth(K, i) = k
  <2> HIDE DEF K
  <2>1. /\ new \in Seq(Relation)
        /\ \A i \in DOMAIN new : Nth(K, i) \in K /\ new[i] = b[Nth(K, i)]
        /\ \A i, j \in DOMAIN new : Nth(K, i) = Nth(K, j) => i = j
        /\ \A k \in K : \E i \in DOMAIN new : Nth(K, i) = k
    BY <1>1, RetainRows
  <2> QED BY <2>1
<1>4a. \A k \in DOMAIN b : k \in K \/ Key(b[k]) \in Keys(g)
  OBVIOUS
<1> HIDE DEF K, new
<1>5. made \in [DOMAIN new -> Relation]
  BY <1>3, <1>4, TypesAssumption DEF Relation, Stamps
<1>6. \A i \in DOMAIN made : Key(made[i]) = Key(b[Nth(K, i)]) /\ made[i].updated = now
  BY <1>3, <1>4 DEF Relation, Key
<1> HIDE DEF made
<1>7. made \in Seq(Relation) /\ DOMAIN made = DOMAIN new
  BY <1>3, <1>5, Rewritten
<1>8. /\ h = [entities |-> g.entities, relations |-> g.relations \o made]
      /\ g.entities \in Seq(Entity) /\ g.relations \in Seq(Relation)
  BY <1>2 DEF Graph
<1> HIDE DEF h
<1>9. h \in Graph /\ h.entities = g.entities /\ h.relations = g.relations \o made
  BY <1>7, <1>8, Joined DEF Graph
<1>10. /\ DOMAIN g.relations \subseteq DOMAIN h.relations
       /\ \A i \in DOMAIN g.relations : h.relations[i] = g.relations[i]
       /\ \A i \in DOMAIN h.relations \ DOMAIN g.relations :
             /\ i - Len(g.relations) \in DOMAIN made
             /\ h.relations[i] = made[i - Len(g.relations)]
  BY <1>7, <1>8, <1>9, Joined
<1>10a. \A n \in DOMAIN made : /\ Len(g.relations) + n \in DOMAIN h.relations
                               /\ h.relations[Len(g.relations) + n] = made[n]
  BY <1>7, <1>8, <1>9, Joined
<1>11. \A i \in DOMAIN h.relations \ DOMAIN g.relations :
          LET k == Nth(K, i - Len(g.relations)) IN
          k \in DOMAIN b /\ Key(h.relations[i]) = Key(b[k]) /\ Key(b[k]) \notin Keys(g)
  BY <1>1, <1>3, <1>4, <1>6, <1>7, <1>10
<1>11a. \A i \in DOMAIN h.relations \ DOMAIN g.relations : h.relations[i].updated = now
  BY <1>6, <1>10
<1>12. ASSUME Distinct(b, Key),
              NEW i \in DOMAIN h.relations \ DOMAIN g.relations,
              NEW j \in DOMAIN h.relations \ DOMAIN g.relations,
              Key(h.relations[i]) = Key(h.relations[j])
       PROVE  i = j
  <2>1. Nth(K, i - Len(g.relations)) = Nth(K, j - Len(g.relations))
    BY <1>11, <1>12 DEF Distinct
  <2>2. i - Len(g.relations) = j - Len(g.relations)
    BY <1>3, <1>7, <1>10, <2>1
  <2>3. i \in Int /\ j \in Int /\ Len(g.relations) \in Int
    BY <1>8, <1>9, Rows DEF Graph
  <2> QED BY <2>2, <2>3
<1>13. ASSUME NEW k \in DOMAIN b PROVE Key(b[k]) \in Keys(h)
  <2>1. CASE k \in K
    <3>1. PICK n \in DOMAIN made : Key(made[n]) = Key(b[k])
      BY <1>4b, <1>6, <1>7, <2>1
    <3> QED BY <1>10a, <3>1 DEF Keys
  <2>2. CASE Key(b[k]) \in Keys(g)
    BY <1>10, <2>2 DEF Keys
  <2> QED BY <1>4a, <2>1, <2>2
<1> QED BY <1>9, <1>10, <1>11, <1>11a, <1>12, <1>13 DEF h

-----------------------------------------------------------------------------
(* Observations                                                            *)

\* The fact made of an input is a fact with the input's text.
LEMMA NewFactTyped ==
    ASSUME NEW input \in FactInput, NEW now \in Times
    PROVE  NewFact(input, now) \in Fact /\ NewFact(input, now).text = input.text
BY DEF NewFact, FactInput, Fact, Stamps

\* What observations do to the entity that they are about.
LEMMA ObservedDoes ==
    ASSUME NEW g \in Graph, NEW e \in Entity, e = EntityOf(g, e.name),
           NEW b \in Seq(FactInput), NEW now \in Times
    PROVE  LET o == Observed(g, e, b, now)
               added == AddedTo(g, b, e.name)
           IN
           /\ o \in Entity /\ o.name = e.name
           /\ Len(e.facts) <= Len(o.facts)
           /\ DOMAIN e.facts \subseteq DOMAIN o.facts
           /\ \A k \in DOMAIN e.facts :
                 \/ o.facts[k] = e.facts[k] /\ ~\E a \in added :
                       b[a].supersedes = e.facts[k].text /\ TextIndex(e, e.facts[k].text) = k
                 \/ \E a \in added :
                       /\ b[a].supersedes = e.facts[k].text
                       /\ TextIndex(e, e.facts[k].text) = k
                       /\ o.facts[k] = [e.facts[k] EXCEPT !.to = NewFact(b[a], now).from]
           /\ \A k \in DOMAIN e.facts : o.facts[k].text = e.facts[k].text
           /\ \A k \in DOMAIN o.facts \ DOMAIN e.facts :
                 \E a \in added : o.facts[k] = NewFact(b[a], now) /\ b[a].text \notin Texts(e)
           /\ \A a \in added :
                 \E k \in DOMAIN o.facts \ DOMAIN e.facts : o.facts[k] = NewFact(b[a], now)
           /\ \A k, l \in DOMAIN o.facts \ DOMAIN e.facts :
                 o.facts[k].text = o.facts[l].text => k = l
<1> DEFINE o == Observed(g, e, b, now)
           added == AddedTo(g, b, e.name)
           inputs == Retain(b, added)
           closed == CloseSuperseded(e, b, added, now)
           new == [k \in DOMAIN inputs |-> NewFact(inputs[k], now)]
<1>1. added \in SUBSET DOMAIN b /\ \A a \in added : b[a] \in FactInput /\ b[a].text \notin Texts(e)
  BY Rows DEF AddedTo
<1>2. \A a, c \in added : b[a].text = b[c].text => a = c
  <2>1. Len(b) \in Nat /\ DOMAIN b = 1..Len(b)
    BY Rows
  <2>2. ASSUME NEW a \in added, NEW c \in added, a < c PROVE b[a].text # b[c].text
    <3>1. a \in 1..(c - 1)
      BY <1>1, <2>1, <2>2
    <3> QED BY <3>1 DEF AddedTo
  <2>3. \A a, c \in added : a \in Int /\ c \in Int
    BY <1>1, <2>1
  <2> QED BY <2>2, <2>3
<1>3. e.facts \in Seq(Fact) /\ Len(e.facts) \in Nat /\ DOMAIN e.facts = 1..Len(e.facts)
  BY Rows DEF Entity
<1> HIDE DEF added
<1>4. /\ inputs \in Seq(FactInput)
      /\ DOMAIN inputs = 1..Cardinality(added)
      /\ \A n \in DOMAIN inputs : Nth(added, n) \in added /\ inputs[n] = b[Nth(added, n)]
      /\ \A n, k \in DOMAIN inputs : Nth(added, n) = Nth(added, k) => n = k
      /\ \A a \in added : \E n \in DOMAIN inputs : Nth(added, n) = a
  BY <1>1, RetainRows
<1> HIDE DEF inputs
<1>5. new \in Seq(Fact) /\ DOMAIN new = DOMAIN inputs
  <2>1. new \in [DOMAIN inputs -> Fact]
    BY <1>1, <1>4, NewFactTyped
  <2> HIDE DEF new
  <2> QED BY <1>4, <2>1, Rewritten
<1>6. \A n \in DOMAIN new : new[n] = NewFact(b[Nth(added, n)], now)
  BY <1>4
<1>7. ASSUME NEW k \in DOMAIN e.facts
      PROVE  /\ closed[k] \in Fact /\ closed[k].text = e.facts[k].text
             /\ \/ closed[k] = e.facts[k] /\ ~\E a \in added :
                      b[a].supersedes = e.facts[k].text /\ TextIndex(e, e.facts[k].text) = k
                \/ \E a \in added :
                      /\ b[a].supersedes = e.facts[k].text
                      /\ TextIndex(e, e.facts[k].text) = k
                      /\ closed[k] = [e.facts[k] EXCEPT !.to = NewFact(b[a], now).from]
  <2> DEFINE by == {i \in added : /\ b[i].supersedes = e.facts[k].text
                                  /\ TextIndex(e, e.facts[k].text) = k}
  <2>1. e.facts[k] \in Fact
    BY <1>3, Rows
  <2>2. closed[k] = IF by = {} THEN e.facts[k]
                    ELSE [e.facts[k] EXCEPT !.to = NewFact(b[Min(by)], now).from]
    BY DEF CloseSuperseded
  <2>3. CASE by = {}
    BY <2>1, <2>2, <2>3
  <2>4. CASE by # {}
    <3>1. Min(by) \in by
      <4>1. Len(b) \in Nat /\ by \in SUBSET (1..Len(b))
        BY <1>1, Rows
      <4> HIDE DEF by
      <4> QED BY <2>4, <4>1, FirstPlace
    <3>2. NewFact(b[Min(by)], now) \in Fact
      BY <1>1, <3>1, NewFactTyped
    <3>3. closed[k] = [e.facts[k] EXCEPT !.to = NewFact(b[Min(by)], now).from]
      BY <2>2, <2>4
    <3> QED BY <2>1, <3>1, <3>2, <3>3 DEF Fact
  <2> QED BY <2>3, <2>4
<1>8. closed \in Seq(Fact) /\ DOMAIN closed = DOMAIN e.facts /\ Len(closed) = Len(e.facts)
  <2>1. closed \in [DOMAIN e.facts -> Fact]
    <3>1. DOMAIN closed = DOMAIN e.facts /\ closed = [k \in DOMAIN e.facts |-> closed[k]]
      BY DEF CloseSuperseded
    <3> HIDE DEF closed
    <3> QED BY <1>7, <3>1
  <2> HIDE DEF closed
  <2> QED BY <1>3, <2>1, Rewritten
<1>9. CASE added = {}
  <2>1. o = e
    BY <1>9 DEF Observed, added
  <2> QED BY <1>3, <1>9, <2>1 DEF added
<1>10. CASE added # {}
  <2>1. o = [e EXCEPT !.facts = closed \o new, !.updated = now]
    BY <1>10 DEF Observed, added, inputs
  <2> HIDE DEF o, closed, new
  <2>2. closed \o new \in Seq(Fact)
    BY <1>5, <1>8, Joined
  <2>3. o \in Entity /\ o.name = e.name /\ o.facts = closed \o new
    BY <2>1, <2>2, TypesAssumption DEF Entity, Stamps
  <2>4. /\ DOMAIN e.facts \subseteq DOMAIN o.facts
        /\ \A k \in DOMAIN e.facts : o.facts[k] = closed[k]
        /\ \A k \in DOMAIN o.facts \ DOMAIN e.facts :
              k - Len(e.facts) \in DOMAIN new /\ o.facts[k] = new[k - Len(e.facts)]
        /\ \A n \in DOMAIN new : /\ Len(e.facts) + n \in DOMAIN o.facts \ DOMAIN e.facts
                                 /\ o.facts[Len(e.facts) + n] = new[n]
    BY <1>5, <1>8, <2>3, Joined
  <2>5. Len(e.facts) <= Len(o.facts)
    BY <1>3, <2>3, <2>4, Rows, ConcatProperties, <1>5, <1>8
  <2>6. \A k \in DOMAIN o.facts \ DOMAIN e.facts :
           \E a \in added : o.facts[k] = NewFact(b[a], now) /\ b[a].text \notin Texts(e)
    BY <1>1, <1>4, <1>5, <1>6, <2>4
  <2>7. \A a \in added : \E k \in DOMAIN o.facts \ DOMAIN e.facts : o.facts[k] = NewFact(b[a], now)
    BY <1>4, <1>5, <1>6, <2>4
  <2>8. ASSUME NEW k \in DOMAIN o.facts \ DOMAIN e.facts,
               NEW l \in DOMAIN o.facts \ DOMAIN e.facts, o.facts[k].text = o.facts[l].text
        PROVE  k = l
    <3> DEFINE n == k - Len(e.facts)
               m == l - Len(e.facts)
    <3>1. n \in DOMAIN inputs /\ m \in DOMAIN inputs /\ new[n].text = new[m].text
      BY <1>5, <2>4, <2>8
    <3>2. b[Nth(added, n)].text = b[Nth(added, m)].text
      BY <1>1, <1>4, <1>5, <1>6, <3>1, NewFactTyped
    <3>3. n = m
      BY <1>2, <1>4, <3>1, <3>2
    <3>4. k \in Int /\ l \in Int
      BY <2>3, Rows DEF Entity
    <3> QED BY <1>3, <3>3, <3>4
  <2>9. ASSUME NEW k \in DOMAIN e.facts
        PROVE  /\ o.facts[k].text = e.facts[k].text
               /\ \/ o.facts[k] = e.facts[k] /\ ~\E a \in added :
                        b[a].supersedes = e.facts[k].text /\ TextIndex(e, e.facts[k].text) = k
                  \/ \E a \in added :
                        /\ b[a].supersedes = e.facts[k].text
                        /\ TextIndex(e, e.facts[k].text) = k
                        /\ o.facts[k] = [e.facts[k] EXCEPT !.to = NewFact(b[a], now).from]
    <3>1. o.facts[k] = closed[k]
      BY <2>4
    <3> QED BY <1>7, <3>1
  <2> QED BY <2>3, <2>4, <2>5, <2>6, <2>7, <2>8, <2>9 DEF added, o
<1> QED BY <1>9, <1>10

\* An entity that gains facts is stamped.
LEMMA ObservedStamps ==
    ASSUME NEW g, NEW e \in Entity, NEW b, NEW now
    PROVE  Observed(g, e, b, now) = e \/ Observed(g, e, b, now).updated = now
BY DEF Observed, Entity

\* Every row keeps its place and its name.
SameNames(g, h) ==
    /\ DOMAIN h.entities = DOMAIN g.entities
    /\ \A i \in DOMAIN g.entities : h.entities[i].name = g.entities[i].name

\* Only the first row of a name is looked at.
First(g, i) == i = EntityIndex(g, g.entities[i].name)

\* Each row has its name, and the first row of a name is what a lookup finds.
LEMMA FirstRow ==
    ASSUME NEW g \in Graph, NEW i \in DOMAIN g.entities
    PROVE  /\ g.entities[i] \in Entity /\ HasEntity(g, g.entities[i].name)
           /\ First(g, i) => g.entities[i] = EntityOf(g, g.entities[i].name)
BY Rows DEF Graph, HasEntity, Named, First, EntityOf

\* add_observations: each entity the lookups find is observed, each other row,
\* every name and every relation stays.
LEMMA AddObservationsDoes ==
    ASSUME NEW g \in Graph, NEW b \in Seq(FactInput), NEW now \in Times
    PROVE  LET h == AddObservations(g, b, now) IN
           /\ h \in Graph /\ h.relations = g.relations /\ SameNames(g, h)
           /\ \A i \in DOMAIN g.entities :
                 h.entities[i] = IF First(g, i) THEN Observed(g, g.entities[i], b, now)
                                 ELSE g.entities[i]
<1> DEFINE rows == [i \in DOMAIN g.entities |->
                      IF First(g, i) THEN Observed(g, g.entities[i], b, now) ELSE g.entities[i]]
           h == AddObservations(g, b, now)
<1>1. h = [entities |-> rows, relations |-> g.relations]
  <2>1. h = [g EXCEPT !.entities = rows]
    BY DEF AddObservations, First
  <2> HIDE DEF rows, h
  <2> QED BY <2>1 DEF Graph
<1>2. ASSUME NEW i \in DOMAIN g.entities
      PROVE  rows[i] \in Entity /\ rows[i].name = g.entities[i].name
  <2>1. g.entities[i] \in Entity
    BY FirstRow
  <2>2. CASE First(g, i)
    <3>1. g.entities[i] = EntityOf(g, g.entities[i].name)
      BY <2>2, FirstRow
    <3>2. rows[i] = Observed(g, g.entities[i], b, now)
      BY <2>2
    <3> HIDE DEF rows
    <3> QED BY <2>1, <3>1, <3>2, ObservedDoes
  <2>3. CASE ~First(g, i)
    BY <2>1, <2>3
  <2> QED BY <2>2, <2>3
<1>3. rows \in [DOMAIN g.entities -> Entity]
  BY <1>2
<1>4. \A i \in DOMAIN g.entities :
         rows[i] = IF First(g, i) THEN Observed(g, g.entities[i], b, now) ELSE g.entities[i]
  OBVIOUS
<1> HIDE DEF rows, h
<1>5. rows \in Seq(Entity) /\ DOMAIN rows = DOMAIN g.entities
  BY <1>3, Rewritten DEF Graph
<1>6. h \in Graph /\ h.entities = rows /\ h.relations = g.relations
  BY <1>1, <1>5 DEF Graph
<1> QED BY <1>2, <1>4, <1>5, <1>6 DEF h, SameNames

\* update_observation: one fact of one entity gets a new text, the rest stays.
LEMMA UpdateObservationDoes ==
    ASSUME NEW g \in Graph, NEW n, NEW x, CanUpdate(g, n, x),
           NEW y \in FactTexts, NEW now \in Times
    PROVE  LET h == UpdateObservation(g, n, x, y, now)
               k == EntityIndex(g, n)
               j == TextIndex(EntityOf(g, n), x)
           IN
           /\ h \in Graph /\ h.relations = g.relations /\ SameNames(g, h)
           /\ k \in DOMAIN g.entities /\ g.entities[k] = EntityOf(g, n)
           /\ j \in DOMAIN g.entities[k].facts
           /\ \A i \in DOMAIN g.entities : i # k => h.entities[i] = g.entities[i]
           /\ DOMAIN h.entities[k].facts = DOMAIN g.entities[k].facts
           /\ h.entities[k].facts[j].text = y
           /\ \A i \in DOMAIN g.entities[k].facts :
                 i # j => h.entities[k].facts[i] = g.entities[k].facts[i]
           /\ h.entities[k].updated = now
           /\ h.entities[k].facts[j].from = g.entities[k].facts[j].from
           /\ h.entities[k].facts[j].to = g.entities[k].facts[j].to
<1> DEFINE k == EntityIndex(g, n)
           e == g.entities[k]
           j == TextIndex(EntityOf(g, n), x)
           e2 == [e EXCEPT !.facts[j].text = y, !.updated = now]
           rows == [g.entities EXCEPT ![k] = e2]
           h == UpdateObservation(g, n, x, y, now)
<1>1. /\ k \in DOMAIN g.entities /\ e = EntityOf(g, n) /\ e \in Entity
      /\ x \in Texts(EntityOf(g, n)) /\ EntityOf(g, n) \in Entity
  BY Looking DEF CanUpdate
<1>2. j \in DOMAIN EntityOf(g, n).facts
  BY <1>1, TextFound
<1>3. /\ g = [entities |-> g.entities, relations |-> g.relations]
      /\ g.entities \in Seq(Entity) /\ g.relations \in Seq(Relation)
  BY DEF Graph
<1>4. h = [entities |-> rows, relations |-> g.relations]
  <2> DEFINE e1 == [e EXCEPT !.facts[j].text = y]
             g1 == [g EXCEPT !.entities[k].facts[j].text = y]
  <2>1. h = [g1 EXCEPT !.entities[k].updated = now]
    BY DEF UpdateObservation
  <2>2. g1 = [entities |-> [g.entities EXCEPT ![k] = e1], relations |-> g.relations]
    <3>1. g1 = [g EXCEPT !.entities = [g.entities EXCEPT ![k] = e1]]
      BY DEF Graph
    <3> HIDE DEF g1, e1, k, j
    <3> QED BY <3>1 DEF Graph
  <2>3. h = [entities |-> [g.entities EXCEPT ![k] = [e1 EXCEPT !.updated = now]],
             relations |-> g.relations]
    <3> HIDE DEF e1, g1, h, k, j
    <3> QED BY <1>1, <2>1, <2>2
  <2>4. e2 = [e1 EXCEPT !.updated = now]
    OBVIOUS
  <2> HIDE DEF e1, e2, h
  <2> QED BY <2>3, <2>4
<1>5. /\ e2 \in Entity /\ e2.name = e.name /\ e2.updated = now
      /\ DOMAIN e2.facts = DOMAIN e.facts /\ e2.facts[j].text = y
      /\ \A i \in DOMAIN e.facts : i # j => e2.facts[i] = e.facts[i]
      /\ e2.facts[j].from = e.facts[j].from /\ e2.facts[j].to = e.facts[j].to
  <2> DEFINE facts == [e.facts EXCEPT ![j].text = y]
  <2>1. e.facts \in Seq(Fact) /\ j \in DOMAIN e.facts /\ e.facts[j] \in Fact
    BY <1>1, <1>2, Rows DEF Entity
  <2>2. facts \in [DOMAIN e.facts -> Fact]
    BY <2>1, Rows DEF Fact
  <2>3. e2 = [e EXCEPT !.facts = facts, !.updated = now]
    BY <1>1 DEF Entity
  <2>4. /\ DOMAIN facts = DOMAIN e.facts /\ facts[j].text = y
        /\ \A i \in DOMAIN e.facts : i # j => facts[i] = e.facts[i]
        /\ facts[j].from = e.facts[j].from /\ facts[j].to = e.facts[j].to
    BY <2>1 DEF Fact
  <2> HIDE DEF facts
  <2>5. facts \in Seq(Fact)
    BY <2>1, <2>2, Rewritten
  <2>6. e2 \in Entity /\ e2.name = e.name /\ e2.facts = facts /\ e2.updated = now
    <3> HIDE DEF e, j
    <3> QED BY <1>1, <2>3, <2>5, TypesAssumption DEF Entity, Stamps
  <2> QED BY <2>4, <2>6
<1> HIDE DEF k, e2, h, j
<1>6. rows \in [DOMAIN g.entities -> Entity]
  BY <1>1, <1>3, <1>5, Rows
<1>7. \A i \in DOMAIN g.entities : rows[i] = IF i = k THEN e2 ELSE g.entities[i]
  BY <1>1
<1> HIDE DEF rows
<1>8. rows \in Seq(Entity) /\ DOMAIN rows = DOMAIN g.entities
  BY <1>3, <1>6, Rewritten
<1>9. h \in Graph /\ h.entities = rows /\ h.relations = g.relations
  BY <1>3, <1>4, <1>8 DEF Graph
<1>10. h.entities[k] = e2 /\ DOMAIN h.entities = DOMAIN g.entities
  BY <1>1, <1>7, <1>8, <1>9
<1>11. \A i \in DOMAIN g.entities : i # k => h.entities[i] = g.entities[i]
  BY <1>7, <1>9
<1>12. SameNames(g, h)
  BY <1>1, <1>5, <1>10, <1>11 DEF SameNames
<1>13. j \in DOMAIN g.entities[k].facts
  BY <1>1, <1>2
<1> HIDE DEF e
<1>14. k \in DOMAIN g.entities /\ g.entities[k] = EntityOf(g, n) /\ e = g.entities[k]
  BY <1>1 DEF e
<1> QED BY <1>5, <1>9, <1>10, <1>11, <1>12, <1>13, <1>14 DEF h, k, j

\* delete_observations: names and relations stay, an entity keeps some of its
\* facts.
LEMMA DeleteObservationsDoes ==
    ASSUME NEW g \in Graph, NEW pairs, NEW now \in Times
    PROVE  LET h == DeleteObservations(g, pairs, now) IN
           /\ h \in Graph /\ h.relations = g.relations /\ SameNames(g, h)
           /\ \A i \in DOMAIN g.entities : \E K \in SUBSET DOMAIN g.entities[i].facts :
                 \/ h.entities[i] = g.entities[i]
                 \/ h.entities[i].facts = Retain(g.entities[i].facts, K)
           /\ \A i \in DOMAIN g.entities : First(g, i) =>
                 \A k \in DOMAIN h.entities[i].facts :
                    <<g.entities[i].name, h.entities[i].facts[k].text>> \notin pairs
           /\ \A i \in DOMAIN g.entities :
                 h.entities[i] = g.entities[i] \/ h.entities[i].updated = now
<1> DEFINE kept(i) == {k \in DOMAIN g.entities[i].facts :
                          <<g.entities[i].name, g.entities[i].facts[k].text>> \notin pairs}
           rows == [i \in DOMAIN g.entities |->
                      IF ~First(g, i) \/ kept(i) = DOMAIN g.entities[i].facts THEN g.entities[i]
                      ELSE [g.entities[i] EXCEPT !.facts = Retain(g.entities[i].facts, kept(i)),
                                                 !.updated = now]]
           h == DeleteObservations(g, pairs, now)
<1>1. h = [entities |-> rows, relations |-> g.relations]
  <2>1. h = [g EXCEPT !.entities = rows]
    BY DEF DeleteObservations, First
  <2> HIDE DEF rows, h
  <2> QED BY <2>1 DEF Graph
<1>2. ASSUME NEW i \in DOMAIN g.entities
      PROVE  /\ rows[i] \in Entity /\ rows[i].name = g.entities[i].name
             /\ kept(i) \in SUBSET DOMAIN g.entities[i].facts
             /\ \/ rows[i] = g.entities[i]
                \/ /\ rows[i].facts = Retain(g.entities[i].facts, kept(i))
                   /\ rows[i].updated = now
  <2>1. g.entities[i] \in Entity /\ g.entities[i].facts \in Seq(Fact)
    BY FirstRow DEF Entity
  <2>2. kept(i) \in SUBSET DOMAIN g.entities[i].facts
    OBVIOUS
  <2>3. \/ rows[i] = g.entities[i]
        \/ rows[i] = [g.entities[i] EXCEPT !.facts = Retain(g.entities[i].facts, kept(i)),
                                           !.updated = now]
    OBVIOUS
  <2> HIDE DEF kept, rows
  <2>4. Retain(g.entities[i].facts, kept(i)) \in Seq(Fact)
    BY <2>1, <2>2, RetainRows
  <2> QED BY <2>1, <2>2, <2>3, <2>4, TypesAssumption DEF Entity, Stamps
<1>2a. ASSUME NEW i \in DOMAIN g.entities, First(g, i), NEW k \in DOMAIN rows[i].facts
       PROVE  <<g.entities[i].name, rows[i].facts[k].text>> \notin pairs
  <2>1. g.entities[i] \in Entity /\ g.entities[i].facts \in Seq(Fact)
    BY FirstRow DEF Entity
  <2>2. \A l \in kept(i) : <<g.entities[i].name, g.entities[i].facts[l].text>> \notin pairs
    OBVIOUS
  <2>3. kept(i) \in SUBSET DOMAIN g.entities[i].facts
    OBVIOUS
  <2>4. \/ kept(i) = DOMAIN g.entities[i].facts /\ rows[i] = g.entities[i]
        \/ rows[i] = [g.entities[i] EXCEPT !.facts = Retain(g.entities[i].facts, kept(i)),
                                           !.updated = now]
    BY <1>2a
  <2> HIDE DEF kept, rows
  <2>5. CASE kept(i) = DOMAIN g.entities[i].facts /\ rows[i] = g.entities[i]
    BY <1>2a, <2>2, <2>5
  <2>6. CASE rows[i] = [g.entities[i] EXCEPT !.facts = Retain(g.entities[i].facts, kept(i)),
                                            !.updated = now]
    <3>1. rows[i].facts = Retain(g.entities[i].facts, kept(i))
      BY <2>1, <2>6 DEF Entity
    <3>2. \A n \in DOMAIN Retain(g.entities[i].facts, kept(i)) :
             /\ Nth(kept(i), n) \in kept(i)
             /\ Retain(g.entities[i].facts, kept(i))[n] = g.entities[i].facts[Nth(kept(i), n)]
      BY <2>1, <2>3, RetainRows
    <3> QED BY <1>2a, <2>2, <3>1, <3>2
  <2> QED BY <2>4, <2>5, <2>6
<1>3. rows \in [DOMAIN g.entities -> Entity]
  BY <1>2
<1> HIDE DEF rows, h, kept
<1>5. rows \in Seq(Entity) /\ DOMAIN rows = DOMAIN g.entities
  BY <1>3, Rewritten DEF Graph
<1>6. h \in Graph /\ h.entities = rows /\ h.relations = g.relations
  BY <1>1, <1>5 DEF Graph
<1> QED BY <1>2, <1>2a, <1>5, <1>6 DEF h, SameNames

-----------------------------------------------------------------------------
(* Deleting                                                                *)

\* delete_entities: the rows of other names and the relations that touch none of
\* the names stay.
LEMMA DeleteEntitiesDoes ==
    ASSUME NEW g \in Graph, NEW names
    PROVE  LET h == DeleteEntities(g, names)
               K == {i \in DOMAIN g.entities : g.entities[i].name \notin names}
               L == {i \in DOMAIN g.relations :
                        {g.relations[i].from, g.relations[i].to} \cap names = {}}
           IN /\ h \in Graph
              /\ h.entities = Retain(g.entities, K) /\ K \in SUBSET DOMAIN g.entities
              /\ h.relations = Retain(g.relations, L) /\ L \in SUBSET DOMAIN g.relations
<1> DEFINE K == {i \in DOMAIN g.entities : g.entities[i].name \notin names}
           L == {i \in DOMAIN g.relations :
                    {g.relations[i].from, g.relations[i].to} \cap names = {}}
<1>1. K \in SUBSET DOMAIN g.entities /\ L \in SUBSET DOMAIN g.relations
  OBVIOUS
<1>2. DeleteEntities(g, names) = [entities |-> Retain(g.entities, K),
                                  relations |-> Retain(g.relations, L)]
  BY DEF DeleteEntities
<1> HIDE DEF K, L
<1>3. Retain(g.entities, K) \in Seq(Entity) /\ Retain(g.relations, L) \in Seq(Relation)
  BY <1>1, RetainRows DEF Graph
<1> QED BY <1>1, <1>2, <1>3 DEF Graph, K, L

\* delete_relations: the relations of other keys stay, and every entity.
LEMMA DeleteRelationsDoes ==
    ASSUME NEW g \in Graph, NEW keys
    PROVE  LET h == DeleteRelations(g, keys)
               L == {i \in DOMAIN g.relations : Key(g.relations[i]) \notin keys}
           IN /\ h \in Graph /\ h.entities = g.entities
              /\ h.relations = Retain(g.relations, L) /\ L \in SUBSET DOMAIN g.relations
<1> DEFINE L == {i \in DOMAIN g.relations : Key(g.relations[i]) \notin keys}
<1>1. L \in SUBSET DOMAIN g.relations
  OBVIOUS
<1>2. DeleteRelations(g, keys) = [entities |-> g.entities, relations |-> Retain(g.relations, L)]
  BY DEF DeleteRelations, Graph
<1> HIDE DEF L
<1>3. Retain(g.relations, L) \in Seq(Relation)
  BY <1>1, RetainRows DEF Graph
<1> QED BY <1>1, <1>2, <1>3 DEF Graph, L

-----------------------------------------------------------------------------
(* Renaming and merging                                                    *)

\* A relation re-pointed is a relation, with the one name put for the other.
LEMMA RepointTyped ==
    ASSUME NEW r \in Relation, NEW n, NEW to \in Names
    PROVE  /\ Repoint(r, n, to) \in Relation
           /\ Repoint(r, n, to).from = IF r.from = n THEN to ELSE r.from
           /\ Repoint(r, n, to).to = IF r.to = n THEN to ELSE r.to
           /\ Repoint(r, n, to).type = r.type
BY DEF Repoint, Relation

\* rename_entity: one row gets the new name and keeps its facts, and each
\* relation is re-pointed in its place.
LEMMA RenameDoes ==
    ASSUME NEW g \in Graph, NEW n, NEW to \in Names, CanRename(g, n, to), NEW now \in Times
    PROVE  LET h == RenameEntity(g, n, to, now)
               k == EntityIndex(g, n)
           IN
           /\ h \in Graph
           /\ k \in DOMAIN g.entities /\ g.entities[k].name = n
           /\ DOMAIN h.entities = DOMAIN g.entities
           /\ \A i \in DOMAIN g.entities : i # k => h.entities[i] = g.entities[i]
           /\ h.entities[k].name = to /\ h.entities[k].facts = g.entities[k].facts
           /\ DOMAIN h.relations = DOMAIN g.relations
           /\ \A i \in DOMAIN g.relations :
                 /\ h.relations[i].from = Repoint(g.relations[i], n, to).from
                 /\ h.relations[i].to = Repoint(g.relations[i], n, to).to
                 /\ h.relations[i].type = g.relations[i].type
<1> DEFINE k == EntityIndex(g, n)
           e2 == [g.entities[k] EXCEPT !.name = to, !.updated = now]
           rows == [g.entities EXCEPT ![k] = e2]
           moved == [i \in DOMAIN g.relations |->
                       IF Touches(g.relations[i], n)
                       THEN [Repoint(g.relations[i], n, to) EXCEPT !.updated = now]
                       ELSE g.relations[i]]
           h == RenameEntity(g, n, to, now)
<1>1. k \in DOMAIN g.entities /\ g.entities[k].name = n /\ g.entities[k] \in Entity
  BY Looking DEF CanRename
<1>2. h = [entities |-> [g.entities EXCEPT ![k].name = to, ![k].updated = now], relations |-> moved]
  BY DEF RenameEntity
<1>3. [g.entities EXCEPT ![k].name = to, ![k].updated = now] = rows
  BY <1>1
<1>4. e2 \in Entity /\ e2.name = to /\ e2.facts = g.entities[k].facts
  BY <1>1, TypesAssumption DEF Entity, Stamps
<1>5. ASSUME NEW i \in DOMAIN g.relations
      PROVE  /\ moved[i] \in Relation /\ moved[i].type = g.relations[i].type
             /\ moved[i].from = Repoint(g.relations[i], n, to).from
             /\ moved[i].to = Repoint(g.relations[i], n, to).to
  <2>1. g.relations[i] \in Relation
    BY Rows DEF Graph
  <2>2. CASE Touches(g.relations[i], n)
    <3>1. moved[i] = [Repoint(g.relations[i], n, to) EXCEPT !.updated = now]
      BY <2>2
    <3> HIDE DEF moved
    <3> QED BY <2>1, <3>1, RepointTyped, TypesAssumption DEF Relation, Stamps
  <2>3. CASE ~Touches(g.relations[i], n)
    <3>1. moved[i] = g.relations[i]
      BY <2>3
    <3> HIDE DEF moved
    <3> QED BY <2>1, <2>3, <3>1, RepointTyped DEF Touches
  <2> QED BY <2>2, <2>3
<1>6. moved \in [DOMAIN g.relations -> Relation]
  BY <1>5
<1> HIDE DEF k, e2, moved, h
<1>7. rows \in [DOMAIN g.entities -> Entity]
  BY <1>1, <1>4, Rows DEF Graph
<1>8. \A i \in DOMAIN g.entities : rows[i] = IF i = k THEN e2 ELSE g.entities[i]
  BY <1>1
<1> HIDE DEF rows
<1>9. /\ rows \in Seq(Entity) /\ DOMAIN rows = DOMAIN g.entities
      /\ moved \in Seq(Relation) /\ DOMAIN moved = DOMAIN g.relations
  BY <1>6, <1>7, Rewritten DEF Graph
<1>10. h \in Graph /\ h.entities = rows /\ h.relations = moved
  BY <1>2, <1>3, <1>9 DEF Graph
<1> QED BY <1>1, <1>4, <1>5, <1>8, <1>9, <1>10 DEF h, k

\* What becomes of the renamed row, and of each relation.
RenamedRow(e, to, now) == [e EXCEPT !.name = to, !.updated = now]
MovedRow(r, n, to, now) ==
    IF Touches(r, n) THEN [Repoint(r, n, to) EXCEPT !.updated = now] ELSE r

\* rename_entity, row by row.
LEMMA RenameRows ==
    ASSUME NEW g \in Graph, NEW n, NEW to, HasEntity(g, n), NEW now
    PROVE  LET h == RenameEntity(g, n, to, now)
               k == EntityIndex(g, n)
           IN
           /\ DOMAIN h.entities = DOMAIN g.entities /\ DOMAIN h.relations = DOMAIN g.relations
           /\ \A i \in DOMAIN g.entities :
                 h.entities[i] = IF i = k THEN RenamedRow(g.entities[k], to, now)
                                 ELSE g.entities[i]
           /\ \A i \in DOMAIN g.relations :
                 h.relations[i] = MovedRow(g.relations[i], n, to, now)
<1> DEFINE k == EntityIndex(g, n)
           e2 == [g.entities[k] EXCEPT !.name = to, !.updated = now]
<1>1. k \in DOMAIN g.entities
  BY Looking
<1>2. RenameEntity(g, n, to, now).entities
        = [g.entities EXCEPT ![k].name = to, ![k].updated = now]
  BY DEF RenameEntity
<1>3. [g.entities EXCEPT ![k].name = to, ![k].updated = now] = [g.entities EXCEPT ![k] = e2]
  BY <1>1
<1>4. RenameEntity(g, n, to, now).entities = [g.entities EXCEPT ![k] = e2]
  BY <1>2, <1>3
<1> HIDE DEF e2
<1>5. /\ DOMAIN RenameEntity(g, n, to, now).entities = DOMAIN g.entities
      /\ \A i \in DOMAIN g.entities :
            RenameEntity(g, n, to, now).entities[i] = IF i = k THEN e2 ELSE g.entities[i]
  BY <1>1, <1>4
<1>6. /\ DOMAIN RenameEntity(g, n, to, now).relations = DOMAIN g.relations
      /\ \A i \in DOMAIN g.relations :
            RenameEntity(g, n, to, now).relations[i]
              = MovedRow(g.relations[i], n, to, now)
  BY DEF RenameEntity, MovedRow
<1> QED BY <1>5, <1>6 DEF e2, RenamedRow

\* Of finitely many numbers there is a least one.
LEMMA LeastOne ==
    ASSUME NEW K, IsFiniteSet(K), K # {}, NEW f \in [K -> Int]
    PROVE  \E i \in K : \A j \in K : f[i] <= f[j]
<1>0. \A i \in K : f[i] \in Int
  OBVIOUS
<1> DEFINE below(i) == {j \in K : f[j] < f[i]}
           T == {below(i) : i \in K}
           R == StrictSubsetOrdering(K)
<1>1. IsWellFoundedOn(R, SUBSET K)
  BY FS_StrictSubsetOrderingWellFounded, FS_FiniteSubsetsOfFinite
<1>2. T \subseteq SUBSET K /\ T # {}
  <2>1. \A i \in K : below(i) \in SUBSET K
    OBVIOUS
  <2> HIDE DEF below
  <2>2. PICK i : i \in K
    OBVIOUS
  <2>3. below(i) \in T
    BY <2>2
  <2> QED BY <2>1, <2>3
<1>3. \E x \in T : \A y \in T : <<y, x>> \notin R
  <2> HIDE DEF T, R
  <2> QED BY <1>1, <1>2, WFMin
<1>4. PICK i \in K : \A j \in K : <<below(j), below(i)>> \notin R
  BY <1>3
<1>5. ASSUME NEW j \in K, f[j] < f[i] PROVE FALSE
  <2>1. below(j) \subseteq below(i)
    <3> SUFFICES ASSUME NEW l \in K, f[l] < f[j] PROVE f[l] < f[i]
      OBVIOUS
    <3>1. f[l] \in Int /\ f[j] \in Int /\ f[i] \in Int
      BY <1>0
    <3> QED BY <1>5, <3>1
  <2>2. j \in below(i) /\ j \notin below(j)
    <3>1. f[j] \in Int
      BY <1>0
    <3> QED BY <1>5, <3>1
  <2>3. below(j) \in SUBSET K /\ below(i) \in SUBSET K
    OBVIOUS
  <2> HIDE DEF below
  <2>4. <<below(j), below(i)>> \in R
    BY <2>1, <2>2, <2>3 DEF StrictSubsetOrdering
  <2> QED BY <1>4, <2>4
<1>6. \A j \in K : f[i] <= f[j]
  <2>1. \A j \in K : f[i] \in Int /\ f[j] \in Int /\ ~(f[j] < f[i])
    BY <1>0, <1>5
  <2> QED BY <2>1
<1> QED BY <1>6

\* x is the earliest of the dates D, null if there are none.
EarliestOf(x, D) == (D = {} /\ x = None) \/ (x \in D /\ \A d \in D : x <= d)

\* The dates of the rows with a key.
DatesOf(rs, key) == {rs[i].created : i \in {j \in DOMAIN rs : Key(rs[j]) = key}} \ {None}

\* Dedupe keeps some of the rows, one for each key.
LEMMA DedupeDoes ==
    ASSUME NEW rs \in Seq(Relation)
    PROVE  /\ Dedupe(rs) \in Seq(Relation)
           /\ \A n \in DOMAIN Dedupe(rs) : \E i \in DOMAIN rs : Dedupe(rs)[n] = rs[i]
           /\ Distinct(Dedupe(rs), Key)
           /\ \A i \in DOMAIN rs : \E n \in DOMAIN Dedupe(rs) : Key(Dedupe(rs)[n]) = Key(rs[i])
           /\ \A n \in DOMAIN Dedupe(rs) :
                 EarliestOf(Dedupe(rs)[n].created, DatesOf(rs, Key(Dedupe(rs)[n])))
<1> DEFINE rows(i) == {j \in DOMAIN rs : Key(rs[j]) = Key(rs[i])}
           dated(i) == {j \in rows(i) : rs[j].created # None}
           oldest(i) == {j \in dated(i) : \A k \in dated(i) : rs[j].created <= rs[k].created}
           heads == {i \in DOMAIN rs : i = Min(rows(i))}
           survivor == [i \in DOMAIN rs |->
                           IF dated(i) = {} THEN rs[i] ELSE rs[Min(oldest(i))]]
<1>1. Dedupe(rs) = Retain(survivor, heads)
  BY DEF Dedupe
<1>2. Len(rs) \in Nat /\ DOMAIN rs = 1..Len(rs) /\ \A i \in DOMAIN rs : rs[i] \in Relation
  BY Rows
<1>3. ASSUME NEW i \in DOMAIN rs
      PROVE  /\ survivor[i] \in Relation /\ \E j \in rows(i) : survivor[i] = rs[j]
             /\ EarliestOf(survivor[i].created, DatesOf(rs, Key(rs[i])))
  <2>1. i \in rows(i) /\ rows(i) \in SUBSET DOMAIN rs
    OBVIOUS
  <2>1a. DatesOf(rs, Key(rs[i])) = {rs[j].created : j \in dated(i)}
    BY DEF DatesOf
  <2>2. CASE dated(i) = {}
    <3>1. survivor[i] = rs[i] /\ rs[i].created = None /\ DatesOf(rs, Key(rs[i])) = {}
      BY <2>1, <2>1a, <2>2
    <3> HIDE DEF survivor, rows, dated
    <3> QED BY <1>2, <2>1, <3>1 DEF EarliestOf
  <2>3. CASE dated(i) # {}
    <3>1. dated(i) \in SUBSET (1..Len(rs)) /\ IsFiniteSet(dated(i))
      <4>1. dated(i) \in SUBSET (1..Len(rs))
        BY <1>2
      <4> HIDE DEF dated
      <4> QED BY <1>2, <4>1, Ranks
    <3> DEFINE f == [j \in dated(i) |-> rs[j].created]
    <3>2. f \in [dated(i) -> Int]
      BY <1>2, TypesAssumption DEF Relation, Stamps
    <3>3. oldest(i) # {}
      <4>1. \E j \in dated(i) : \A k \in dated(i) : f[j] <= f[k]
        <5> HIDE DEF f, dated
        <5> QED BY <2>3, <3>1, <3>2, LeastOne
      <4> QED BY <4>1
    <3>4. oldest(i) \in SUBSET (1..Len(rs)) /\ oldest(i) \subseteq rows(i)
      BY <3>1
    <3>5. Min(oldest(i)) \in oldest(i)
      <4> HIDE DEF oldest
      <4> QED BY <1>2, <3>3, <3>4, FirstPlace
    <3>6. survivor[i] = rs[Min(oldest(i))]
      BY <2>3
    <3>7. \A j \in oldest(i) : j \in dated(i) /\ \A k \in dated(i) : rs[j].created <= rs[k].created
      OBVIOUS
    <3> HIDE DEF oldest, survivor, rows, dated
    <3>8. EarliestOf(survivor[i].created, DatesOf(rs, Key(rs[i])))
      BY <2>1a, <3>5, <3>6, <3>7 DEF EarliestOf
    <3> QED BY <1>2, <2>1, <3>4, <3>5, <3>6, <3>8
  <2> QED BY <2>2, <2>3
<1>4. \A i \in DOMAIN rs : Key(survivor[i]) = Key(rs[i])
  <2> HIDE DEF survivor, dated
  <2> QED BY <1>3
<1>5. survivor \in Seq(Relation) /\ DOMAIN survivor = DOMAIN rs
  <2>1. survivor \in [DOMAIN rs -> Relation]
    BY <1>3
  <2> HIDE DEF survivor
  <2> QED BY <2>1, Rewritten
<1>6. heads \in SUBSET DOMAIN survivor
  BY <1>5
<1>7. ASSUME NEW i \in DOMAIN rs PROVE Min(rows(i)) \in heads /\ Key(rs[Min(rows(i))]) = Key(rs[i])
  <2>1. rows(i) \in SUBSET (1..Len(rs)) /\ i \in rows(i)
    BY <1>2
  <2>2. Min(rows(i)) \in rows(i)
    <3> HIDE DEF rows
    <3> QED BY <1>2, <2>1, FirstPlace
  <2>3. rows(Min(rows(i))) = rows(i) /\ Min(rows(i)) \in DOMAIN rs
    BY <2>2
  <2> QED BY <2>2, <2>3
<1>8. \A i, j \in heads : Key(rs[i]) = Key(rs[j]) => i = j
  <2> SUFFICES ASSUME NEW i \in heads, NEW j \in heads, Key(rs[i]) = Key(rs[j]) PROVE i = j
    OBVIOUS
  <2>1. rows(i) = rows(j)
    OBVIOUS
  <2> QED BY <2>1
<1>9. heads \subseteq DOMAIN rs
  OBVIOUS
<1> DEFINE d == Dedupe(rs)
<1> HIDE DEF survivor, heads, d
<1>10. /\ d \in Seq(Relation)
       /\ \A n \in DOMAIN d : Nth(heads, n) \in heads /\ d[n] = survivor[Nth(heads, n)]
       /\ \A n, k \in DOMAIN d : Nth(heads, n) = Nth(heads, k) => n = k
       /\ \A i \in heads : \E n \in DOMAIN d : Nth(heads, n) = i
  BY <1>1, <1>5, <1>6, RetainRows DEF d
<1>11. \A n \in DOMAIN d : \E i \in DOMAIN rs : d[n] = rs[i]
  BY <1>3, <1>9, <1>10
<1>12. Distinct(d, Key)
  BY <1>4, <1>8, <1>9, <1>10 DEF Distinct
<1>13. ASSUME NEW i \in DOMAIN rs PROVE \E n \in DOMAIN d : Key(d[n]) = Key(rs[i])
  <2>1. PICK n \in DOMAIN d : Nth(heads, n) = Min(rows(i))
    BY <1>7, <1>10
  <2> HIDE DEF rows
  <2> QED BY <1>4, <1>7, <1>9, <1>10, <2>1
<1>14. \A n \in DOMAIN d : EarliestOf(d[n].created, DatesOf(rs, Key(d[n])))
  <2> HIDE DEF rows, dated
  <2> QED BY <1>3, <1>4, <1>9, <1>10
<1> QED BY <1>10, <1>11, <1>12, <1>13, <1>14 DEF d

\* No two facts of e have one text.
TextsApart(e) == \A k, l \in DOMAIN e.facts : e.facts[k].text = e.facts[l].text => k = l

\* A merged entity has the facts of the target in place, and those of the
\* source whose texts are new to it.
LEMMA AbsorbDoes ==
    ASSUME NEW s \in Entity, NEW t \in Entity, NEW now \in Times
    PROVE  LET m == Absorb(s, t, now) IN
           /\ m \in Entity /\ m.name = t.name
           /\ Texts(m) = Texts(s) \cup Texts(t)
           /\ DOMAIN t.facts \subseteq DOMAIN m.facts
           /\ \A k \in DOMAIN t.facts : m.facts[k] = t.facts[k]
           /\ TextsApart(s) /\ TextsApart(t) => TextsApart(m)
           /\ m.created = Earliest(s.created, t.created) /\ m.updated = now
<1> DEFINE K == {k \in DOMAIN s.facts : s.facts[k].text \notin Texts(t)}
           more == Retain(s.facts, K)
           m == Absorb(s, t, now)
<1>1. s.facts \in Seq(Fact) /\ t.facts \in Seq(Fact) /\ K \in SUBSET DOMAIN s.facts
  BY DEF Entity
<1>2. m = [t EXCEPT !.facts = @ \o more, !.created = Earliest(s.created, t.created), !.updated = now]
  BY DEF Absorb
<1>3. \A k \in K : s.facts[k].text \notin Texts(t)
  OBVIOUS
<1>4. \A k \in DOMAIN s.facts \ K : s.facts[k].text \in Texts(t)
  OBVIOUS
<1> HIDE DEF K
<1>5. /\ more \in Seq(Fact)
      /\ \A n \in DOMAIN more : Nth(K, n) \in K /\ more[n] = s.facts[Nth(K, n)]
      /\ \A n, k \in DOMAIN more : Nth(K, n) = Nth(K, k) => n = k
      /\ \A i \in K : \E n \in DOMAIN more : Nth(K, n) = i
  BY <1>1, RetainRows
<1>6. Earliest(s.created, t.created) \in Stamps
  <2>1. s.created \in Stamps /\ t.created \in Stamps
    BY DEF Entity
  <2>2. ASSUME NEW a \in Int, NEW b \in Int PROVE Min({a, b}) \in {a, b}
    <3>1. CASE a <= b
      <4>1. a \in {a, b} /\ \A y \in {a, b} : a <= y
        BY <3>1
      <4> QED BY <4>1 DEF Min
    <3>2. CASE b <= a
      <4>1. b \in {a, b} /\ \A y \in {a, b} : b <= y
        BY <3>2
      <4> QED BY <4>1 DEF Min
    <3> QED BY <3>1, <3>2
  <2> QED BY <2>1, <2>2, TypesAssumption DEF Earliest, Stamps
<1> HIDE DEF more, m
<1>7. t.facts \o more \in Seq(Fact)
  BY <1>1, <1>5, Joined
<1>8. /\ m \in Entity /\ m.name = t.name /\ m.facts = t.facts \o more
      /\ m.created = Earliest(s.created, t.created) /\ m.updated = now
  BY <1>2, <1>6, <1>7, TypesAssumption DEF Entity, Stamps
<1>9. /\ DOMAIN t.facts \subseteq DOMAIN m.facts
      /\ \A k \in DOMAIN t.facts : m.facts[k] = t.facts[k]
      /\ \A k \in DOMAIN m.facts \ DOMAIN t.facts :
            k - Len(t.facts) \in DOMAIN more /\ m.facts[k] = more[k - Len(t.facts)]
      /\ \A n \in DOMAIN more : /\ Len(t.facts) + n \in DOMAIN m.facts
                                /\ m.facts[Len(t.facts) + n] = more[n]
  BY <1>1, <1>5, <1>8, Joined
<1>10. Texts(m) \subseteq Texts(s) \cup Texts(t)
  BY <1>1, <1>5, <1>9 DEF Texts
<1>11. Texts(t) \subseteq Texts(m)
  BY <1>9 DEF Texts
<1>12. ASSUME NEW k \in DOMAIN s.facts PROVE s.facts[k].text \in Texts(m)
  <2>1. CASE k \in K
    <3>1. PICK n \in DOMAIN more : more[n] = s.facts[k]
      BY <1>5, <2>1
    <3> QED BY <1>9, <3>1 DEF Texts
  <2>2. CASE k \notin K
    BY <1>4, <1>11, <2>2
  <2> QED BY <2>1, <2>2
<1>13. Texts(s) \subseteq Texts(m)
  BY <1>12 DEF Texts
<1>14. ASSUME TextsApart(s), TextsApart(t),
              NEW k \in DOMAIN m.facts, NEW l \in DOMAIN m.facts,
              m.facts[k].text = m.facts[l].text
       PROVE  k = l
  <2>1. \A i \in DOMAIN m.facts : i \in DOMAIN t.facts => m.facts[i].text \in Texts(t)
    BY <1>9 DEF Texts
  <2>2. ASSUME NEW i \in DOMAIN m.facts, i \notin DOMAIN t.facts
        PROVE  m.facts[i].text \notin Texts(t)
    <3>1. i - Len(t.facts) \in DOMAIN more /\ m.facts[i] = more[i - Len(t.facts)]
      BY <1>9, <2>2
    <3>2. PICK n \in DOMAIN more : m.facts[i] = more[n]
      BY <3>1
    <3>3. Nth(K, n) \in K /\ m.facts[i] = s.facts[Nth(K, n)]
      BY <1>5, <3>2
    <3> QED BY <1>3, <3>3
  <2>3. CASE k \in DOMAIN t.facts /\ l \in DOMAIN t.facts
    BY <1>9, <1>14, <2>3 DEF TextsApart
  <2>4. CASE k \notin DOMAIN t.facts /\ l \notin DOMAIN t.facts
    <3> DEFINE n == k - Len(t.facts)
               j == l - Len(t.facts)
    <3>1. n \in DOMAIN more /\ j \in DOMAIN more /\ more[n].text = more[j].text
      BY <1>9, <1>14, <2>4
    <3>2. Nth(K, n) = Nth(K, j)
      BY <1>1, <1>5, <1>14, <3>1 DEF TextsApart
    <3>3. n = j
      BY <1>5, <3>1, <3>2
    <3>4. k \in Int /\ l \in Int /\ Len(t.facts) \in Int
      BY <1>1, <1>8, Rows DEF Entity
    <3> QED BY <3>3, <3>4
  <2> QED BY <1>14, <2>1, <2>2, <2>3, <2>4
<1>15. TextsApart(s) /\ TextsApart(t) => TextsApart(m)
  BY <1>14 DEF TextsApart
<1> QED BY <1>8, <1>9, <1>10, <1>11, <1>13, <1>15 DEF m

\* The rows that a merge of source leaves.
Others(g, source) == {i \in DOMAIN g.entities : g.entities[i].name # source}

\* merge_entities: each row but the source's stays, the target's first row
\* having absorbed the source's; each relation left is one that was there,
\* re-pointed and no loop, and no two have one key.
LEMMA MergeDoes ==
    ASSUME NEW g \in Graph, NEW source, NEW target \in Names,
           CanMerge(g, source, target), NEW now \in Times
    PROVE  LET h == MergeEntities(g, source, target, now)
               K == Others(g, source)
               t == EntityIndex(g, target)
           IN
           /\ h \in Graph
           /\ \A n \in DOMAIN h.entities :
                 /\ Nth(K, n) \in K
                 /\ h.entities[n] = IF Nth(K, n) = t
                                    THEN Absorb(EntityOf(g, source), EntityOf(g, target), now)
                                    ELSE g.entities[Nth(K, n)]
                 /\ h.entities[n].name = g.entities[Nth(K, n)].name
           /\ \A n, k \in DOMAIN h.entities : Nth(K, n) = Nth(K, k) => n = k
           /\ \A i \in K : \E n \in DOMAIN h.entities : Nth(K, n) = i
           /\ t \in K
           /\ \A n \in DOMAIN h.relations :
                 /\ h.relations[n].from # h.relations[n].to
                 /\ \E i \in DOMAIN g.relations :
                       h.relations[n] = Repoint(g.relations[i], source, target)
           /\ Distinct(h.relations, Key)
<1> DEFINE K == Others(g, source)
           t == EntityIndex(g, target)
           new == Absorb(EntityOf(g, source), g.entities[t], now)
           merged == [g.entities EXCEPT ![t] = new]
           L == {i \in DOMAIN merged : merged[i].name # source}
           repointed == [i \in DOMAIN g.relations |-> Repoint(g.relations[i], source, target)]
           M == {i \in DOMAIN repointed : repointed[i].from # repointed[i].to}
           noLoops == Retain(repointed, M)
           h == MergeEntities(g, source, target, now)
<1>1. g.entities \in Seq(Entity) /\ g.relations \in Seq(Relation)
  BY DEF Graph
<1>2. h = [entities |-> Retain(merged, L), relations |-> Dedupe(noLoops)]
  BY Zenon DEF MergeEntities
<1>3. source # target /\ HasEntity(g, source) /\ HasEntity(g, target)
  BY DEF CanMerge
<1>4. /\ t \in DOMAIN g.entities /\ g.entities[t].name = target
      /\ g.entities[t] = EntityOf(g, target) /\ g.entities[t] \in Entity
  BY <1>3, Looking
<1>5. EntityOf(g, source) \in Entity
  BY <1>3, Looking
<1>6. new \in Entity /\ new.name = target
  BY <1>4, <1>5, AbsorbDoes
<1> HIDE DEF t, new
<1>7. \A i \in DOMAIN g.entities : merged[i] = IF i = t THEN new ELSE g.entities[i]
  BY <1>4
<1>8. \A i \in DOMAIN g.entities : merged[i] \in Entity /\ merged[i].name = g.entities[i].name
  BY <1>1, <1>4, <1>6, <1>7, Rows
<1>9. DOMAIN merged = DOMAIN g.entities /\ merged \in [DOMAIN g.entities -> Entity]
  BY <1>8
<1> HIDE DEF merged
<1>10. merged \in Seq(Entity)
  BY <1>1, <1>9, Rewritten
<1>11. L = K /\ K \in SUBSET DOMAIN merged
  BY <1>8, <1>9 DEF Others
<1>12. t \in K
  BY <1>3, <1>4 DEF Others
<1> HIDE DEF K, L
<1>13. /\ Retain(merged, K) \in Seq(Entity)
       /\ \A n \in DOMAIN Retain(merged, K) :
             Nth(K, n) \in K /\ Retain(merged, K)[n] = merged[Nth(K, n)]
       /\ \A n, k \in DOMAIN Retain(merged, K) : Nth(K, n) = Nth(K, k) => n = k
       /\ \A i \in K : \E n \in DOMAIN Retain(merged, K) : Nth(K, n) = i
  BY <1>10, <1>11, RetainRows
<1>14. h.entities = Retain(merged, K)
  BY <1>2, <1>11
<1>15. ASSUME NEW n \in DOMAIN h.entities
       PROVE  /\ Nth(K, n) \in K
              /\ h.entities[n] = IF Nth(K, n) = t THEN new ELSE g.entities[Nth(K, n)]
              /\ h.entities[n].name = g.entities[Nth(K, n)].name
  <2>1. Nth(K, n) \in K /\ h.entities[n] = merged[Nth(K, n)]
    BY <1>13, <1>14
  <2>2. Nth(K, n) \in DOMAIN g.entities
    BY <1>9, <1>11, <2>1
  <2> QED BY <1>7, <1>8, <2>1, <2>2
<1>16. \A i \in DOMAIN g.relations : Repoint(g.relations[i], source, target) \in Relation
  BY <1>1, Rows, RepointTyped
<1>17. repointed \in Seq(Relation) /\ DOMAIN repointed = DOMAIN g.relations
  BY <1>1, <1>16, Rewritten
<1>18. \A i \in DOMAIN g.relations : repointed[i] = Repoint(g.relations[i], source, target)
  OBVIOUS
<1>19. M \in SUBSET DOMAIN repointed /\ \A i \in M : repointed[i].from # repointed[i].to
  OBVIOUS
<1> HIDE DEF repointed, M
<1>20. /\ noLoops \in Seq(Relation)
       /\ \A n \in DOMAIN noLoops : Nth(M, n) \in M /\ noLoops[n] = repointed[Nth(M, n)]
  BY <1>17, <1>19, RetainRows
<1> HIDE DEF noLoops
<1>21. /\ h.relations = Dedupe(noLoops) /\ h.relations \in Seq(Relation)
       /\ \A n \in DOMAIN h.relations : \E i \in DOMAIN noLoops : h.relations[n] = noLoops[i]
       /\ Distinct(h.relations, Key)
  <2> HIDE DEF h
  <2>1. h.relations = Dedupe(noLoops)
    BY <1>2
  <2>2. /\ Dedupe(noLoops) \in Seq(Relation)
        /\ \A n \in DOMAIN Dedupe(noLoops) : \E i \in DOMAIN noLoops : Dedupe(noLoops)[n] = noLoops[i]
        /\ Distinct(Dedupe(noLoops), Key)
    BY <1>20, DedupeDoes
  <2> QED BY <2>1, <2>2 DEF Distinct
<1>22. ASSUME NEW n \in DOMAIN h.relations
       PROVE  /\ h.relations[n].from # h.relations[n].to
              /\ \E i \in DOMAIN g.relations :
                    h.relations[n] = Repoint(g.relations[i], source, target)
  <2>1. PICK k \in DOMAIN noLoops : h.relations[n] = noLoops[k]
    BY <1>21
  <2>2. Nth(M, k) \in M /\ h.relations[n] = repointed[Nth(M, k)]
    BY <1>20, <2>1
  <2>3. Nth(M, k) \in DOMAIN g.relations
    BY <1>17, <1>19, <2>2
  <2> QED BY <1>18, <1>19, <2>2, <2>3
<1>23. h \in Graph
  BY <1>2, <1>11, <1>13, <1>14, <1>21 DEF Graph
<1> HIDE DEF h
<1> QED BY <1>4, <1>12, <1>13, <1>14, <1>15, <1>21, <1>22, <1>23 DEF h, K, t, new

-----------------------------------------------------------------------------
(* Types                                                                   *)

\* normalize_entity_types: names, facts and relations stay.
LEMMA NormalizeDoes ==
    ASSUME NEW g \in Graph, NEW now \in Times
    PROVE  LET h == NormalizeAll(g, now) IN
           /\ h \in Graph /\ h.relations = g.relations /\ SameNames(g, h)
           /\ \A i \in DOMAIN g.entities : h.entities[i].facts = g.entities[i].facts
           /\ \A i \in DOMAIN g.entities :
                 h.entities[i] = g.entities[i] \/ h.entities[i].updated = now
<1> DEFINE row(i) == Normalized(g.entities[i], now)
           rows == [i \in DOMAIN g.entities |-> row(i)]
           h == NormalizeAll(g, now)
<1>1. g.entities \in Seq(Entity)
  BY DEF Graph
<1>2. h = [g EXCEPT !.entities = rows]
  BY DEF NormalizeAll
<1>3. ASSUME NEW i \in DOMAIN g.entities
      PROVE  row(i) \in Entity /\ row(i).name = g.entities[i].name
                               /\ row(i).facts = g.entities[i].facts
                               /\ (row(i) = g.entities[i] \/ row(i).updated = now)
  <2>1. g.entities[i] \in Entity
    BY <1>1, Rows
  <2>2. NormalizeType(g.entities[i].type) \in TypeNames
    BY <2>1, NormalTypes DEF Entity
  <2> HIDE DEF rows, h
  <2> QED BY <2>1, <2>2 DEF Entity, Stamps, Normalized
<1> HIDE DEF row
<1>4. rows \in Seq(Entity) /\ DOMAIN rows = DOMAIN g.entities
  BY <1>1, <1>3, Rewritten
<1>5. h.entities = rows /\ h.relations = g.relations /\ h \in Graph
  BY <1>2, <1>4 DEF Graph
<1> QED BY <1>3, <1>4, <1>5 DEF SameNames
-----------------------------------------------------------------------------
(* Calls repeated                                                          *)

\* Nothing kept is nothing.
LEMMA RetainNone ==
    ASSUME NEW S, NEW s \in Seq(S)
    PROVE  Retain(s, {}) = << >>
<1>1. Retain(s, {}) \in Seq(S) /\ DOMAIN Retain(s, {}) = 1..Cardinality({})
  BY RetainRows
<1>2. Cardinality({}) = 0
  BY FS_EmptySet
<1>3. Len(Retain(s, {})) = 0
  BY <1>1, <1>2, Rows
<1> HIDE DEF Retain
<1> QED BY <1>1, <1>3, EmptySeq

\* A batch whose names a graph has creates nothing in it.
LEMMA CreateNone ==
    ASSUME NEW g \in Graph, NEW b \in Seq(Entity), NEW now,
           \A k \in DOMAIN b : HasEntity(g, b[k].name)
    PROVE  CreateEntities(g, b, now) = g
<1> DEFINE K == {i \in DOMAIN b : ~HasEntity(g, b[i].name)}
           made(new) == [i \in DOMAIN new |->
              [name |-> new[i].name, type |-> NormalizeType(new[i].type),
               facts |-> new[i].facts, created |-> now, updated |-> now]]
<1>1. CreateEntities(g, b, now) = [g EXCEPT !.entities = g.entities \o made(Retain(b, K))]
  BY DEF CreateEntities
<1>2. K = {}
  OBVIOUS
<1>3. Retain(b, {}) = << >>
  BY RetainNone
<1>4. made(<< >>) = << >>
  OBVIOUS
<1>5. g.entities \o << >> = g.entities
  BY ConcatEmptySeq DEF Graph
<1> HIDE DEF K, made
<1>6. CreateEntities(g, b, now) = [g EXCEPT !.entities = g.entities]
  BY <1>1, <1>2, <1>3, <1>4, <1>5
<1> QED BY <1>6 DEF Graph

\* A batch whose keys a graph has creates nothing in it.
LEMMA RelateNone ==
    ASSUME NEW g \in Graph, NEW b \in Seq(Relation), NEW now,
           \A k \in DOMAIN b : Key(b[k]) \in Keys(g)
    PROVE  CreateRelations(g, b, now) = g
<1> DEFINE K == {i \in DOMAIN b : Key(b[i]) \notin Keys(g)}
           made(new) == [i \in DOMAIN new |->
                            [new[i] EXCEPT !.created = now, !.updated = now]]
<1>1. CreateRelations(g, b, now) = [g EXCEPT !.relations = g.relations \o made(Retain(b, K))]
  BY DEF CreateRelations
<1>2. K = {}
  OBVIOUS
<1>3. Retain(b, {}) = << >>
  BY RetainNone
<1>4. made(<< >>) = << >>
  OBVIOUS
<1>5. g.relations \o << >> = g.relations
  BY ConcatEmptySeq DEF Graph
<1> HIDE DEF K, made
<1>6. CreateRelations(g, b, now) = [g EXCEPT !.relations = g.relations]
  BY <1>1, <1>2, <1>3, <1>4, <1>5
<1> QED BY <1>6 DEF Graph

\* Every entity that a batch is about has the texts of its inputs.
Holds(g, b) ==
    \A i \in DOMAIN b : /\ HasEntity(g, b[i].entity)
                        /\ b[i].text \in Texts(EntityOf(g, b[i].entity))

\* A batch whose texts a graph holds is accepted by it and adds nothing.
LEMMA ObserveNone ==
    ASSUME NEW g \in Graph, NEW b \in Seq(FactInput), NEW now, Holds(g, b)
    PROVE  ObservationsOK(g, b) /\ AddObservations(g, b, now) = g
<1>1. Supersedes(g, b) = {}
  BY DEF Supersedes, Holds
<1>2. ObservationsOK(g, b)
  BY <1>1 DEF ObservationsOK, Holds
<1>3. \A n : AddedTo(g, b, n) = {}
  BY DEF AddedTo, Holds
<1>4. \A e : Observed(g, e, b, now) = e
  BY <1>3 DEF Observed
<1>5. g.entities \in Seq(Entity)
  BY DEF Graph
<1> DEFINE rows == [i \in DOMAIN g.entities |->
                      IF i = EntityIndex(g, g.entities[i].name)
                      THEN Observed(g, g.entities[i], b, now) ELSE g.entities[i]]
<1>6. AddObservations(g, b, now) = [g EXCEPT !.entities = rows]
  BY DEF AddObservations
<1>7. \A i \in DOMAIN g.entities : rows[i] = g.entities[i]
  BY <1>4
<1>8. g.entities = [i \in DOMAIN g.entities |-> g.entities[i]]
  BY <1>5
<1>9. DOMAIN rows = DOMAIN g.entities /\ rows = [i \in DOMAIN rows |-> rows[i]]
  OBVIOUS
<1> HIDE DEF rows
<1>10. rows = g.entities
  BY <1>7, <1>8, <1>9
<1> QED BY <1>2, <1>6, <1>10 DEF Graph

\* An entity keeps its texts when it gains facts.
LEMMA ObservedKeepsTexts ==
    ASSUME NEW g \in Graph, NEW e \in Entity, e = EntityOf(g, e.name),
           NEW b \in Seq(FactInput), NEW now \in Times
    PROVE  Texts(e) \subseteq Texts(Observed(g, e, b, now))
<1> DEFINE o == Observed(g, e, b, now)
<1>1. DOMAIN e.facts \subseteq DOMAIN o.facts /\ \A k \in DOMAIN e.facts : o.facts[k].text = e.facts[k].text
  BY ObservedDoes
<1> HIDE DEF o
<1> QED BY <1>1 DEF Texts, o

\* Every input that is to be added is.
LEMMA ObservedGains ==
    ASSUME NEW g \in Graph, NEW e \in Entity, e = EntityOf(g, e.name),
           NEW b \in Seq(FactInput), NEW now \in Times, NEW a \in AddedTo(g, b, e.name)
    PROVE  \E l \in DOMAIN Observed(g, e, b, now).facts :
              Observed(g, e, b, now).facts[l] = NewFact(b[a], now)
<1> DEFINE o == Observed(g, e, b, now)
<1>1. \A x \in AddedTo(g, b, e.name) :
         \E l \in DOMAIN o.facts \ DOMAIN e.facts : o.facts[l] = NewFact(b[x], now)
  BY ObservedDoes
<1> HIDE DEF o
<1>2. PICK l \in DOMAIN o.facts \ DOMAIN e.facts : o.facts[l] = NewFact(b[a], now)
  BY <1>1
<1> QED BY <1>2 DEF o

\* Once a batch is added, its texts are held: the first input with a text is
\* added unless the entity has the text.
LEMMA ObservedHolds ==
    ASSUME NEW g \in Graph, NEW b \in Seq(FactInput), NEW now \in Times, ObservationsOK(g, b)
    PROVE  Holds(AddObservations(g, b, now), b)
<1> DEFINE h == AddObservations(g, b, now)
<1>1. /\ SameNames(g, h)
      /\ \A i \in DOMAIN g.entities :
            h.entities[i] = IF First(g, i) THEN Observed(g, g.entities[i], b, now)
                            ELSE g.entities[i]
  BY AddObservationsDoes
<1> HIDE DEF h
<1> SUFFICES ASSUME NEW i \in DOMAIN b
             PROVE  /\ HasEntity(h, b[i].entity)
                    /\ b[i].text \in Texts(EntityOf(h, b[i].entity))
  BY DEF Holds, h
<1> DEFINE n == b[i].entity
           e == EntityOf(g, n)
           k == EntityIndex(g, n)
           in == AddedTo(g, b, n)
           o == Observed(g, e, b, now)
<1>2. HasEntity(g, n)
  BY DEF ObservationsOK
<1>3. k \in DOMAIN g.entities /\ e = g.entities[k] /\ e \in Entity /\ e.name = n
  BY <1>2, Looking
<1>4. Named(h, n) = Named(g, n)
  BY <1>1 DEF Named, SameNames
<1>5. EntityOf(h, n) = o /\ HasEntity(h, n)
  BY <1>1, <1>2, <1>3, <1>4 DEF EntityOf, EntityIndex, First, HasEntity
<1>6. Texts(e) \subseteq Texts(o)
  BY <1>3, ObservedKeepsTexts
<1>7. \A a \in in : \E l \in DOMAIN o.facts : o.facts[l] = NewFact(b[a], now)
  BY <1>3, ObservedGains
<1> HIDE DEF o, k
<1>8. ASSUME b[i].text \notin Texts(e) PROVE b[i].text \in Texts(o)
  <2> DEFINE same == {j \in DOMAIN b : b[j].entity = n /\ b[j].text = b[i].text}
             j == Min(same)
  <2>1. Len(b) \in Nat /\ DOMAIN b = 1..Len(b) /\ \A a \in DOMAIN b : b[a] \in FactInput
    BY Rows
  <2>2. same \in SUBSET (1..Len(b)) /\ same # {}
    BY <2>1
  <2>3. same \subseteq DOMAIN b /\ \A a \in same : b[a].entity = n /\ b[a].text = b[i].text
    OBVIOUS
  <2>4. \A a \in DOMAIN b : b[a].entity = n /\ b[a].text = b[i].text => a \in same
    OBVIOUS
  <2> HIDE DEF same
  <2>5. j \in same /\ \A a \in same : j <= a
    BY <2>1, <2>2, FirstPlace
  <2> HIDE DEF j
  <2>6. j \in DOMAIN b /\ j \in Int /\ b[j].entity = n /\ b[j].text = b[i].text
    BY <2>1, <2>3, <2>5
  <2>7. ASSUME NEW a \in 1..(j - 1), b[a].entity = n PROVE b[a].text # b[i].text
    <3>1. a \in DOMAIN b /\ ~(j <= a)
      BY <2>1, <2>6
    <3> QED BY <2>4, <2>5, <2>7, <3>1
  <2>8. j \in in
    BY <1>8, <2>6, <2>7 DEF AddedTo
  <2>9. PICK l \in DOMAIN o.facts : o.facts[l] = NewFact(b[j], now)
    BY <1>7, <2>8
  <2>10. o.facts[l].text = b[i].text
    BY <2>1, <2>6, <2>9, NewFactTyped
  <2> QED BY <2>10 DEF Texts
<1> QED BY <1>5, <1>6, <1>8

-----------------------------------------------------------------------------
(* Loops                                                                   *)

\* A least number of a kind.
LEMMA LeastNumber ==
    ASSUME NEW K \in SUBSET Nat, NEW k \in K
    PROVE  \E n \in K : \A m \in K : n <= m
<1> DEFINE L == {n \in K : n <= k}
<1>2. IsFiniteSet(L)
  <2>1. IsFiniteSet(0..k)
    BY FS_Interval
  <2>2. k \in Nat /\ \A n \in L : n \in Nat /\ n <= k
    OBVIOUS
  <2> HIDE DEF L
  <2>3. L \subseteq 0..k
    BY <2>2
  <2> QED BY <2>1, <2>3, FS_Subset
<1> DEFINE f == [n \in L |-> n]
<1>3. L # {} /\ f \in [L -> Int]
  <2>0. k \in K /\ k \in Nat /\ k <= k
    OBVIOUS
  <2>1. k \in L
    BY <2>0
  <2>2. \A n \in L : n \in Int
    OBVIOUS
  <2> HIDE DEF L
  <2> QED BY <2>1, <2>2
<1> HIDE DEF f, L
<1>4. PICK n \in L : \A m \in L : f[n] <= f[m]
  BY <1>2, <1>3, LeastOne
<1>5. \A m \in L : n <= m
  BY <1>4 DEF f
<1>6. n \in K /\ n <= k
  BY DEF L
<1>7. \A m \in K : n <= m
  <2> TAKE m \in K
  <2>1. m \in Nat /\ n \in Nat /\ k \in Nat
    BY <1>6
  <2>2. CASE m <= k
    BY <2>2, <1>5 DEF L
  <2>3. CASE ~(m <= k)
    BY <2>1, <2>3, <1>6
  <2> QED BY <2>2, <2>3
<1> QED BY <1>6, <1>7

\* Two loops that start alike and go on alike end alike.
LEMMA SameRounds ==
    ASSUME NEW N \in Nat, NEW f, NEW h, f[0] = h[0],
           \A n \in 1..N : f[n - 1] = h[n - 1] => f[n] = h[n]
    PROVE  f[N] = h[N]
<1> DEFINE K == {n \in 0..N : f[n] # h[n]}
<1> SUFFICES ASSUME f[N] # h[N] PROVE FALSE
  OBVIOUS
<1>1. K \in SUBSET Nat /\ N \in K
  OBVIOUS
<1>2. PICK n \in K : \A m \in K : n <= m
  <2> HIDE DEF K
  <2> QED BY <1>1, LeastNumber
<1>3. n \in 0..N /\ f[n] # h[n] /\ n # 0
  <2>1. n \in 0..N /\ f[n] # h[n]
    BY <1>2
  <2> QED BY <2>1
<1>4. n \in 1..N /\ n - 1 \in 0..N /\ ~(n <= n - 1)
  BY <1>3
<1>5. f[n - 1] = h[n - 1]
  BY <1>2, <1>4
<1> QED BY <1>3, <1>4, <1>5

=============================================================================
