----------------------------- MODULE GraphProofs ------------------------------
(***************************************************************************)
(* What no sequence of calls can do to a graph, proved for every graph     *)
(* load_graph may find, every set of names, texts, types and instants and  *)
(* every argument of a tool: the invariants and the action properties of   *)
(* GraphProperties, from what GraphLemmas says of the operations.          *)
(***************************************************************************)
EXTENDS GraphProperties, GraphLemmas

-----------------------------------------------------------------------------
(* Types                                                                   *)

\* A call reads the clock at one of its readings.
LEMMA NowIsTime ==
    ASSUME NEW now \in Now
    PROVE  now \in Times
BY GraphAssumption

\* load_graph yields a graph.
LEMMA InitTyped == Init => TypeOK
BY ArgumentsTyped DEF Init, TypeOK

\* Every tool leaves a graph.
LEMMA StepTyped == TypeOK /\ [Next]_vars => TypeOK'
<1> SUFFICES ASSUME TypeOK, [Next]_vars PROVE TypeOK'
  OBVIOUS
<1>1. graph \in Graph
  BY DEF TypeOK
<1>2. CASE UNCHANGED vars
  BY <1>2 DEF TypeOK, vars
<1>3. ASSUME NEW now \in Now, Create(now) PROVE TypeOK'
  <2>1. PICK b \in EntityBatches : graph' = CreateEntities(graph, b, now)
    BY <1>3 DEF Create, Becomes
  <2>2. b \in Seq(Entity)
    BY ArgumentsTyped
  <2> QED BY <1>1, <1>3, <2>1, <2>2, NowIsTime, CreateEntitiesDoes DEF Create, Becomes, TypeOK
<1>4. ASSUME NEW now \in Now, Relate(now) PROVE TypeOK'
  <2>1. PICK b \in RelationBatches : graph' = CreateRelations(graph, b, now)
    BY <1>4 DEF Relate, Becomes
  <2>2. b \in Seq(Relation)
    BY ArgumentsTyped
  <2> QED BY <1>1, <1>4, <2>1, <2>2, NowIsTime, CreateRelationsDoes DEF Relate, Becomes, TypeOK
<1>5. ASSUME NEW now \in Now, Observe(now) PROVE TypeOK'
  BY <1>1, <1>5, NowIsTime, AddObservationsDoes, ArgumentsTyped DEF Observe, Becomes, TypeOK
<1>6. ASSUME NEW now \in Now, Edit(now) PROVE TypeOK'
  <2>1. PICK e \in Edits : /\ CanUpdate(graph, e[1], e[2])
                           /\ graph' = UpdateObservation(graph, e[1], e[2], e[3], now)
    BY <1>6 DEF Edit, Becomes
  <2>2. e[3] \in FactTexts
    BY ArgumentsTyped
  <2> QED BY <1>1, <1>6, <2>1, <2>2, NowIsTime, UpdateObservationDoes DEF Edit, Becomes, TypeOK
<1>7. ASSUME NEW now \in Now, Forget(now) PROVE TypeOK'
  BY <1>1, <1>7, NowIsTime, DeleteObservationsDoes DEF Forget, Becomes, TypeOK
<1>8. ASSUME NEW now \in Now, Delete(now) PROVE TypeOK'
  BY <1>1, <1>8, DeleteEntitiesDoes DEF Delete, Becomes, TypeOK
<1>9. ASSUME NEW now \in Now, Unrelate(now) PROVE TypeOK'
  BY <1>1, <1>9, DeleteRelationsDoes DEF Unrelate, Becomes, TypeOK
<1>10. ASSUME NEW now \in Now, Rename(now) PROVE TypeOK'
  BY <1>1, <1>10, NowIsTime, RenameDoes, ArgumentsTyped DEF Rename, Becomes, TypeOK
<1>11. ASSUME NEW now \in Now, Merge(now) PROVE TypeOK'
  BY <1>1, <1>11, NowIsTime, MergeDoes, ArgumentsTyped DEF Merge, Becomes, TypeOK
<1>12. ASSUME NEW now \in Now, Normalize(now) PROVE TypeOK'
  BY <1>1, <1>12, NowIsTime, NormalizeDoes DEF Normalize, Becomes, TypeOK
<1> QED
  BY <1>2, <1>3, <1>4, <1>5, <1>6, <1>7, <1>8, <1>9, <1>10, <1>11, <1>12 DEF Next

\* Whatever the tools are given, the graph in memory is one that a file can
\* hold and load_graph can read back.
THEOREM GraphTyped == Spec => []TypeOK
<1>1. Init => TypeOK
  BY InitTyped
<1>2. TypeOK /\ [Next]_vars => TypeOK'
  BY StepTyped
<1> QED BY <1>1, <1>2, PTL DEF Spec

-----------------------------------------------------------------------------
(* Relations and the entities they name                                    *)

\* A graph h has no dangling name that g has not, when each endpoint of h is
\* an endpoint of g or has an entity, and keeps the entity it had in g.
LEMMA NoMoreDangling ==
    ASSUME NEW g, NEW h,
           \A x \in Endpoints(h) : x \in Endpoints(g) \/ HasEntity(h, x),
           \A x \in Endpoints(h) : HasEntity(g, x) => HasEntity(h, x)
    PROVE  Dangling(h) \subseteq Dangling(g)
BY DEF Dangling

\* Endpoints and names, read off the rows.
LEMMA EndpointRows ==
    ASSUME NEW g, NEW x
    PROVE  x \in Endpoints(g) <=>
              \E i \in DOMAIN g.relations : x = g.relations[i].from \/ x = g.relations[i].to
BY DEF Endpoints, Range

\* A graph has an entity of a name when some row has the name.
LEMMA NameRows ==
    ASSUME NEW g, NEW x
    PROVE  HasEntity(g, x) <=> \E i \in DOMAIN g.entities : g.entities[i].name = x
BY DEF HasEntity, Named

\* What leaves names and relations alone leaves nothing new dangling.
LEMMA SameNamesSameDangling ==
    ASSUME NEW g, NEW h, SameNames(g, h), h.relations = g.relations
    PROVE  Dangling(h) \subseteq Dangling(g)
<1>1. \A x : HasEntity(g, x) <=> HasEntity(h, x)
  BY DEF SameNames, HasEntity, Named
<1>2. Endpoints(h) = Endpoints(g)
  BY DEF Endpoints
<1> QED BY <1>1, <1>2 DEF Dangling

\* A deletion takes the relations of what it deletes along.
LEMMA DeleteLeavesNoneDangling ==
    ASSUME NEW g \in Graph, NEW names
    PROVE  Dangling(DeleteEntities(g, names)) \subseteq Dangling(g)
<1> DEFINE h == DeleteEntities(g, names)
           K == {i \in DOMAIN g.entities : g.entities[i].name \notin names}
           L == {i \in DOMAIN g.relations :
                    {g.relations[i].from, g.relations[i].to} \cap names = {}}
<1>1. /\ h.entities = Retain(g.entities, K) /\ K \in SUBSET DOMAIN g.entities
      /\ h.relations = Retain(g.relations, L) /\ L \in SUBSET DOMAIN g.relations
  BY DeleteEntitiesDoes
<1>2. \A i \in L : g.relations[i].from \notin names /\ g.relations[i].to \notin names
  OBVIOUS
<1>3. \A i \in DOMAIN g.entities : g.entities[i].name \notin names => i \in K
  OBVIOUS
<1> HIDE DEF h, K, L
<1>4. /\ \A n \in DOMAIN h.entities : Nth(K, n) \in K /\ h.entities[n] = g.entities[Nth(K, n)]
      /\ \A i \in K : \E n \in DOMAIN h.entities : Nth(K, n) = i
  BY <1>1, RetainRows DEF Graph
<1>5. \A n \in DOMAIN h.relations : Nth(L, n) \in L /\ h.relations[n] = g.relations[Nth(L, n)]
  BY <1>1, RetainRows DEF Graph
<1>6. ASSUME NEW x \in Endpoints(h) PROVE x \in Endpoints(g) /\ x \notin names
  BY <1>1, <1>2, <1>5, EndpointRows
<1>7. ASSUME NEW x, x \notin names, HasEntity(g, x) PROVE HasEntity(h, x)
  <2>1. PICK i \in K : g.entities[i].name = x
    BY <1>3, <1>7, NameRows
  <2> QED BY <1>4, <2>1, NameRows
<1> QED BY <1>6, <1>7, NoMoreDangling DEF h

\* A rename re-points every relation to the new name, which has an entity.
LEMMA RenameLeavesNoneDangling ==
    ASSUME NEW g \in Graph, NEW n, NEW to \in Names, CanRename(g, n, to), NEW now \in Times
    PROVE  Dangling(RenameEntity(g, n, to, now)) \subseteq Dangling(g)
<1> DEFINE h == RenameEntity(g, n, to, now)
           k == EntityIndex(g, n)
<1>1. /\ k \in DOMAIN g.entities /\ g.entities[k].name = n
      /\ DOMAIN h.entities = DOMAIN g.entities
      /\ \A i \in DOMAIN g.entities : i # k => h.entities[i] = g.entities[i]
      /\ h.entities[k].name = to
      /\ DOMAIN h.relations = DOMAIN g.relations
      /\ \A i \in DOMAIN g.relations :
            /\ h.relations[i].from = Repoint(g.relations[i], n, to).from
            /\ h.relations[i].to = Repoint(g.relations[i], n, to).to
  BY RenameDoes
<1>2. \A i \in DOMAIN g.relations : g.relations[i] \in Relation
  BY Rows DEF Graph
<1> HIDE DEF h, k
<1>3. n # to
  BY DEF CanRename
<1>4. ASSUME NEW x \in Endpoints(h) PROVE x = to \/ (x \in Endpoints(g) /\ x # n)
  <2>1. PICK i \in DOMAIN g.relations : x = h.relations[i].from \/ x = h.relations[i].to
    BY <1>1, EndpointRows
  <2> QED BY <1>1, <1>2, <1>3, <2>1, EndpointRows, RepointTyped
<1>5. HasEntity(h, to)
  BY <1>1, NameRows
<1>6. ASSUME NEW x, x # n, HasEntity(g, x) PROVE HasEntity(h, x)
  BY <1>1, <1>6, NameRows
<1> QED BY <1>4, <1>5, <1>6, NoMoreDangling DEF h

\* A merge re-points every relation to the target, which stays.
LEMMA MergeLeavesNoneDangling ==
    ASSUME NEW g \in Graph, NEW source, NEW target \in Names,
           CanMerge(g, source, target), NEW now \in Times
    PROVE  Dangling(MergeEntities(g, source, target, now)) \subseteq Dangling(g)
<1> DEFINE h == MergeEntities(g, source, target, now)
           K == Others(g, source)
<1>1. /\ \A n \in DOMAIN h.entities :
            Nth(K, n) \in K /\ h.entities[n].name = g.entities[Nth(K, n)].name
      /\ \A i \in K : \E n \in DOMAIN h.entities : Nth(K, n) = i
      /\ \A n \in DOMAIN h.relations : \E i \in DOMAIN g.relations :
            h.relations[n] = Repoint(g.relations[i], source, target)
  BY MergeDoes
<1>2. \A i \in DOMAIN g.relations : g.relations[i] \in Relation
  BY Rows DEF Graph
<1>3. \A i \in DOMAIN g.entities : g.entities[i].name # source => i \in K
  BY DEF Others
<1> HIDE DEF h, K
<1>4. source # target /\ HasEntity(g, target)
  BY DEF CanMerge
<1>5. ASSUME NEW x \in Endpoints(h) PROVE x = target \/ (x \in Endpoints(g) /\ x # source)
  <2>1. PICK n \in DOMAIN h.relations : x = h.relations[n].from \/ x = h.relations[n].to
    BY EndpointRows
  <2>2. PICK i \in DOMAIN g.relations : h.relations[n] = Repoint(g.relations[i], source, target)
    BY <1>1
  <2> QED BY <1>2, <1>4, <2>1, <2>2, EndpointRows, RepointTyped
<1>6. ASSUME NEW x, x # source, HasEntity(g, x) PROVE HasEntity(h, x)
  <2>1. PICK i \in K : g.entities[i].name = x
    BY <1>3, <1>6, NameRows
  <2> QED BY <1>1, <2>1, NameRows
<1> QED BY <1>4, <1>5, <1>6, NoMoreDangling DEF h

\* Of the tools, only create_relations leaves anything new dangling.
LEMMA StepLeavesNoneDangling ==
    ASSUME TypeOK, [Next]_vars
    PROVE  \/ Dangling(graph') \subseteq Dangling(graph)
           \/ \E b \in RelationBatches : graph' = CreateRelations(graph, b, clock')
<1> DEFINE P == Dangling(graph') \subseteq Dangling(graph)
           Q == \E b \in RelationBatches : graph' = CreateRelations(graph, b, clock')
<1>1. graph \in Graph
  BY DEF TypeOK
<1>2. ASSUME UNCHANGED vars PROVE P
  BY <1>2 DEF vars
<1>3. ASSUME NEW now \in Now, Create(now) PROVE P
  <2>1. PICK b \in EntityBatches : graph' = CreateEntities(graph, b, now)
    BY <1>3 DEF Create, Becomes
  <2>2. b \in Seq(Entity)
    BY ArgumentsTyped
  <2>3. /\ graph'.relations = graph.relations
        /\ DOMAIN graph.entities \subseteq DOMAIN graph'.entities
        /\ \A i \in DOMAIN graph.entities : graph'.entities[i] = graph.entities[i]
    BY <1>1, <2>1, <2>2, NowIsTime, CreateEntitiesDoes
  <2>4. \A x \in Endpoints(graph') : HasEntity(graph, x) => HasEntity(graph', x)
    BY <2>3, NameRows
  <2>5. Endpoints(graph') = Endpoints(graph)
    BY <2>3 DEF Endpoints
  <2> QED BY <2>4, <2>5, NoMoreDangling
<1>4. ASSUME NEW now \in Now, Relate(now) PROVE Q
  BY <1>4 DEF Relate, Becomes
<1>5. ASSUME NEW now \in Now, Observe(now) PROVE P
  <2>1. PICK b \in ObservationBatches : graph' = AddObservations(graph, b, now)
    BY <1>5 DEF Observe, Becomes
  <2>2. graph'.relations = graph.relations /\ SameNames(graph, graph')
    BY <1>1, <2>1, NowIsTime, AddObservationsDoes, ArgumentsTyped
  <2> QED BY <2>2, SameNamesSameDangling
<1>6. ASSUME NEW now \in Now, Edit(now) PROVE P
  <2>1. PICK e \in Edits : /\ CanUpdate(graph, e[1], e[2])
                           /\ graph' = UpdateObservation(graph, e[1], e[2], e[3], now)
    BY <1>6 DEF Edit, Becomes
  <2>2. e[3] \in FactTexts
    BY ArgumentsTyped
  <2>3. now \in Times
    BY NowIsTime
  <2> DEFINE h == UpdateObservation(graph, e[1], e[2], e[3], now)
  <2> HIDE DEF P, Q
  <2>4. h.relations = graph.relations /\ SameNames(graph, h)
    BY <1>1, <2>1, <2>2, <2>3, UpdateObservationDoes
  <2> QED BY <2>1, <2>4, SameNamesSameDangling DEF P
<1>7. ASSUME NEW now \in Now, Forget(now) PROVE P
  <2>1. PICK d \in FactDeletions : graph' = DeleteObservations(graph, d, now)
    BY <1>7 DEF Forget, Becomes
  <2>2. graph'.relations = graph.relations /\ SameNames(graph, graph')
    BY <1>1, <2>1, NowIsTime, DeleteObservationsDoes
  <2> QED BY <2>2, SameNamesSameDangling
<1>8. ASSUME NEW now \in Now, Delete(now) PROVE P
  BY <1>1, <1>8, DeleteLeavesNoneDangling DEF Delete, Becomes
<1>9. ASSUME NEW now \in Now, Unrelate(now) PROVE P
  <2>1. PICK keys \in RelationDeletions : graph' = DeleteRelations(graph, keys)
    BY <1>9 DEF Unrelate, Becomes
  <2> DEFINE L == {i \in DOMAIN graph.relations : Key(graph.relations[i]) \notin keys}
  <2>2. /\ graph'.entities = graph.entities
        /\ graph'.relations = Retain(graph.relations, L) /\ L \in SUBSET DOMAIN graph.relations
    BY <1>1, <2>1, DeleteRelationsDoes
  <2> HIDE DEF L
  <2>3. \A n \in DOMAIN graph'.relations :
           Nth(L, n) \in L /\ graph'.relations[n] = graph.relations[Nth(L, n)]
    BY <1>1, <2>2, RetainRows DEF Graph
  <2>4. \A x \in Endpoints(graph') : x \in Endpoints(graph)
    BY <2>2, <2>3, EndpointRows
  <2>5. \A x : HasEntity(graph, x) => HasEntity(graph', x)
    BY <2>2, NameRows
  <2> QED BY <2>4, <2>5, NoMoreDangling
<1>10. ASSUME NEW now \in Now, Rename(now) PROVE P
  <2>1. PICK m \in Moves : /\ CanRename(graph, m[1], m[2])
                           /\ graph' = RenameEntity(graph, m[1], m[2], now)
    BY <1>10 DEF Rename, Becomes
  <2>2. m[2] \in Names
    BY ArgumentsTyped
  <2> QED BY <1>1, <2>1, <2>2, NowIsTime, RenameLeavesNoneDangling
<1>11. ASSUME NEW now \in Now, Merge(now) PROVE P
  <2>1. PICK m \in Moves : /\ CanMerge(graph, m[1], m[2])
                           /\ graph' = MergeEntities(graph, m[1], m[2], now)
    BY <1>11 DEF Merge, Becomes
  <2>2. m[2] \in Names
    BY ArgumentsTyped
  <2> QED BY <1>1, <2>1, <2>2, NowIsTime, MergeLeavesNoneDangling
<1>12. ASSUME NEW now \in Now, Normalize(now) PROVE P
  <2>1. graph' = NormalizeAll(graph, now)
    BY <1>12 DEF Normalize, Becomes
  <2>2. graph'.relations = graph.relations /\ SameNames(graph, graph')
    BY <1>1, <2>1, NowIsTime, NormalizeDoes
  <2> QED BY <2>2, SameNamesSameDangling
<1> HIDE DEF P, Q
<1>13. P \/ Q
  BY <1>2, <1>3, <1>4, <1>5, <1>6, <1>7, <1>8, <1>9, <1>10, <1>11, <1>12 DEF Next
<1> QED BY <1>13 DEF P, Q

\* Deletes, renames and merges leave no relation pointing at an entity that
\* they took away, however many entities share a name: only create_relations,
\* which does not look at the entities, may do so.
THEOREM RelationsFollow == Spec => NoNewDangling
<1>1. TypeOK /\ [Next]_vars =>
        [ \/ Dangling(graph') \subseteq Dangling(graph)
          \/ \E b \in RelationBatches : graph' = CreateRelations(graph, b, clock') ]_vars
  BY StepLeavesNoneDangling
<1> QED BY <1>1, GraphTyped, PTL DEF Spec, NoNewDangling

-----------------------------------------------------------------------------
(* Names                                                                   *)

\* No file and no create_entities call names an entity twice.
NamedOnce == /\ \A g \in InitialGraphs : Distinct(g.entities, LAMBDA e : e.name)
             /\ \A b \in EntityBatches : Distinct(b, LAMBDA e : e.name)

OneOfAName(g) == Distinct(g.entities, LAMBDA e : e.name)

\* Rows that keep their names keep them apart.
LEMMA SameNamesStayApart ==
    ASSUME NEW g, NEW h, SameNames(g, h), OneOfAName(g)
    PROVE  OneOfAName(h)
BY DEF SameNames, OneOfAName, Distinct

\* The rows of h are some of the rows of g, each once, under their names.
LEMMA FewerStayApart ==
    ASSUME NEW g, NEW h, NEW f, OneOfAName(g),
           \A n \in DOMAIN h.entities : /\ f[n] \in DOMAIN g.entities
                                       /\ h.entities[n].name = g.entities[f[n]].name,
           \A n, k \in DOMAIN h.entities : f[n] = f[k] => n = k
    PROVE  OneOfAName(h)
BY DEF OneOfAName, Distinct

\* New names are not taken, and differ when the batch's do.
LEMMA CreateKeepsNamesApart ==
    ASSUME NEW g \in Graph, OneOfAName(g), NEW b \in Seq(Entity),
           Distinct(b, LAMBDA e : e.name), NEW now \in Times
    PROVE  OneOfAName(CreateEntities(g, b, now))
<1> DEFINE h == CreateEntities(g, b, now)
           Old == DOMAIN g.entities
<1>1. /\ \A i \in Old : h.entities[i] = g.entities[i]
      /\ \A i \in DOMAIN h.entities \ Old :
            FromBatch(g, b, h.entities[i])
      /\ \A i, j \in DOMAIN h.entities \ Old : h.entities[i].name = h.entities[j].name => i = j
  BY CreateEntitiesDoes
<1> HIDE DEF h
<1>2. \A i \in DOMAIN h.entities \ Old, j \in Old : h.entities[i].name # g.entities[j].name
  BY <1>1, NameRows DEF FromBatch
<1>3. ASSUME NEW i \in DOMAIN h.entities, NEW j \in DOMAIN h.entities,
             h.entities[i].name = h.entities[j].name
      PROVE  i = j
  <2>1. CASE i \in Old /\ j \in Old
    BY <1>1, <1>3, <2>1 DEF OneOfAName, Distinct
  <2>2. CASE i \notin Old /\ j \notin Old
    BY <1>1, <1>3, <2>2
  <2> QED BY <1>1, <1>2, <1>3, <2>1, <2>2
<1> QED BY <1>3 DEF OneOfAName, Distinct, h

\* The name an entity gets is not taken.
LEMMA RenameKeepsNamesApart ==
    ASSUME NEW g \in Graph, OneOfAName(g), NEW n, NEW to \in Names,
           CanRename(g, n, to), NEW now \in Times
    PROVE  OneOfAName(RenameEntity(g, n, to, now))
<1> DEFINE h == RenameEntity(g, n, to, now)
           k == EntityIndex(g, n)
<1>1. /\ k \in DOMAIN g.entities
      /\ DOMAIN h.entities = DOMAIN g.entities
      /\ \A i \in DOMAIN g.entities : i # k => h.entities[i] = g.entities[i]
      /\ h.entities[k].name = to
  BY RenameDoes
<1> HIDE DEF h, k
<1>2. \A i \in DOMAIN g.entities : g.entities[i].name # to
  BY NameRows DEF CanRename
<1> QED BY <1>1, <1>2 DEF OneOfAName, Distinct, h

\* Some of the rows have some of the names.
LEMMA RowsKeepNamesApart ==
    ASSUME NEW g \in Graph, OneOfAName(g), NEW K \in SUBSET DOMAIN g.entities,
           NEW h, h.entities = Retain(g.entities, K)
    PROVE  OneOfAName(h)
<1>1. /\ \A n \in DOMAIN h.entities : Nth(K, n) \in K /\ h.entities[n] = g.entities[Nth(K, n)]
      /\ \A n, k \in DOMAIN h.entities : Nth(K, n) = Nth(K, k) => n = k
  BY RetainRows DEF Graph
<1>2. \A n \in DOMAIN h.entities : Nth(K, n) \in DOMAIN g.entities
  BY <1>1
<1> QED BY <1>1, <1>2 DEF OneOfAName, Distinct

\* A merge leaves some of the rows under their names.
LEMMA MergeKeepsNamesApart ==
    ASSUME NEW g \in Graph, OneOfAName(g), NEW source, NEW target \in Names,
           CanMerge(g, source, target), NEW now \in Times
    PROVE  OneOfAName(MergeEntities(g, source, target, now))
<1> DEFINE h == MergeEntities(g, source, target, now)
           K == Others(g, source)
<1>1. /\ \A n \in DOMAIN h.entities :
            Nth(K, n) \in K /\ h.entities[n].name = g.entities[Nth(K, n)].name
      /\ \A n, k \in DOMAIN h.entities : Nth(K, n) = Nth(K, k) => n = k
  BY MergeDoes
<1>2. \A i \in K : i \in DOMAIN g.entities
  BY DEF Others
<1> HIDE DEF h, K
<1> QED BY <1>1, <1>2 DEF OneOfAName, Distinct, h

\* No tool gives two rows one name.
LEMMA StepKeepsNamesApart ==
    ASSUME NamedOnce, TypeOK, OneOfAName(graph), [Next]_vars
    PROVE  OneOfAName(graph')
<1>1. graph \in Graph
  BY DEF TypeOK
<1>2. CASE UNCHANGED vars
  BY <1>2 DEF vars
<1>3. ASSUME NEW now \in Now, Create(now) PROVE OneOfAName(graph')
  <2>1. PICK b \in EntityBatches : graph' = CreateEntities(graph, b, now)
    BY <1>3 DEF Create, Becomes
  <2>2. b \in Seq(Entity) /\ Distinct(b, LAMBDA e : e.name)
    BY ArgumentsTyped DEF NamedOnce
  <2> QED BY <1>1, <2>1, <2>2, NowIsTime, CreateKeepsNamesApart
<1>4. ASSUME NEW now \in Now, Relate(now) PROVE OneOfAName(graph')
  <2>1. PICK b \in RelationBatches : graph' = CreateRelations(graph, b, now)
    BY <1>4 DEF Relate, Becomes
  <2>2. graph'.entities = graph.entities
    BY <1>1, <2>1, NowIsTime, CreateRelationsDoes, ArgumentsTyped
  <2> QED BY <2>2 DEF OneOfAName
<1>5. ASSUME NEW now \in Now, Observe(now) PROVE OneOfAName(graph')
  <2>1. PICK b \in ObservationBatches : graph' = AddObservations(graph, b, now)
    BY <1>5 DEF Observe, Becomes
  <2>2. SameNames(graph, graph')
    BY <1>1, <2>1, NowIsTime, AddObservationsDoes, ArgumentsTyped
  <2> QED BY <2>2, SameNamesStayApart
<1>6. ASSUME NEW now \in Now, Edit(now) PROVE OneOfAName(graph')
  <2>1. PICK e \in Edits : /\ CanUpdate(graph, e[1], e[2])
                           /\ graph' = UpdateObservation(graph, e[1], e[2], e[3], now)
    BY <1>6 DEF Edit, Becomes
  <2>2. e[3] \in FactTexts
    BY ArgumentsTyped
  <2>3. SameNames(graph, graph')
    BY <1>1, <2>1, <2>2, NowIsTime, UpdateObservationDoes
  <2> QED BY <2>3, SameNamesStayApart
<1>7. ASSUME NEW now \in Now, Forget(now) PROVE OneOfAName(graph')
  <2>1. PICK d \in FactDeletions : graph' = DeleteObservations(graph, d, now)
    BY <1>7 DEF Forget, Becomes
  <2>2. SameNames(graph, graph')
    BY <1>1, <2>1, NowIsTime, DeleteObservationsDoes
  <2> QED BY <2>2, SameNamesStayApart
<1>8. ASSUME NEW now \in Now, Delete(now) PROVE OneOfAName(graph')
  <2>1. PICK names \in EntityDeletions : graph' = DeleteEntities(graph, names)
    BY <1>8 DEF Delete, Becomes
  <2> DEFINE K == {i \in DOMAIN graph.entities : graph.entities[i].name \notin names}
  <2>2. graph'.entities = Retain(graph.entities, K) /\ K \in SUBSET DOMAIN graph.entities
    BY <1>1, <2>1, DeleteEntitiesDoes
  <2> HIDE DEF K
  <2> QED BY <1>1, <2>2, RowsKeepNamesApart
<1>9. ASSUME NEW now \in Now, Unrelate(now) PROVE OneOfAName(graph')
  <2>1. PICK keys \in RelationDeletions : graph' = DeleteRelations(graph, keys)
    BY <1>9 DEF Unrelate, Becomes
  <2>2. graph'.entities = graph.entities
    BY <1>1, <2>1, DeleteRelationsDoes
  <2> QED BY <2>2 DEF OneOfAName
<1>10. ASSUME NEW now \in Now, Rename(now) PROVE OneOfAName(graph')
  <2>1. PICK m \in Moves : /\ CanRename(graph, m[1], m[2])
                           /\ graph' = RenameEntity(graph, m[1], m[2], now)
    BY <1>10 DEF Rename, Becomes
  <2>2. m[2] \in Names
    BY ArgumentsTyped
  <2> QED BY <1>1, <2>1, <2>2, NowIsTime, RenameKeepsNamesApart
<1>11. ASSUME NEW now \in Now, Merge(now) PROVE OneOfAName(graph')
  <2>1. PICK m \in Moves : /\ CanMerge(graph, m[1], m[2])
                           /\ graph' = MergeEntities(graph, m[1], m[2], now)
    BY <1>11 DEF Merge, Becomes
  <2>2. m[2] \in Names
    BY ArgumentsTyped
  <2> QED BY <1>1, <2>1, <2>2, NowIsTime, MergeKeepsNamesApart
<1>12. ASSUME NEW now \in Now, Normalize(now) PROVE OneOfAName(graph')
  <2>1. graph' = NormalizeAll(graph, now)
    BY <1>12 DEF Normalize, Becomes
  <2>2. SameNames(graph, graph')
    BY <1>1, <2>1, NowIsTime, NormalizeDoes
  <2> QED BY <2>2, SameNamesStayApart
<1> QED
  BY <1>2, <1>3, <1>4, <1>5, <1>6, <1>7, <1>8, <1>9, <1>10, <1>11, <1>12 DEF Next

\* When no file and no call names an entity twice, no sequence of creations,
\* renames and merges yields two entities with one name.
THEOREM NamesIdentify == ASSUME NamedOnce PROVE Spec => []UniqueNames
<1>1. Init => UniqueNames
  BY DEF Init, UniqueNames, NamedOnce
<1>2. TypeOK /\ UniqueNames /\ [Next]_vars => UniqueNames'
  <2>1. UniqueNames <=> OneOfAName(graph)
    BY DEF UniqueNames, OneOfAName, Distinct
  <2>2. UniqueNames' <=> OneOfAName(graph')
    BY DEF UniqueNames, OneOfAName, Distinct
  <2> QED BY <2>1, <2>2, StepKeepsNamesApart
<1> QED BY <1>1, <1>2, GraphTyped, PTL DEF Spec

-----------------------------------------------------------------------------
(* Facts                                                                   *)

\* What add_observations leaves of one entity it looks at: e as it was, o as
\* it is.
OnlyClosed(e, o) ==
    LET added == (Len(e.facts) + 1)..Len(o.facts)
    IN /\ Len(e.facts) <= Len(o.facts)
       /\ \A k \in DOMAIN e.facts :
             \/ o.facts[k] = e.facts[k]
             \/ /\ IsActive(e.facts[k])
                /\ \E a \in added : o.facts[k] = [e.facts[k] EXCEPT !.to = o.facts[a].from]
       /\ \A a \in added, k \in DOMAIN o.facts : o.facts[a].text = o.facts[k].text => a = k

\* An entity that is left alone.
LEMMA UntouchedIsOnlyClosed ==
    ASSUME NEW e \in Entity
    PROVE  OnlyClosed(e, e)
<1>1. Len(e.facts) \in Nat
  BY Rows DEF Entity
<1>2. (Len(e.facts) + 1)..Len(e.facts) = {}
  BY <1>1
<1> QED BY <1>1, <1>2 DEF OnlyClosed

\* An entity whose facts are added to: only an active fact is changed, by a
\* supersede that the validation let through.
LEMMA ObservedIsOnlyClosed ==
    ASSUME NEW g \in Graph, NEW e \in Entity, HasEntity(g, e.name), e = EntityOf(g, e.name),
           NEW b \in Seq(FactInput), ObservationsOK(g, b), NEW now \in Times
    PROVE  OnlyClosed(e, Observed(g, e, b, now))
<1> DEFINE o == Observed(g, e, b, now)
           in == AddedTo(g, b, e.name)
           added == (Len(e.facts) + 1)..Len(o.facts)
<1>1. /\ o \in Entity /\ o.name = e.name
      /\ Len(e.facts) <= Len(o.facts)
      /\ DOMAIN e.facts \subseteq DOMAIN o.facts
      /\ \A k \in DOMAIN e.facts :
            \/ o.facts[k] = e.facts[k] /\ ~\E a \in in :
                  b[a].supersedes = e.facts[k].text /\ TextIndex(e, e.facts[k].text) = k
            \/ \E a \in in :
                  /\ b[a].supersedes = e.facts[k].text
                  /\ TextIndex(e, e.facts[k].text) = k
                  /\ o.facts[k] = [e.facts[k] EXCEPT !.to = NewFact(b[a], now).from]
      /\ \A k \in DOMAIN e.facts : o.facts[k].text = e.facts[k].text
      /\ \A k \in DOMAIN o.facts \ DOMAIN e.facts :
            \E a \in in : o.facts[k] = NewFact(b[a], now) /\ b[a].text \notin Texts(e)
      /\ \A a \in in :
            \E k \in DOMAIN o.facts \ DOMAIN e.facts : o.facts[k] = NewFact(b[a], now)
      /\ \A k, l \in DOMAIN o.facts \ DOMAIN e.facts :
            o.facts[k].text = o.facts[l].text => k = l
  BY Zenon, ObservedDoes
<1> HIDE DEF o
<1>2. /\ Len(e.facts) \in Nat /\ DOMAIN e.facts = 1..Len(e.facts)
      /\ Len(o.facts) \in Nat /\ DOMAIN o.facts = 1..Len(o.facts)
      /\ \A k \in DOMAIN e.facts : e.facts[k] \in Fact
  BY <1>1, Rows DEF Entity
<1>3. added = DOMAIN o.facts \ DOMAIN e.facts
  BY <1>1, <1>2
<1>4. \A a \in in : /\ a \in DOMAIN b /\ b[a] \in FactInput /\ b[a].entity = e.name
                    /\ b[a].text \notin Texts(EntityOf(g, b[a].entity))
  BY Rows DEF AddedTo
<1> HIDE DEF in, added
<1>5. ASSUME NEW k \in DOMAIN e.facts, o.facts[k] # e.facts[k]
      PROVE  /\ IsActive(e.facts[k])
             /\ \E a \in added : o.facts[k] = [e.facts[k] EXCEPT !.to = o.facts[a].from]
  <2>1. PICK a \in in : /\ b[a].supersedes = e.facts[k].text
                        /\ TextIndex(e, e.facts[k].text) = k
                        /\ o.facts[k] = [e.facts[k] EXCEPT !.to = NewFact(b[a], now).from]
    BY <1>1, <1>5
  <2>2. e.facts[k].text \in FactTexts
    BY <1>2 DEF Fact
  <2>3. a \in Supersedes(g, b)
    BY <1>4, <2>1, <2>2, TypesAssumption DEF Supersedes
  <2>4. IsActive(FactOf(EntityOf(g, b[a].entity), b[a].supersedes))
    BY <2>3 DEF ObservationsOK
  <2>5. FactOf(EntityOf(g, b[a].entity), b[a].supersedes) = e.facts[k]
    BY <1>4, <2>1 DEF FactOf
  <2>6. PICK l \in added : o.facts[l] = NewFact(b[a], now)
    BY <1>1, <1>3
  <2> QED BY <2>1, <2>4, <2>5, <2>6
<1>6. ASSUME NEW a \in added, NEW k \in DOMAIN o.facts, o.facts[a].text = o.facts[k].text
      PROVE  a = k
  <2>1. CASE k \notin DOMAIN e.facts
    BY <1>1, <1>3, <1>6, <2>1
  <2>2. CASE k \in DOMAIN e.facts
    <3>1. o.facts[k].text \in Texts(e)
      BY <1>1, <2>2 DEF Texts
    <3>2. PICK l \in in : o.facts[a] = NewFact(b[l], now) /\ b[l].text \notin Texts(e)
      BY <1>1, <1>3
    <3>3. o.facts[a].text = b[l].text
      BY <1>4, <3>2, NewFactTyped
    <3> QED BY <1>6, <3>1, <3>2, <3>3
  <2> QED BY <2>1, <2>2
<1> QED BY <1>1, <1>5, <1>6 DEF OnlyClosed, o, added

\* add_observations keeps every stored fact in its place, whatever else is in
\* the call: it only closes an active one, when a new one of the same entity
\* begins.
THEOREM StorageAppendsOnly == Spec => []AddObservationsOnlyCloses
<1>1. TypeOK => AddObservationsOnlyCloses
  <2> SUFFICES ASSUME TypeOK, NEW b \in ObservationBatches, ObservationsOK(graph, b),
                      NEW i \in DOMAIN graph.entities
               PROVE  OnlyClosed(graph.entities[i], AddObservations(graph, b, clock).entities[i])
    BY DEF AddObservationsOnlyCloses, OnlyClosed
  <2> DEFINE e == graph.entities[i]
  <2>1. graph \in Graph /\ clock \in Times
    BY NowIsTime DEF TypeOK
  <2>2. b \in Seq(FactInput)
    BY ArgumentsTyped
  <2>3. e \in Entity /\ HasEntity(graph, e.name)
    BY <2>1, FirstRow
  <2>4. CASE First(graph, i)
    <3>1. e = EntityOf(graph, e.name)
      BY <2>1, <2>4, FirstRow
    <3>2. AddObservations(graph, b, clock).entities[i] = Observed(graph, e, b, clock)
      BY <2>1, <2>2, <2>4, AddObservationsDoes
    <3> QED BY <2>1, <2>2, <2>3, <3>1, <3>2, ObservedIsOnlyClosed
  <2>5. CASE ~First(graph, i)
    <3>1. AddObservations(graph, b, clock).entities[i] = e
      BY <2>1, <2>2, <2>5, AddObservationsDoes
    <3> QED BY <2>3, <3>1, UntouchedIsOnlyClosed
  <2> QED BY <2>4, <2>5
<1> QED BY <1>1, GraphTyped, PTL

\* What was the first fact with its text still is, once facts are added behind.
LEMMA FirstFactStays ==
    ASSUME NEW e \in Entity, NEW o \in Entity, DOMAIN e.facts \subseteq DOMAIN o.facts,
           \A k \in DOMAIN e.facts : o.facts[k].text = e.facts[k].text,
           NEW x \in Texts(e)
    PROVE  TextIndex(o, x) = TextIndex(e, x)
<1>1. /\ TextIndex(e, x) \in DOMAIN e.facts /\ e.facts[TextIndex(e, x)].text = x
      /\ \A k \in DOMAIN e.facts : e.facts[k].text = x => TextIndex(e, x) <= k
  BY TextFound
<1>2. x \in Texts(o)
  BY <1>1 DEF Texts
<1>3. /\ TextIndex(o, x) \in DOMAIN o.facts /\ o.facts[TextIndex(o, x)].text = x
      /\ \A k \in DOMAIN o.facts : o.facts[k].text = x => TextIndex(o, x) <= k
  BY <1>2, TextFound
<1>4. /\ Len(e.facts) \in Nat /\ DOMAIN e.facts = 1..Len(e.facts)
      /\ Len(o.facts) \in Nat /\ DOMAIN o.facts = 1..Len(o.facts)
  BY Rows DEF Entity
<1>5. TextIndex(o, x) <= TextIndex(e, x)
  BY <1>1, <1>3
<1>6. TextIndex(o, x) \in DOMAIN e.facts
  BY <1>1, <1>3, <1>4, <1>5
<1>7. TextIndex(e, x) <= TextIndex(o, x)
  BY <1>1, <1>3, <1>6
<1> QED BY <1>1, <1>3, <1>4, <1>5, <1>7

\* The fact that an added input supersedes ends where the new one begins: the
\* validation let no other input supersede it.
LEMMA SupersededIsClosed ==
    ASSUME NEW g \in Graph, NEW e \in Entity, e = EntityOf(g, e.name),
           NEW b \in Seq(FactInput), ObservationsOK(g, b), NEW now \in Times,
           NEW i \in Supersedes(g, b), b[i].entity = e.name,
           i \in AddedTo(g, b, e.name)
    PROVE  LET o == Observed(g, e, b, now)
           IN FactOf(o, b[i].supersedes).to = FactOf(o, b[i].text).from
<1> DEFINE o == Observed(g, e, b, now)
           in == AddedTo(g, b, e.name)
           x == b[i].supersedes
           k == TextIndex(e, x)
<1>1. /\ o \in Entity /\ o.name = e.name
      /\ Len(e.facts) <= Len(o.facts)
      /\ DOMAIN e.facts \subseteq DOMAIN o.facts
      /\ \A l \in DOMAIN e.facts :
            \/ o.facts[l] = e.facts[l] /\ ~\E a \in in :
                  b[a].supersedes = e.facts[l].text /\ TextIndex(e, e.facts[l].text) = l
            \/ \E a \in in :
                  /\ b[a].supersedes = e.facts[l].text
                  /\ TextIndex(e, e.facts[l].text) = l
                  /\ o.facts[l] = [e.facts[l] EXCEPT !.to = NewFact(b[a], now).from]
      /\ \A l \in DOMAIN e.facts : o.facts[l].text = e.facts[l].text
      /\ \A l \in DOMAIN o.facts \ DOMAIN e.facts :
            \E a \in in : o.facts[l] = NewFact(b[a], now) /\ b[a].text \notin Texts(e)
      /\ \A a \in in :
            \E l \in DOMAIN o.facts \ DOMAIN e.facts : o.facts[l] = NewFact(b[a], now)
      /\ \A l, m \in DOMAIN o.facts \ DOMAIN e.facts :
            o.facts[l].text = o.facts[m].text => l = m
  BY Zenon, ObservedDoes
<1>2. i \in in /\ \A a \in in : /\ a \in DOMAIN b /\ b[a] \in FactInput
                                /\ b[a].entity = e.name /\ b[a].text \notin Texts(e)
  BY Rows DEF AddedTo
<1> HIDE DEF o, in
<1>3. x \in Texts(e)
  BY DEF ObservationsOK
<1>4. k \in DOMAIN e.facts /\ e.facts[k].text = x /\ e.facts[k] \in Fact
  BY <1>3, TextFound, Rows DEF Entity
<1>5. ASSUME NEW a \in in, b[a].supersedes = x PROVE a = i
  <2>1. x # None
    BY DEF Supersedes
  <2>2. a \in Supersedes(g, b)
    BY <1>2, <1>5, <2>1 DEF Supersedes
  <2> QED BY <1>2, <1>5, <2>2 DEF ObservationsOK
<1>6. \E a \in in : /\ b[a].supersedes = x
                    /\ o.facts[k] = [e.facts[k] EXCEPT !.to = NewFact(b[a], now).from]
  <2>1. b[i].supersedes = e.facts[k].text /\ TextIndex(e, e.facts[k].text) = k
    BY <1>4
  <2>2. \E a \in in : b[a].supersedes = e.facts[k].text /\ TextIndex(e, e.facts[k].text) = k
    BY <1>2, <2>1
  <2> HIDE DEF k, x
  <2>3. \E a \in in : /\ b[a].supersedes = e.facts[k].text
                      /\ TextIndex(e, e.facts[k].text) = k
                      /\ o.facts[k] = [e.facts[k] EXCEPT !.to = NewFact(b[a], now).from]
    BY Zenon, <1>1, <1>4, <2>2
  <2> QED BY <1>4, <2>3
<1>7. o.facts[k].to = NewFact(b[i], now).from
  BY <1>4, <1>5, <1>6 DEF Fact
<1>8. TextIndex(o, x) = k
  BY <1>1, <1>3, FirstFactStays
<1>9. PICK l \in DOMAIN o.facts \ DOMAIN e.facts : o.facts[l] = NewFact(b[i], now)
  BY <1>1, <1>2
<1>10. o.facts[l].text = b[i].text
  BY <1>2, <1>9, NewFactTyped
<1> DEFINE m == TextIndex(o, b[i].text)
<1>11. m \in DOMAIN o.facts /\ o.facts[m].text = b[i].text
  BY <1>1, <1>9, <1>10, TextFound DEF Texts
<1>12. m \notin DOMAIN e.facts
  <2> HIDE DEF m
  <2> SUFFICES ASSUME m \in DOMAIN e.facts PROVE FALSE
    OBVIOUS
  <2>1. e.facts[m].text = b[i].text
    BY <1>1, <1>11
  <2>2. b[i].text \in Texts(e)
    BY <2>1 DEF Texts
  <2> QED BY <1>2, <2>2
<1>13. m = l
  BY <1>1, <1>9, <1>10, <1>11, <1>12
<1> QED BY <1>7, <1>8, <1>9, <1>13 DEF FactOf, o

\* An accepted add_observations call closes each fact it names, when its
\* successor begins, unless the successor's text came earlier in the call.
THEOREM SuccessionTakesPlace == Spec => []SupersedesApplied
<1>1. TypeOK => SupersedesApplied
  <2> SUFFICES ASSUME TypeOK, NEW b \in ObservationBatches, ObservationsOK(graph, b),
                      NEW i \in Supersedes(graph, b),
                      \A j \in 1..(i - 1) : b[j].entity = b[i].entity => b[j].text # b[i].text
               PROVE  LET e == EntityOf(AddObservations(graph, b, clock), b[i].entity)
                      IN FactOf(e, b[i].supersedes).to = FactOf(e, b[i].text).from
    BY DEF SupersedesApplied
  <2> DEFINE h == AddObservations(graph, b, clock)
             n == b[i].entity
             k == EntityIndex(graph, n)
             e == EntityOf(graph, n)
  <2>1. graph \in Graph /\ clock \in Times
    BY NowIsTime DEF TypeOK
  <2>2. b \in Seq(FactInput)
    BY ArgumentsTyped
  <2>3. i \in DOMAIN b /\ b[i].text \notin Texts(e) /\ HasEntity(graph, n)
    BY DEF Supersedes, ObservationsOK
  <2>4. /\ k \in DOMAIN graph.entities /\ e = graph.entities[k]
        /\ e \in Entity /\ e.name = n
    BY <2>1, <2>3, Looking
  <2>5. i \in AddedTo(graph, b, e.name)
    BY <2>3, <2>4 DEF AddedTo
  <2>6. First(graph, k)
    BY <2>4 DEF First
  <2>7. h.entities[k] = Observed(graph, e, b, clock) /\ SameNames(graph, h)
    BY <2>1, <2>2, <2>4, <2>6, AddObservationsDoes
  <2> HIDE DEF h
  <2>8. Named(h, n) = Named(graph, n)
    BY <2>7 DEF Named, SameNames
  <2>9. EntityOf(h, n) = Observed(graph, e, b, clock)
    BY <2>7, <2>8 DEF EntityOf, EntityIndex
  <2>10. LET o == Observed(graph, e, b, clock)
         IN FactOf(o, b[i].supersedes).to = FactOf(o, b[i].text).from
    <3>1. e = EntityOf(graph, e.name) /\ b[i].entity = e.name
      BY <2>4
    <3> HIDE DEF e, n
    <3> QED BY <2>1, <2>2, <2>4, <2>5, <3>1, SupersededIsClosed
  <2> QED BY <2>9, <2>10 DEF h
<1> QED BY <1>1, GraphTyped, PTL

-----------------------------------------------------------------------------
(* Keys                                                                    *)

\* No create_relations call gives a key twice.
KeyedOnce == \A b \in RelationBatches : Distinct(b, Key)

\* New keys are not taken, and differ when the batch's do.
LEMMA RelateKeepsKeysApart ==
    ASSUME NEW g \in Graph, UniqueKeys(g), NEW b \in Seq(Relation), Distinct(b, Key),
           NEW now \in Times
    PROVE  UniqueKeys(CreateRelations(g, b, now))
<1> DEFINE h == CreateRelations(g, b, now)
           Old == DOMAIN g.relations
<1>1. /\ \A i \in Old : h.relations[i] = g.relations[i]
      /\ \A i \in DOMAIN h.relations \ Old : Key(h.relations[i]) \notin Keys(g)
      /\ \A i, j \in DOMAIN h.relations \ Old :
            Key(h.relations[i]) = Key(h.relations[j]) => i = j
  BY CreateRelationsDoes
<1> HIDE DEF h
<1>2. \A j \in Old : Key(g.relations[j]) \in Keys(g)
  BY DEF Keys
<1>3. ASSUME NEW i \in DOMAIN h.relations, NEW j \in DOMAIN h.relations,
             Key(h.relations[i]) = Key(h.relations[j])
      PROVE  i = j
  <2>1. CASE i \in Old /\ j \in Old
    BY <1>1, <1>3, <2>1 DEF UniqueKeys, Distinct
  <2>2. CASE i \notin Old /\ j \notin Old
    BY <1>1, <1>3, <2>2
  <2> QED BY <1>1, <1>2, <1>3, <2>1, <2>2
<1> QED BY <1>3 DEF UniqueKeys, Distinct, h

\* Some of the rows have some of the keys.
LEMMA RowsKeepKeysApart ==
    ASSUME NEW g \in Graph, UniqueKeys(g), NEW L \in SUBSET DOMAIN g.relations,
           NEW h, h.relations = Retain(g.relations, L)
    PROVE  UniqueKeys(h)
<1>1. /\ \A n \in DOMAIN h.relations : Nth(L, n) \in L /\ h.relations[n] = g.relations[Nth(L, n)]
      /\ \A n, k \in DOMAIN h.relations : Nth(L, n) = Nth(L, k) => n = k
  BY RetainRows DEF Graph
<1>2. \A n \in DOMAIN h.relations : Nth(L, n) \in DOMAIN g.relations
  BY <1>1
<1> QED BY <1>1, <1>2 DEF UniqueKeys, Distinct

\* Onto a name that no relation mentions, a rename takes different keys to
\* different keys.
LEMMA RenameKeepsKeysApart ==
    ASSUME NEW g \in Graph, UniqueKeys(g), NEW n, NEW to \in Names,
           CanRename(g, n, to), to \notin Dangling(g), NEW now \in Times
    PROVE  UniqueKeys(RenameEntity(g, n, to, now))
<1> DEFINE h == RenameEntity(g, n, to, now)
<1>1. /\ DOMAIN h.relations = DOMAIN g.relations
      /\ \A i \in DOMAIN g.relations :
            /\ h.relations[i].from = Repoint(g.relations[i], n, to).from
            /\ h.relations[i].to = Repoint(g.relations[i], n, to).to
            /\ h.relations[i].type = g.relations[i].type
  BY RenameDoes
<1>2. \A i \in DOMAIN g.relations : g.relations[i] \in Relation
  BY Rows DEF Graph
<1> HIDE DEF h
<1>3. to \notin Endpoints(g)
  BY DEF CanRename, Dangling
<1>4. \A i \in DOMAIN g.relations : g.relations[i].from # to /\ g.relations[i].to # to
  BY <1>3, EndpointRows
<1>5. \A i \in DOMAIN g.relations :
         /\ h.relations[i].from = IF g.relations[i].from = n THEN to ELSE g.relations[i].from
         /\ h.relations[i].to = IF g.relations[i].to = n THEN to ELSE g.relations[i].to
  BY <1>1, <1>2, RepointTyped
<1>6. ASSUME NEW i \in DOMAIN h.relations, NEW j \in DOMAIN h.relations,
             Key(h.relations[i]) = Key(h.relations[j])
      PROVE  i = j
  <2>1. /\ h.relations[i].from = h.relations[j].from
        /\ h.relations[i].to = h.relations[j].to
        /\ h.relations[i].type = h.relations[j].type
    BY <1>6 DEF Key
  <2>2. /\ g.relations[i].from = g.relations[j].from
        /\ g.relations[i].to = g.relations[j].to
        /\ g.relations[i].type = g.relations[j].type
    BY <1>1, <1>4, <1>5, <2>1
  <2> QED BY <1>1, <2>2 DEF Key, UniqueKeys, Distinct
<1> QED BY <1>6 DEF UniqueKeys, Distinct, h

\* No tool gives two relations one key, but for a rename onto a dangling name.
LEMMA StepKeepsKeysApart ==
    ASSUME KeyedOnce, TypeOK, [Next]_vars, UniqueKeys(graph)
    PROVE  \/ UniqueKeys(graph')
           \/ \E m \in Moves :
                 /\ CanRename(graph, m[1], m[2]) /\ m[2] \in Dangling(graph)
                 /\ graph' = RenameEntity(graph, m[1], m[2], clock')
<1> DEFINE Q == \E m \in Moves :
                   /\ CanRename(graph, m[1], m[2]) /\ m[2] \in Dangling(graph)
                   /\ graph' = RenameEntity(graph, m[1], m[2], clock')
<1>1. graph \in Graph
  BY DEF TypeOK
<1>2. ASSUME graph'.relations = graph.relations PROVE UniqueKeys(graph')
  BY <1>2 DEF UniqueKeys
<1>3. ASSUME NEW now \in Now, Create(now) PROVE UniqueKeys(graph')
  <2>1. PICK b \in EntityBatches : graph' = CreateEntities(graph, b, now)
    BY <1>3 DEF Create, Becomes
  <2>2. b \in Seq(Entity)
    BY ArgumentsTyped
  <2> QED BY <1>1, <1>2, <2>1, <2>2, NowIsTime, CreateEntitiesDoes
<1>4. ASSUME NEW now \in Now, Relate(now) PROVE UniqueKeys(graph')
  <2>1. PICK b \in RelationBatches : graph' = CreateRelations(graph, b, now)
    BY <1>4 DEF Relate, Becomes
  <2>2. b \in Seq(Relation) /\ Distinct(b, Key)
    BY ArgumentsTyped DEF KeyedOnce
  <2> QED BY <1>1, <2>1, <2>2, NowIsTime, RelateKeepsKeysApart
<1>5. ASSUME NEW now \in Now, Observe(now) PROVE UniqueKeys(graph')
  <2>1. PICK b \in ObservationBatches : graph' = AddObservations(graph, b, now)
    BY <1>5 DEF Observe, Becomes
  <2>2. b \in Seq(FactInput)
    BY ArgumentsTyped
  <2> QED BY <1>1, <1>2, <2>1, <2>2, NowIsTime, AddObservationsDoes
<1>6. ASSUME NEW now \in Now, Edit(now) PROVE UniqueKeys(graph')
  <2>1. PICK e \in Edits : /\ CanUpdate(graph, e[1], e[2])
                           /\ graph' = UpdateObservation(graph, e[1], e[2], e[3], now)
    BY <1>6 DEF Edit, Becomes
  <2>2. e[3] \in FactTexts
    BY ArgumentsTyped
  <2> QED BY <1>1, <1>2, <2>1, <2>2, NowIsTime, UpdateObservationDoes
<1>7. ASSUME NEW now \in Now, Forget(now) PROVE UniqueKeys(graph')
  BY <1>1, <1>2, <1>7, NowIsTime, DeleteObservationsDoes DEF Forget, Becomes
<1>8. ASSUME NEW now \in Now, Delete(now) PROVE UniqueKeys(graph')
  <2>1. PICK names \in EntityDeletions : graph' = DeleteEntities(graph, names)
    BY <1>8 DEF Delete, Becomes
  <2> DEFINE L == {i \in DOMAIN graph.relations :
                      {graph.relations[i].from, graph.relations[i].to} \cap names = {}}
  <2>2. graph'.relations = Retain(graph.relations, L) /\ L \in SUBSET DOMAIN graph.relations
    BY <1>1, <2>1, DeleteEntitiesDoes
  <2> HIDE DEF L
  <2> QED BY <1>1, <2>2, RowsKeepKeysApart
<1>9. ASSUME NEW now \in Now, Unrelate(now) PROVE UniqueKeys(graph')
  <2>1. PICK keys \in RelationDeletions : graph' = DeleteRelations(graph, keys)
    BY <1>9 DEF Unrelate, Becomes
  <2> DEFINE L == {i \in DOMAIN graph.relations : Key(graph.relations[i]) \notin keys}
  <2>2. graph'.relations = Retain(graph.relations, L) /\ L \in SUBSET DOMAIN graph.relations
    BY <1>1, <2>1, DeleteRelationsDoes
  <2> HIDE DEF L
  <2> QED BY <1>1, <2>2, RowsKeepKeysApart
<1>10. ASSUME NEW now \in Now, Rename(now) PROVE UniqueKeys(graph') \/ Q
  <2>1. PICK m \in Moves : /\ CanRename(graph, m[1], m[2]) /\ clock' = now
                           /\ graph' = RenameEntity(graph, m[1], m[2], now)
    BY <1>10 DEF Rename, Becomes
  <2>2. m[2] \in Names
    BY ArgumentsTyped
  <2>3. CASE m[2] \in Dangling(graph)
    BY <2>1, <2>3
  <2>4. CASE m[2] \notin Dangling(graph)
    BY <1>1, <2>1, <2>2, <2>4, NowIsTime, RenameKeepsKeysApart
  <2> QED BY <2>3, <2>4
<1>11. ASSUME NEW now \in Now, Merge(now) PROVE UniqueKeys(graph')
  <2>1. PICK m \in Moves : /\ CanMerge(graph, m[1], m[2])
                           /\ graph' = MergeEntities(graph, m[1], m[2], now)
    BY <1>11 DEF Merge, Becomes
  <2>2. m[2] \in Names
    BY ArgumentsTyped
  <2>3. Distinct(graph'.relations, Key)
    BY <1>1, <2>1, <2>2, NowIsTime, MergeDoes
  <2> QED BY <2>3 DEF UniqueKeys
<1>12. ASSUME NEW now \in Now, Normalize(now) PROVE UniqueKeys(graph')
  BY <1>1, <1>2, <1>12, NowIsTime, NormalizeDoes DEF Normalize, Becomes
<1>13. ASSUME UNCHANGED vars PROVE UniqueKeys(graph')
  BY <1>2, <1>13 DEF vars
<1> HIDE DEF Q
<1>14. UniqueKeys(graph') \/ Q
  BY <1>3, <1>4, <1>5, <1>6, <1>7, <1>8, <1>9, <1>10, <1>11, <1>12, <1>13 DEF Next
<1> QED BY <1>14 DEF Q

\* When no create_relations call gives a key twice, the one step that can leave
\* two relations with one key is a rename onto a name that relations mention
\* without there being such an entity.
THEOREM KeysIdentify == ASSUME KeyedOnce PROVE Spec => KeysStayUnique
<1>1. TypeOK /\ [Next]_vars =>
        [ UniqueKeys(graph) =>
            \/ UniqueKeys(graph')
            \/ \E m \in Moves :
                  /\ CanRename(graph, m[1], m[2]) /\ m[2] \in Dangling(graph)
                  /\ graph' = RenameEntity(graph, m[1], m[2], clock') ]_vars
  BY StepKeepsKeysApart
<1> QED BY <1>1, GraphTyped, PTL DEF Spec, KeysStayUnique

-----------------------------------------------------------------------------
(* Texts                                                                   *)

\* No create_entities call gives an entity a text twice.
TextedOnce ==
    \A b \in EntityBatches : \A i \in DOMAIN b : Distinct(b[i].facts, LAMBDA f : f.text)

\* The texts of a graph's entities, row by row.
LEMMA TextsOfRows ==
    ASSUME NEW g
    PROVE  TextIdentifiesFact(g) <=> \A i \in DOMAIN g.entities : TextsApart(g.entities[i])
<1>1. \A e : TextsApart(e) <=> Distinct(e.facts, LAMBDA f : f.text)
  BY DEF TextsApart, Distinct
<1> QED BY <1>1 DEF TextIdentifiesFact, Range

\* Facts are added under texts the entity has not.
LEMMA ObservedKeepsTextsApart ==
    ASSUME NEW g \in Graph, NEW e \in Entity, e = EntityOf(g, e.name), TextsApart(e),
           NEW b \in Seq(FactInput), NEW now \in Times
    PROVE  TextsApart(Observed(g, e, b, now))
<1> DEFINE o == Observed(g, e, b, now)
           in == AddedTo(g, b, e.name)
<1>1. /\ o \in Entity /\ o.name = e.name
      /\ Len(e.facts) <= Len(o.facts)
      /\ DOMAIN e.facts \subseteq DOMAIN o.facts
      /\ \A l \in DOMAIN e.facts :
            \/ o.facts[l] = e.facts[l] /\ ~\E a \in in :
                  b[a].supersedes = e.facts[l].text /\ TextIndex(e, e.facts[l].text) = l
            \/ \E a \in in :
                  /\ b[a].supersedes = e.facts[l].text
                  /\ TextIndex(e, e.facts[l].text) = l
                  /\ o.facts[l] = [e.facts[l] EXCEPT !.to = NewFact(b[a], now).from]
      /\ \A l \in DOMAIN e.facts : o.facts[l].text = e.facts[l].text
      /\ \A l \in DOMAIN o.facts \ DOMAIN e.facts :
            \E a \in in : o.facts[l] = NewFact(b[a], now) /\ b[a].text \notin Texts(e)
      /\ \A a \in in :
            \E l \in DOMAIN o.facts \ DOMAIN e.facts : o.facts[l] = NewFact(b[a], now)
      /\ \A l, m \in DOMAIN o.facts \ DOMAIN e.facts :
            o.facts[l].text = o.facts[m].text => l = m
  BY Zenon, ObservedDoes
<1>2. \A a \in in : b[a] \in FactInput
  BY Rows DEF AddedTo
<1> HIDE DEF o, in
<1>3. \A l \in DOMAIN e.facts : o.facts[l].text \in Texts(e)
  BY <1>1 DEF Texts
<1>4. \A l \in DOMAIN o.facts \ DOMAIN e.facts : o.facts[l].text \notin Texts(e)
  BY <1>1, <1>2, NewFactTyped
<1>5. ASSUME NEW k \in DOMAIN o.facts, NEW l \in DOMAIN o.facts,
             o.facts[k].text = o.facts[l].text
      PROVE  k = l
  <2>1. CASE k \in DOMAIN e.facts /\ l \in DOMAIN e.facts
    BY <1>1, <1>5, <2>1 DEF TextsApart
  <2>2. CASE k \notin DOMAIN e.facts /\ l \notin DOMAIN e.facts
    BY <1>1, <1>5, <2>2
  <2> QED BY <1>3, <1>4, <1>5, <2>1, <2>2
<1> QED BY <1>5 DEF TextsApart, o

\* An edit to a text that no other fact of the entity has.
LEMMA EditKeepsTextsApart ==
    ASSUME NEW g \in Graph, TextIdentifiesFact(g), NEW n, NEW x, CanUpdate(g, n, x),
           NEW y \in FactTexts, y \notin Texts(EntityOf(g, n)) \ {x}, NEW now \in Times
    PROVE  TextIdentifiesFact(UpdateObservation(g, n, x, y, now))
<1> DEFINE h == UpdateObservation(g, n, x, y, now)
           k == EntityIndex(g, n)
           e == g.entities[k]
           j == TextIndex(EntityOf(g, n), x)
<1>1. /\ SameNames(g, h)
      /\ k \in DOMAIN g.entities /\ e = EntityOf(g, n)
      /\ j \in DOMAIN e.facts
      /\ \A i \in DOMAIN g.entities : i # k => h.entities[i] = g.entities[i]
      /\ DOMAIN h.entities[k].facts = DOMAIN e.facts
      /\ h.entities[k].facts[j].text = y
      /\ \A i \in DOMAIN e.facts : i # j => h.entities[k].facts[i] = e.facts[i]
  BY UpdateObservationDoes
<1>2. e.facts[j].text = x
  BY <1>1, Looking, TextFound DEF CanUpdate
<1>3. \A i \in DOMAIN g.entities : TextsApart(g.entities[i])
  BY TextsOfRows
<1>4. \A i \in DOMAIN e.facts : e.facts[i].text = x => i = j
  BY <1>1, <1>2, <1>3 DEF TextsApart
<1>5. \A i \in DOMAIN e.facts : e.facts[i].text = y => y = x
  BY <1>1 DEF Texts
<1> HIDE DEF h, k, e, j
<1>6. \A i \in DOMAIN e.facts : i # j => e.facts[i].text # y
  BY <1>4, <1>5
<1>7. TextsApart(e)
  BY <1>1, <1>3 DEF e
<1>8. TextsApart(h.entities[k])
  BY <1>1, <1>6, <1>7 DEF TextsApart
<1>9. \A i \in DOMAIN h.entities : TextsApart(h.entities[i])
  BY <1>1, <1>3, <1>8 DEF SameNames
<1> QED BY <1>9, TextsOfRows DEF h

\* What is left of an entity's facts are facts of it, each once.
LEMMA FewerFactsApart ==
    ASSUME NEW e \in Entity, TextsApart(e), NEW K \in SUBSET DOMAIN e.facts,
           NEW f, f.facts = Retain(e.facts, K)
    PROVE  TextsApart(f)
<1>1. /\ \A n \in DOMAIN f.facts : Nth(K, n) \in K /\ f.facts[n] = e.facts[Nth(K, n)]
      /\ \A n, k \in DOMAIN f.facts : Nth(K, n) = Nth(K, k) => n = k
  BY RetainRows DEF Entity
<1>2. \A n \in DOMAIN f.facts : Nth(K, n) \in DOMAIN e.facts
  BY <1>1
<1> QED BY <1>1, <1>2 DEF TextsApart

\* A merge adds the facts of the source whose texts the target has not.
LEMMA MergeKeepsTextsApart ==
    ASSUME NEW g \in Graph, TextIdentifiesFact(g), NEW source, NEW target \in Names,
           CanMerge(g, source, target), NEW now \in Times
    PROVE  TextIdentifiesFact(MergeEntities(g, source, target, now))
<1> DEFINE h == MergeEntities(g, source, target, now)
           K == Others(g, source)
           t == EntityIndex(g, target)
           s == EntityIndex(g, source)
           new == Absorb(EntityOf(g, source), EntityOf(g, target), now)
<1>1. \A n \in DOMAIN h.entities :
         /\ Nth(K, n) \in K
         /\ h.entities[n] = IF Nth(K, n) = t THEN new ELSE g.entities[Nth(K, n)]
  BY MergeDoes
<1>2. /\ EntityOf(g, source) \in Entity /\ EntityOf(g, target) \in Entity
      /\ EntityOf(g, source) = g.entities[s] /\ EntityOf(g, target) = g.entities[t]
      /\ s \in DOMAIN g.entities /\ t \in DOMAIN g.entities
  BY Looking DEF CanMerge
<1>3. \A i \in DOMAIN g.entities : TextsApart(g.entities[i])
  BY TextsOfRows
<1>4. TextsApart(EntityOf(g, source)) /\ TextsApart(EntityOf(g, target))
  BY <1>2, <1>3
<1>5. TextsApart(new)
  BY <1>2, <1>4, AbsorbDoes
<1>6. \A i \in K : i \in DOMAIN g.entities
  BY DEF Others
<1> HIDE DEF h, K, t, new
<1>7. \A n \in DOMAIN h.entities : TextsApart(h.entities[n])
  BY <1>1, <1>3, <1>5, <1>6
<1> QED BY <1>7, TextsOfRows DEF h

\* A new entity has the facts of the batch.
LEMMA CreateKeepsTextsApart ==
    ASSUME NEW g \in Graph, TextIdentifiesFact(g), NEW b \in Seq(Entity),
           \A k \in DOMAIN b : TextsApart(b[k]), NEW now \in Times
    PROVE  TextIdentifiesFact(CreateEntities(g, b, now))
<1> DEFINE h == CreateEntities(g, b, now)
           Old == DOMAIN g.entities
<1>1. /\ \A i \in Old : h.entities[i] = g.entities[i]
      /\ \A i \in DOMAIN h.entities \ Old : FromBatch(g, b, h.entities[i])
  BY CreateEntitiesDoes
<1> HIDE DEF h
<1>2. \A i \in DOMAIN g.entities : TextsApart(g.entities[i])
  BY TextsOfRows
<1>3. \A i \in DOMAIN h.entities \ Old : TextsApart(h.entities[i])
  BY <1>1 DEF TextsApart, FromBatch
<1>4. \A i \in DOMAIN h.entities : TextsApart(h.entities[i])
  BY <1>1, <1>2, <1>3
<1> QED BY <1>4, TextsOfRows DEF h

\* No tool gives two facts of an entity one text, but for an edit to a text that
\* the entity has.
LEMMA StepKeepsTextsApart ==
    ASSUME TextedOnce, TypeOK, [Next]_vars, TextIdentifiesFact(graph)
    PROVE  \/ TextIdentifiesFact(graph')
           \/ \E e \in Edits :
                 /\ CanUpdate(graph, e[1], e[2])
                 /\ e[3] \in Texts(EntityOf(graph, e[1])) \ {e[2]}
                 /\ graph' = UpdateObservation(graph, e[1], e[2], e[3], clock')
<1> DEFINE P == TextIdentifiesFact(graph')
           Q == \E e \in Edits :
                   /\ CanUpdate(graph, e[1], e[2])
                   /\ e[3] \in Texts(EntityOf(graph, e[1])) \ {e[2]}
                   /\ graph' = UpdateObservation(graph, e[1], e[2], e[3], clock')
           Old == DOMAIN graph.entities
<1>1. graph \in Graph /\ \A i \in Old : graph.entities[i] \in Entity
  BY Rows DEF TypeOK, Graph
<1>2. \A i \in Old : TextsApart(graph.entities[i])
  BY TextsOfRows
<1>3. ASSUME graph'.entities = graph.entities PROVE P
  BY <1>3 DEF TextIdentifiesFact
<1>4. ASSUME \A i \in DOMAIN graph'.entities : TextsApart(graph'.entities[i]) PROVE P
  BY <1>4, TextsOfRows
<1> HIDE DEF P
<1>5. ASSUME NEW now \in Now, Create(now) PROVE P
  <2>1. PICK b \in EntityBatches : graph' = CreateEntities(graph, b, now)
    BY <1>5 DEF Create, Becomes
  <2>2. b \in Seq(Entity)
    BY ArgumentsTyped
  <2>3. \A i \in DOMAIN b : TextsApart(b[i])
    BY DEF TextedOnce, TextsApart, Distinct
  <2> QED BY <1>1, <2>1, <2>2, <2>3, NowIsTime, CreateKeepsTextsApart DEF P
<1>6. ASSUME NEW now \in Now, Relate(now) PROVE P
  <2>1. PICK b \in RelationBatches : graph' = CreateRelations(graph, b, now)
    BY <1>6 DEF Relate, Becomes
  <2>2. b \in Seq(Relation)
    BY ArgumentsTyped
  <2> QED BY <1>1, <1>3, <2>1, <2>2, NowIsTime, CreateRelationsDoes
<1>7. ASSUME NEW now \in Now, Observe(now) PROVE P
  <2>1. PICK b \in ObservationBatches : graph' = AddObservations(graph, b, now)
    BY <1>7 DEF Observe, Becomes
  <2>2. b \in Seq(FactInput)
    BY ArgumentsTyped
  <2>3. /\ DOMAIN graph'.entities = Old
        /\ \A i \in Old : graph'.entities[i] = IF First(graph, i)
                                              THEN Observed(graph, graph.entities[i], b, now)
                                              ELSE graph.entities[i]
    BY <1>1, <2>1, <2>2, NowIsTime, AddObservationsDoes DEF SameNames
  <2>4. ASSUME NEW i \in Old, First(graph, i) PROVE TextsApart(graph'.entities[i])
    BY <1>1, <1>2, <2>2, <2>3, <2>4, NowIsTime, FirstRow, ObservedKeepsTextsApart
  <2>5. \A i \in Old : TextsApart(graph'.entities[i])
    BY <1>2, <2>3, <2>4
  <2> QED BY <1>4, <2>3, <2>5
<1>8. ASSUME NEW now \in Now, Edit(now) PROVE P \/ Q
  <2>1. PICK e \in Edits : /\ CanUpdate(graph, e[1], e[2]) /\ clock' = now
                           /\ graph' = UpdateObservation(graph, e[1], e[2], e[3], now)
    BY <1>8 DEF Edit, Becomes
  <2>2. e[3] \in FactTexts
    BY ArgumentsTyped
  <2>3. CASE e[3] \in Texts(EntityOf(graph, e[1])) \ {e[2]}
    BY <2>1, <2>3
  <2>4. CASE e[3] \notin Texts(EntityOf(graph, e[1])) \ {e[2]}
    BY <1>1, <2>1, <2>2, <2>4, NowIsTime, EditKeepsTextsApart DEF P
  <2> QED BY <2>3, <2>4
<1>9. ASSUME NEW now \in Now, Forget(now) PROVE P
  <2>1. PICK d \in FactDeletions : graph' = DeleteObservations(graph, d, now)
    BY <1>9 DEF Forget, Becomes
  <2>2. /\ DOMAIN graph'.entities = Old
        /\ \A i \in Old : \E K \in SUBSET DOMAIN graph.entities[i].facts :
              \/ graph'.entities[i] = graph.entities[i]
              \/ graph'.entities[i].facts = Retain(graph.entities[i].facts, K)
    <3> DEFINE h == DeleteObservations(graph, d, now)
    <3>1. /\ SameNames(graph, h)
          /\ \A i \in Old : \E K \in SUBSET DOMAIN graph.entities[i].facts :
                \/ h.entities[i] = graph.entities[i]
                \/ h.entities[i].facts = Retain(graph.entities[i].facts, K)
      BY <1>1, NowIsTime, DeleteObservationsDoes
    <3> HIDE DEF h
    <3> QED BY <2>1, <3>1 DEF SameNames, h
  <2>3. ASSUME NEW i \in Old PROVE TextsApart(graph'.entities[i])
    BY <1>1, <1>2, <2>2, FewerFactsApart
  <2> QED BY <1>4, <2>2, <2>3
<1>10. ASSUME NEW now \in Now, Delete(now) PROVE P
  <2>1. PICK names \in EntityDeletions : graph' = DeleteEntities(graph, names)
    BY <1>10 DEF Delete, Becomes
  <2> DEFINE K == {i \in DOMAIN graph.entities : graph.entities[i].name \notin names}
  <2>2. graph'.entities = Retain(graph.entities, K) /\ K \in SUBSET Old
    BY <1>1, <2>1, DeleteEntitiesDoes
  <2> HIDE DEF K
  <2>3. \A n \in DOMAIN graph'.entities :
           Nth(K, n) \in K /\ graph'.entities[n] = graph.entities[Nth(K, n)]
    BY <1>1, <2>2, RetainRows DEF Graph
  <2>4. \A n \in DOMAIN graph'.entities : TextsApart(graph'.entities[n])
    BY <1>2, <2>2, <2>3
  <2> QED BY <1>4, <2>4
<1>11. ASSUME NEW now \in Now, Unrelate(now) PROVE P
  BY <1>1, <1>3, <1>11, DeleteRelationsDoes DEF Unrelate, Becomes
<1>12. ASSUME NEW now \in Now, Rename(now) PROVE P
  <2>1. PICK m \in Moves : /\ CanRename(graph, m[1], m[2])
                           /\ graph' = RenameEntity(graph, m[1], m[2], now)
    BY <1>12 DEF Rename, Becomes
  <2>2. m[2] \in Names
    BY ArgumentsTyped
  <2> DEFINE k == EntityIndex(graph, m[1])
  <2>3. /\ DOMAIN graph'.entities = Old
        /\ \A i \in Old : i # k => graph'.entities[i] = graph.entities[i]
        /\ k \in Old /\ graph'.entities[k].facts = graph.entities[k].facts
    BY <1>1, <2>1, <2>2, NowIsTime, RenameDoes
  <2> HIDE DEF k
  <2>4. \A i \in Old : TextsApart(graph'.entities[i])
    BY <1>2, <2>3 DEF TextsApart
  <2> QED BY <1>4, <2>3, <2>4
<1>13. ASSUME NEW now \in Now, Merge(now) PROVE P
  <2>1. PICK m \in Moves : /\ CanMerge(graph, m[1], m[2])
                           /\ graph' = MergeEntities(graph, m[1], m[2], now)
    BY <1>13 DEF Merge, Becomes
  <2>2. m[2] \in Names
    BY ArgumentsTyped
  <2> QED BY <1>1, <2>1, <2>2, NowIsTime, MergeKeepsTextsApart DEF P
<1>14. ASSUME NEW now \in Now, Normalize(now) PROVE P
  <2>1. graph' = NormalizeAll(graph, now)
    BY <1>14 DEF Normalize, Becomes
  <2>2. DOMAIN graph'.entities = Old /\ \A i \in Old : graph'.entities[i].facts = graph.entities[i].facts
    BY <1>1, <2>1, NowIsTime, NormalizeDoes DEF SameNames
  <2>3. \A i \in Old : TextsApart(graph'.entities[i])
    BY <1>2, <2>2 DEF TextsApart
  <2> QED BY <1>4, <2>2, <2>3
<1>15. ASSUME UNCHANGED vars PROVE P
  BY <1>3, <1>15 DEF vars
<1> HIDE DEF Q
<1>16. P \/ Q
  BY <1>5, <1>6, <1>7, <1>8, <1>9, <1>10, <1>11, <1>12, <1>13, <1>14, <1>15 DEF Next
<1> QED BY <1>16 DEF P, Q

\* When no create_entities call gives an entity a text twice, the one step that
\* can leave two facts of an entity with one text is an edit to a text that it
\* already has.
THEOREM TextsIdentify == ASSUME TextedOnce PROVE Spec => TextsStayUnique
<1>1. TypeOK /\ [Next]_vars =>
        [ TextIdentifiesFact(graph) =>
            \/ TextIdentifiesFact(graph')
            \/ \E e \in Edits :
                  /\ CanUpdate(graph, e[1], e[2])
                  /\ e[3] \in Texts(EntityOf(graph, e[1])) \ {e[2]}
                  /\ graph' = UpdateObservation(graph, e[1], e[2], e[3], clock') ]_vars
  BY StepKeepsTextsApart
<1> QED BY <1>1, GraphTyped, PTL DEF Spec, TextsStayUnique

-----------------------------------------------------------------------------
(* Memory                                                                  *)

\* The texts of a graph, row by row.
LEMMA TextsRowByRow ==
    ASSUME NEW g, NEW x
    PROVE  x \in AllTexts(g) <=> \E i \in DOMAIN g.entities : x \in Texts(g.entities[i])
BY DEF AllTexts, Range

\* Nothing is lost when each row's texts are in some row afterwards.
LEMMA NoneForgotten ==
    ASSUME NEW g, NEW h,
           \A i \in DOMAIN g.entities : \E n \in DOMAIN h.entities :
              Texts(g.entities[i]) \subseteq Texts(h.entities[n])
    PROVE  AllTexts(g) \subseteq AllTexts(h)
BY TextsRowByRow

\* A merge takes the texts of the source along, when it is the one of its name.
LEMMA MergeForgetsNothing ==
    ASSUME NEW g \in Graph, OneOfAName(g), NEW source, NEW target \in Names,
           CanMerge(g, source, target), NEW now \in Times
    PROVE  AllTexts(g) \subseteq AllTexts(MergeEntities(g, source, target, now))
<1> DEFINE h == MergeEntities(g, source, target, now)
           K == Others(g, source)
           s == EntityIndex(g, source)
           t == EntityIndex(g, target)
           new == Absorb(EntityOf(g, source), EntityOf(g, target), now)
<1>1. /\ \A n \in DOMAIN h.entities :
            /\ Nth(K, n) \in K
            /\ h.entities[n] = IF Nth(K, n) = t THEN new ELSE g.entities[Nth(K, n)]
      /\ \A i \in K : \E n \in DOMAIN h.entities : Nth(K, n) = i
      /\ t \in K
  BY MergeDoes
<1>2. /\ EntityOf(g, source) \in Entity /\ EntityOf(g, target) \in Entity
      /\ EntityOf(g, source) = g.entities[s] /\ EntityOf(g, target) = g.entities[t]
      /\ s \in DOMAIN g.entities /\ g.entities[s].name = source
  BY Looking DEF CanMerge
<1>3. Texts(new) = Texts(g.entities[s]) \cup Texts(g.entities[t])
  <2>1. Texts(new) = Texts(EntityOf(g, source)) \cup Texts(EntityOf(g, target))
    BY <1>2, AbsorbDoes
  <2> QED BY <1>2, <2>1
<1>4. \A i \in DOMAIN g.entities : i \in K \/ i = s
  BY <1>2 DEF Others, OneOfAName, Distinct
<1> HIDE DEF h, K, s, t, new
<1>5. ASSUME NEW i \in DOMAIN g.entities
      PROVE  \E n \in DOMAIN h.entities : Texts(g.entities[i]) \subseteq Texts(h.entities[n])
  <2>1. CASE i = s
    <3>1. PICK n \in DOMAIN h.entities : h.entities[n] = new
      BY <1>1
    <3> QED BY <1>3, <2>1, <3>1
  <2>2. CASE i \in K
    <3>1. PICK n \in DOMAIN h.entities : h.entities[n] = IF i = t THEN new ELSE g.entities[i]
      BY <1>1, <2>2
    <3> QED BY <1>3, <3>1
  <2> QED BY <1>4, <2>1, <2>2
<1> QED BY <1>5, NoneForgotten DEF h

\* Of the tools, only the ones meant to remove or change a text do.
LEMMA StepForgetsNothing ==
    ASSUME TypeOK, OneOfAName(graph), [Next]_vars
    PROVE  \/ AllTexts(graph) \subseteq AllTexts(graph')
           \/ Edit(clock') \/ Forget(clock') \/ Delete(clock')
<1> DEFINE P == AllTexts(graph) \subseteq AllTexts(graph')
           Old == DOMAIN graph.entities
<1>1. graph \in Graph /\ \A i \in Old : graph.entities[i] \in Entity
  BY Rows DEF TypeOK, Graph
<1>2. ASSUME graph'.entities = graph.entities PROVE P
  BY <1>2 DEF AllTexts
<1>3. ASSUME \A i \in Old : /\ i \in DOMAIN graph'.entities
                            /\ Texts(graph.entities[i]) \subseteq Texts(graph'.entities[i])
      PROVE  P
  BY <1>3, NoneForgotten
<1> HIDE DEF P
<1>4. ASSUME NEW now \in Now, Create(now) PROVE P
  <2>1. PICK b \in EntityBatches : graph' = CreateEntities(graph, b, now)
    BY <1>4 DEF Create, Becomes
  <2>2. b \in Seq(Entity)
    BY ArgumentsTyped
  <2>3. Old \subseteq DOMAIN graph'.entities /\ \A i \in Old : graph'.entities[i] = graph.entities[i]
    BY <1>1, <2>1, <2>2, NowIsTime, CreateEntitiesDoes
  <2> QED BY <1>3, <2>3
<1>5. ASSUME NEW now \in Now, Relate(now) PROVE P
  <2>1. PICK b \in RelationBatches : graph' = CreateRelations(graph, b, now)
    BY <1>5 DEF Relate, Becomes
  <2>2. b \in Seq(Relation)
    BY ArgumentsTyped
  <2> QED BY <1>1, <1>2, <2>1, <2>2, NowIsTime, CreateRelationsDoes
<1>6. ASSUME NEW now \in Now, Observe(now) PROVE P
  <2>1. PICK b \in ObservationBatches : graph' = AddObservations(graph, b, now)
    BY <1>6 DEF Observe, Becomes
  <2>2. b \in Seq(FactInput)
    BY ArgumentsTyped
  <2>3. /\ DOMAIN graph'.entities = Old
        /\ \A i \in Old : graph'.entities[i] = IF First(graph, i)
                                              THEN Observed(graph, graph.entities[i], b, now)
                                              ELSE graph.entities[i]
    BY <1>1, <2>1, <2>2, NowIsTime, AddObservationsDoes DEF SameNames
  <2>4. ASSUME NEW i \in Old, First(graph, i)
        PROVE  Texts(graph.entities[i]) \subseteq Texts(graph'.entities[i])
    BY <1>1, <2>2, <2>3, <2>4, NowIsTime, FirstRow, ObservedKeepsTexts
  <2> QED BY <1>3, <2>3, <2>4
<1>7. ASSUME NEW now \in Now, Unrelate(now) PROVE P
  BY <1>1, <1>2, <1>7, DeleteRelationsDoes DEF Unrelate, Becomes
<1>8. ASSUME NEW now \in Now, Rename(now) PROVE P
  <2>1. PICK m \in Moves : /\ CanRename(graph, m[1], m[2])
                           /\ graph' = RenameEntity(graph, m[1], m[2], now)
    BY <1>8 DEF Rename, Becomes
  <2>2. m[2] \in Names
    BY ArgumentsTyped
  <2> DEFINE k == EntityIndex(graph, m[1])
  <2>3. /\ DOMAIN graph'.entities = Old
        /\ \A i \in Old : i # k => graph'.entities[i] = graph.entities[i]
        /\ k \in Old /\ graph'.entities[k].facts = graph.entities[k].facts
    BY <1>1, <2>1, <2>2, NowIsTime, RenameDoes
  <2> HIDE DEF k
  <2> QED BY <1>3, <2>3 DEF Texts
<1>9. ASSUME NEW now \in Now, Merge(now) PROVE P
  <2>1. PICK m \in Moves : /\ CanMerge(graph, m[1], m[2])
                           /\ graph' = MergeEntities(graph, m[1], m[2], now)
    BY <1>9 DEF Merge, Becomes
  <2>2. m[2] \in Names
    BY ArgumentsTyped
  <2> QED BY <1>1, <2>1, <2>2, NowIsTime, MergeForgetsNothing DEF P
<1>10. ASSUME NEW now \in Now, Normalize(now) PROVE P
  <2>1. graph' = NormalizeAll(graph, now)
    BY <1>10 DEF Normalize, Becomes
  <2>2. DOMAIN graph'.entities = Old /\ \A i \in Old : graph'.entities[i].facts = graph.entities[i].facts
    BY <1>1, <2>1, NowIsTime, NormalizeDoes DEF SameNames
  <2> QED BY <1>3, <2>2 DEF Texts
<1>11. ASSUME UNCHANGED vars PROVE P
  BY <1>2, <1>11 DEF vars
<1>12. \A now \in Now : Edit(now) \/ Forget(now) \/ Delete(now) => now = clock'
  BY DEF Edit, Forget, Delete, Becomes
<1>13. P \/ Edit(clock') \/ Forget(clock') \/ Delete(clock')
  BY <1>4, <1>5, <1>6, <1>7, <1>8, <1>9, <1>10, <1>11, <1>12 DEF Next
<1> QED BY <1>13 DEF P

\* When names identify entities, no text is lost but by an edit or a deletion:
\* a merge takes everything the source had along.
THEOREM NothingIsForgotten == ASSUME NamedOnce PROVE Spec => NothingForgotten
<1>1. TypeOK /\ UniqueNames /\ [Next]_vars =>
        [ \/ AllTexts(graph) \subseteq AllTexts(graph')
          \/ Edit(clock') \/ Forget(clock') \/ Delete(clock') ]_vars
  BY StepForgetsNothing DEF UniqueNames, OneOfAName
<1> QED BY <1>1, GraphTyped, NamesIdentify, PTL DEF Spec, NothingForgotten

-----------------------------------------------------------------------------
(* Replays                                                                 *)

\* A deletion repeated finds none of its facts left.
LEMMA ForgetAgain ==
    ASSUME NEW g \in Graph, NEW pairs, NEW n1 \in Times, NEW n2
    PROVE  LET h == DeleteObservations(g, pairs, n1)
           IN DeleteObservations(h, pairs, n2) = h
<1> DEFINE h == DeleteObservations(g, pairs, n1)
<1>1. /\ h \in Graph /\ h.relations = g.relations /\ SameNames(g, h)
      /\ \A i \in DOMAIN g.entities : First(g, i) =>
            \A k \in DOMAIN h.entities[i].facts :
               <<g.entities[i].name, h.entities[i].facts[k].text>> \notin pairs
  BY DeleteObservationsDoes
<1> HIDE DEF h
<1> DEFINE kept(i) == {k \in DOMAIN h.entities[i].facts :
                          <<h.entities[i].name, h.entities[i].facts[k].text>> \notin pairs}
           rows == [i \in DOMAIN h.entities |->
                      IF i # EntityIndex(h, h.entities[i].name)
                         \/ kept(i) = DOMAIN h.entities[i].facts
                      THEN h.entities[i]
                      ELSE [h.entities[i] EXCEPT !.facts = Retain(h.entities[i].facts, kept(i)),
                                                 !.updated = n2]]
<1>2. DeleteObservations(h, pairs, n2) = [h EXCEPT !.entities = rows]
  BY DEF DeleteObservations
<1>3. \A x : EntityIndex(h, x) = EntityIndex(g, x)
  BY <1>1 DEF EntityIndex, Named, SameNames
<1>4. ASSUME NEW i \in DOMAIN h.entities, i = EntityIndex(h, h.entities[i].name)
      PROVE  kept(i) = DOMAIN h.entities[i].facts
  <2>1. i \in DOMAIN g.entities /\ h.entities[i].name = g.entities[i].name
    BY <1>1 DEF SameNames
  <2>2. First(g, i)
    BY <1>3, <1>4, <2>1 DEF First
  <2> QED BY <1>1, <2>1, <2>2
<1>5. \A i \in DOMAIN h.entities : rows[i] = h.entities[i]
  BY <1>4
<1>6. h.entities = [i \in DOMAIN h.entities |-> h.entities[i]]
  BY <1>1 DEF Graph
<1>7. DOMAIN rows = DOMAIN h.entities /\ rows = [i \in DOMAIN rows |-> rows[i]]
  OBVIOUS
<1> HIDE DEF rows
<1>8. rows = h.entities
  BY <1>5, <1>6, <1>7
<1> QED BY <1>1, <1>2, <1>8 DEF Graph, h

\* The tools annotated idempotent are: a repeat of a call, whatever the clock
\* reads, is accepted and leaves the graph as the call left it.
THEOREM RepeatsChangeNothing == Spec => []ReplayIsNoOp
<1>1. TypeOK => ReplayIsNoOp
  <2> SUFFICES ASSUME TypeOK, NEW n1 \in Now, NEW n2 \in Now
               PROVE  /\ \A b \in EntityBatches :
                            LET g == CreateEntities(graph, b, n1) IN CreateEntities(g, b, n2) = g
                      /\ \A b \in RelationBatches :
                            LET g == CreateRelations(graph, b, n1) IN CreateRelations(g, b, n2) = g
                      /\ \A b \in ObservationBatches : ObservationsOK(graph, b) =>
                            LET g == AddObservations(graph, b, n1)
                            IN ObservationsOK(g, b) /\ AddObservations(g, b, n2) = g
                      /\ \A d \in FactDeletions :
                            LET g == DeleteObservations(graph, d, n1)
                            IN DeleteObservations(g, d, n2) = g
    BY DEF ReplayIsNoOp
  <2>1. graph \in Graph /\ n1 \in Times
    BY NowIsTime DEF TypeOK
  <2>2. ASSUME NEW b \in EntityBatches
        PROVE  LET g == CreateEntities(graph, b, n1) IN CreateEntities(g, b, n2) = g
    <3> DEFINE g == CreateEntities(graph, b, n1)
    <3>1. b \in Seq(Entity)
      BY ArgumentsTyped
    <3>2. g \in Graph /\ \A k \in DOMAIN b : HasEntity(g, b[k].name)
      BY <2>1, <3>1, CreateEntitiesDoes
    <3> HIDE DEF g
    <3> QED BY <3>1, <3>2, CreateNone DEF g
  <2>3. ASSUME NEW b \in RelationBatches
        PROVE  LET g == CreateRelations(graph, b, n1) IN CreateRelations(g, b, n2) = g
    <3> DEFINE g == CreateRelations(graph, b, n1)
    <3>1. b \in Seq(Relation)
      BY ArgumentsTyped
    <3>2. g \in Graph /\ \A k \in DOMAIN b : Key(b[k]) \in Keys(g)
      BY <2>1, <3>1, CreateRelationsDoes
    <3> HIDE DEF g
    <3> QED BY <3>1, <3>2, RelateNone DEF g
  <2>4. ASSUME NEW b \in ObservationBatches, ObservationsOK(graph, b)
        PROVE  LET g == AddObservations(graph, b, n1)
               IN ObservationsOK(g, b) /\ AddObservations(g, b, n2) = g
    <3> DEFINE g == AddObservations(graph, b, n1)
    <3>1. b \in Seq(FactInput)
      BY ArgumentsTyped
    <3>2. g \in Graph
      BY <2>1, <3>1, AddObservationsDoes
    <3>3. Holds(g, b)
      BY <2>1, <2>4, <3>1, ObservedHolds
    <3> HIDE DEF g
    <3> QED BY <3>1, <3>2, <3>3, ObserveNone DEF g
  <2>5. \A d \in FactDeletions :
           LET g == DeleteObservations(graph, d, n1) IN DeleteObservations(g, d, n2) = g
    BY <2>1, ForgetAgain
  <2> QED BY <2>2, <2>3, <2>4, <2>5
<1> QED BY <1>1, GraphTyped, PTL

-----------------------------------------------------------------------------
(* Stamps                                                                  *)

\* What the step leaves of a row, or of what it makes of it, has its stamp.
StampedEntities(g, h, now) ==
    \A e \in Range(h.entities) : e \in Range(g.entities) \/ e.updated = now
StampedRelations(g, h, now) ==
    \A r \in Range(h.relations) : r \in Range(g.relations) \/ r.updated = now

\* The same, place by place.
LEMMA EntitiesStamped ==
    ASSUME NEW g, NEW h, NEW now,
           \A i \in DOMAIN h.entities :
              \/ h.entities[i].updated = now
              \/ \E j \in DOMAIN g.entities : h.entities[i] = g.entities[j]
    PROVE  StampedEntities(g, h, now)
BY DEF StampedEntities, Range

\* The same for relations.
LEMMA RelationsStamped ==
    ASSUME NEW g, NEW h, NEW now,
           \A i \in DOMAIN h.relations :
              \/ h.relations[i].updated = now
              \/ \E j \in DOMAIN g.relations : h.relations[i] = g.relations[j]
    PROVE  StampedRelations(g, h, now)
BY DEF StampedRelations, Range

\* A call that leaves the rows of one kind alone, or some of them, stamps none.
LEMMA SameAreStamped ==
    ASSUME NEW g, NEW h, NEW now
    PROVE  /\ h.entities = g.entities => StampedEntities(g, h, now)
           /\ h.relations = g.relations => StampedRelations(g, h, now)
BY DEF StampedEntities, StampedRelations

\* Nor does one that takes rows away.
LEMMA FewerAreStamped ==
    ASSUME NEW g \in Graph, NEW h, NEW now, NEW K \in SUBSET DOMAIN g.entities,
           NEW L \in SUBSET DOMAIN g.relations
    PROVE  /\ h.entities = Retain(g.entities, K) => StampedEntities(g, h, now)
           /\ h.relations = Retain(g.relations, L) => StampedRelations(g, h, now)
<1>1. ASSUME h.entities = Retain(g.entities, K) PROVE StampedEntities(g, h, now)
  <2>1. \A n \in DOMAIN h.entities : Nth(K, n) \in K /\ h.entities[n] = g.entities[Nth(K, n)]
    BY <1>1, RetainRows DEF Graph
  <2> QED BY <2>1, EntitiesStamped
<1>2. ASSUME h.relations = Retain(g.relations, L) PROVE StampedRelations(g, h, now)
  <2>1. \A n \in DOMAIN h.relations : Nth(L, n) \in L /\ h.relations[n] = g.relations[Nth(L, n)]
    BY <1>2, RetainRows DEF Graph
  <2> QED BY <2>1, RelationsStamped
<1> QED BY <1>1, <1>2

\* Each call stamps what it creates and what it changes.
LEMMA StepIsStamped ==
    ASSUME TypeOK, [Next]_vars
    PROVE  /\ StampedEntities(graph, graph', clock')
           /\ StampedRelations(graph, graph', clock') \/ Merge(clock')
<1> DEFINE E == StampedEntities(graph, graph', clock')
           R == StampedRelations(graph, graph', clock')
           Old == DOMAIN graph.entities
<1>1. graph \in Graph /\ \A i \in Old : graph.entities[i] \in Entity
  BY Rows DEF TypeOK, Graph
<1>2. CASE UNCHANGED vars
  BY <1>2, SameAreStamped DEF vars
<1>3. ASSUME NEW now \in Now, Create(now) PROVE E /\ R
  <2>1. PICK b \in EntityBatches : graph' = CreateEntities(graph, b, now) /\ clock' = now
    BY <1>3 DEF Create, Becomes
  <2>2. b \in Seq(Entity)
    BY ArgumentsTyped
  <2>3. /\ graph'.relations = graph.relations
        /\ \A i \in Old : graph'.entities[i] = graph.entities[i]
        /\ \A i \in DOMAIN graph'.entities \ Old : graph'.entities[i].updated = now
    BY <1>1, <2>1, <2>2, NowIsTime, CreateEntitiesDoes
  <2>4. E
    BY <2>1, <2>3, EntitiesStamped
  <2> QED BY <2>3, <2>4, SameAreStamped
<1>4. ASSUME NEW now \in Now, Relate(now) PROVE E /\ R
  <2>1. PICK b \in RelationBatches : graph' = CreateRelations(graph, b, now) /\ clock' = now
    BY <1>4 DEF Relate, Becomes
  <2>2. b \in Seq(Relation)
    BY ArgumentsTyped
  <2>3. /\ graph'.entities = graph.entities
        /\ \A i \in DOMAIN graph.relations : graph'.relations[i] = graph.relations[i]
        /\ \A i \in DOMAIN graph'.relations \ DOMAIN graph.relations :
              graph'.relations[i].updated = now
    BY <1>1, <2>1, <2>2, NowIsTime, CreateRelationsDoes
  <2>4. R
    BY <2>1, <2>3, RelationsStamped
  <2> QED BY <2>3, <2>4, SameAreStamped
<1>5. ASSUME NEW now \in Now, Observe(now) PROVE E /\ R
  <2>1. PICK b \in ObservationBatches : graph' = AddObservations(graph, b, now) /\ clock' = now
    BY <1>5 DEF Observe, Becomes
  <2>2. b \in Seq(FactInput)
    BY ArgumentsTyped
  <2>3. /\ DOMAIN graph'.entities = Old /\ graph'.relations = graph.relations
        /\ \A i \in Old : graph'.entities[i] = IF First(graph, i)
                                              THEN Observed(graph, graph.entities[i], b, now)
                                              ELSE graph.entities[i]
    BY <1>1, <2>1, <2>2, NowIsTime, AddObservationsDoes DEF SameNames
  <2>4. \A i \in Old : graph'.entities[i] = graph.entities[i] \/ graph'.entities[i].updated = now
    BY <1>1, <2>3, ObservedStamps
  <2>5. E
    BY <2>1, <2>3, <2>4, EntitiesStamped
  <2> QED BY <2>3, <2>5, SameAreStamped
<1>6. ASSUME NEW now \in Now, Edit(now) PROVE E /\ R
  <2>1. PICK e \in Edits : /\ CanUpdate(graph, e[1], e[2]) /\ clock' = now
                           /\ graph' = UpdateObservation(graph, e[1], e[2], e[3], now)
    BY <1>6 DEF Edit, Becomes
  <2>2. e[3] \in FactTexts
    BY ArgumentsTyped
  <2> DEFINE k == EntityIndex(graph, e[1])
  <2>3. /\ graph'.relations = graph.relations /\ SameNames(graph, graph')
        /\ k \in Old /\ graph'.entities[k].updated = now
        /\ \A i \in Old : i # k => graph'.entities[i] = graph.entities[i]
    BY <1>1, <2>1, <2>2, NowIsTime, UpdateObservationDoes
  <2> HIDE DEF k
  <2>4. E
    BY <2>1, <2>3, EntitiesStamped DEF SameNames
  <2> QED BY <2>3, <2>4, SameAreStamped
<1>7. ASSUME NEW now \in Now, Forget(now) PROVE E /\ R
  <2>1. PICK pairs \in FactDeletions : graph' = DeleteObservations(graph, pairs, now) /\ clock' = now
    BY <1>7 DEF Forget, Becomes
  <2>2. /\ graph'.relations = graph.relations /\ SameNames(graph, graph')
        /\ \A i \in Old : graph'.entities[i] = graph.entities[i] \/ graph'.entities[i].updated = now
    BY <1>1, <2>1, NowIsTime, DeleteObservationsDoes
  <2>3. E
    BY <2>1, <2>2, EntitiesStamped DEF SameNames
  <2> QED BY <2>2, <2>3, SameAreStamped
<1>8. ASSUME NEW now \in Now, Delete(now) PROVE E /\ R
  <2>1. PICK names \in EntityDeletions : graph' = DeleteEntities(graph, names)
    BY <1>8 DEF Delete, Becomes
  <2> DEFINE K == {i \in Old : graph.entities[i].name \notin names}
             L == {i \in DOMAIN graph.relations :
                     {graph.relations[i].from, graph.relations[i].to} \cap names = {}}
  <2>2. /\ graph'.entities = Retain(graph.entities, K) /\ K \in SUBSET Old
        /\ graph'.relations = Retain(graph.relations, L) /\ L \in SUBSET DOMAIN graph.relations
    BY <1>1, <2>1, DeleteEntitiesDoes
  <2> HIDE DEF K, L
  <2> QED BY <1>1, <2>2, FewerAreStamped
<1>9. ASSUME NEW now \in Now, Unrelate(now) PROVE E /\ R
  <2>1. PICK keys \in RelationDeletions : graph' = DeleteRelations(graph, keys)
    BY <1>9 DEF Unrelate, Becomes
  <2> DEFINE L == {i \in DOMAIN graph.relations : Key(graph.relations[i]) \notin keys}
  <2>2. /\ graph'.entities = graph.entities
        /\ graph'.relations = Retain(graph.relations, L) /\ L \in SUBSET DOMAIN graph.relations
    BY <1>1, <2>1, DeleteRelationsDoes
  <2> HIDE DEF L
  <2>3. R
    BY <1>1, <2>2, FewerAreStamped
  <2> QED BY <2>2, <2>3, SameAreStamped
<1>10. ASSUME NEW now \in Now, Rename(now) PROVE E /\ R
  <2>1. PICK m \in Moves : /\ CanRename(graph, m[1], m[2]) /\ clock' = now
                           /\ graph' = RenameEntity(graph, m[1], m[2], now)
    BY <1>10 DEF Rename, Becomes
  <2> DEFINE k == EntityIndex(graph, m[1])
  <2>2. /\ DOMAIN graph'.entities = Old
        /\ \A i \in Old :
              graph'.entities[i] = IF i = k THEN RenamedRow(graph.entities[k], m[2], now)
                                   ELSE graph.entities[i]
        /\ DOMAIN graph'.relations = DOMAIN graph.relations
        /\ \A i \in DOMAIN graph.relations :
              graph'.relations[i] = MovedRow(graph.relations[i], m[1], m[2], now)
    BY <1>1, <2>1, RenameRows DEF CanRename
  <2> HIDE DEF k
  <2>3. \A i \in Old : graph'.entities[i] = graph.entities[i] \/ graph'.entities[i].updated = now
    BY <1>1, <2>2 DEF Entity, RenamedRow
  <2>4. ASSUME NEW i \in DOMAIN graph.relations
        PROVE  graph'.relations[i] = graph.relations[i] \/ graph'.relations[i].updated = now
    <3>1. graph.relations[i] \in Relation /\ m[2] \in Names
      BY <1>1, Rows, ArgumentsTyped DEF Graph
    <3>2. Repoint(graph.relations[i], m[1], m[2]) \in Relation
      BY <3>1, RepointTyped
    <3> QED BY <2>2, <3>2 DEF Relation, MovedRow
  <2>5. E
    BY <2>1, <2>2, <2>3, EntitiesStamped
  <2>6. R
    BY <2>1, <2>2, <2>4, RelationsStamped
  <2> QED BY <2>5, <2>6
<1>11. ASSUME NEW now \in Now, Merge(now) PROVE E /\ Merge(clock')
  <2>1. PICK m \in Moves : /\ CanMerge(graph, m[1], m[2]) /\ clock' = now
                           /\ graph' = MergeEntities(graph, m[1], m[2], now)
    BY <1>11 DEF Merge, Becomes
  <2> DEFINE K == Others(graph, m[1])
             t == EntityIndex(graph, m[2])
             new == Absorb(EntityOf(graph, m[1]), EntityOf(graph, m[2]), now)
  <2>2. m[2] \in Names /\ EntityOf(graph, m[1]) \in Entity /\ EntityOf(graph, m[2]) \in Entity
    BY <1>1, <2>1, Looking, ArgumentsTyped DEF CanMerge
  <2>3. \A n \in DOMAIN graph'.entities :
           /\ Nth(K, n) \in K
           /\ graph'.entities[n] = IF Nth(K, n) = t THEN new ELSE graph.entities[Nth(K, n)]
    BY <1>1, <2>1, <2>2, NowIsTime, MergeDoes
  <2>4. new.updated = now
    BY <2>2, NowIsTime, AbsorbDoes
  <2>5. K \subseteq Old
    BY DEF Others
  <2> HIDE DEF K, new
  <2>6. E
    BY <2>1, <2>3, <2>4, <2>5, EntitiesStamped
  <2> QED BY <1>11, <2>1, <2>6
<1>12. ASSUME NEW now \in Now, Normalize(now) PROVE E /\ R
  <2>1. graph' = NormalizeAll(graph, now) /\ clock' = now
    BY <1>12 DEF Normalize, Becomes
  <2>2. /\ graph'.relations = graph.relations /\ SameNames(graph, graph')
        /\ \A i \in Old : graph'.entities[i] = graph.entities[i] \/ graph'.entities[i].updated = now
    BY <1>1, <2>1, NowIsTime, NormalizeDoes
  <2>3. E
    BY <2>1, <2>2, EntitiesStamped DEF SameNames
  <2> QED BY <2>2, <2>3, SameAreStamped
<1> QED BY <1>2, <1>3, <1>4, <1>5, <1>6, <1>7, <1>8, <1>9, <1>10, <1>11, <1>12 DEF Next

\* lastUpdated tells when a row was created or last changed: a row that a call
\* leaves as it was not carries the time of that call, except that a merge
\* re-points relations unstamped.
THEOREM StampsTell == Spec => ChangesAreStamped
<1>1. TypeOK /\ [Next]_vars =>
        [ /\ \A e \in Range(graph'.entities) :
                e \in Range(graph.entities) \/ e.updated = clock'
          /\ \/ \A r \in Range(graph'.relations) :
                   r \in Range(graph.relations) \/ r.updated = clock'
             \/ Merge(clock') ]_vars
  BY StepIsStamped DEF StampedEntities, StampedRelations
<1> QED BY <1>1, GraphTyped, PTL DEF Spec, ChangesAreStamped

-----------------------------------------------------------------------------
(* Types settle                                                            *)

\* The alias file and the letters of the types do not send a type in circles:
\* a canonical type is its own normal form, and a type without an alias, put in
\* title case, is still the same type without an alias and in title case.
TypesSettle ==
    /\ \A k \in DOMAIN Aliases : NormalizeType(Aliases[k]) = Aliases[k]
    /\ \A ty \in DOMAIN Lower : Lower[ty] \notin DOMAIN Aliases =>
          Lower[Title[ty]] = Lower[ty] /\ Title[Title[ty]] = Title[ty]

\* A type normalized is normal.
LEMMA NormalIsNormal ==
    ASSUME TypesSettle, NEW ty \in TypeNames
    PROVE  NormalizeType(NormalizeType(ty)) = NormalizeType(ty)
BY DEF TypesSettle, NormalizeType, TypeNames

\* When types settle, a second run of normalize_entity_types changes nothing.
THEOREM NormalizingAgainChangesNothing ==
    ASSUME TypesSettle PROVE Spec => []NormalizeIsIdempotent
<1>1. TypeOK => NormalizeIsIdempotent
  <2> SUFFICES ASSUME TypeOK, NEW n1 \in Now, NEW n2 \in Now
               PROVE  LET g == NormalizeAll(graph, n1) IN NormalizeAll(g, n2) = g
    BY DEF NormalizeIsIdempotent
  <2> DEFINE row(i) == Normalized(graph.entities[i], n1)
             rows == [i \in DOMAIN graph.entities |-> row(i)]
  <2>1. graph \in Graph /\ \A i \in DOMAIN graph.entities : graph.entities[i] \in Entity
    BY Rows DEF TypeOK, Graph
  <2>2. NormalizeAll(graph, n1) = [entities |-> rows, relations |-> graph.relations]
    BY <2>1 DEF NormalizeAll, Graph
  <2>3. ASSUME NEW i \in DOMAIN graph.entities PROVE Normalized(row(i), n2) = row(i)
    <3>1. graph.entities[i] \in Entity /\ graph.entities[i].type \in TypeNames
      BY <2>1 DEF Entity
    <3>2. row(i).type = NormalizeType(graph.entities[i].type)
      BY <3>1 DEF Normalized, Entity
    <3>3. NormalizeType(row(i).type) = row(i).type
      BY <3>1, <3>2, NormalIsNormal
    <3> QED BY <3>3 DEF Normalized
  <2> HIDE DEF row
  <2>4. [i \in DOMAIN rows |-> Normalized(rows[i], n2)] = rows
    BY <2>3
  <2> QED BY <2>2, <2>4 DEF NormalizeAll
<1> QED BY <1>1, GraphTyped, PTL

-----------------------------------------------------------------------------
(* Renaming back and merging                                               *)

\* A row but for its stamp.
Bare(row) == [row EXCEPT !.updated = None]

\* Graphs are the same but for the stamps when their rows are.
LEMMA BareRows ==
    ASSUME NEW g, NEW h,
           DOMAIN h.entities = DOMAIN g.entities, DOMAIN h.relations = DOMAIN g.relations,
           \A i \in DOMAIN g.entities : Bare(h.entities[i]) = Bare(g.entities[i]),
           \A i \in DOMAIN g.relations : Bare(h.relations[i]) = Bare(g.relations[i])
    PROVE  Unstamped(h) = Unstamped(g)
<1> DEFINE E(x) == [i \in DOMAIN x.entities |-> Bare(x.entities[i])]
           R(x) == [i \in DOMAIN x.relations |-> Bare(x.relations[i])]
<1>1. E(h) = E(g) /\ R(h) = R(g)
  OBVIOUS
<1>2. \A x : Unstamped(x) = [entities |-> E(x), relations |-> R(x)]
  BY DEF Unstamped, Bare
<1> HIDE DEF E, R
<1> QED BY <1>1, <1>2

\* A row renamed there and back.
LEMMA RowBack ==
    ASSUME NEW e \in Entity, NEW to, NEW now
    PROVE  /\ RenamedRow(e, to, now).name = to
           /\ Bare(RenamedRow(RenamedRow(e, to, now), e.name, now)) = Bare(e)
BY DEF RenamedRow, Bare, Entity

\* A relation that did not mention the new name, re-pointed there and back.
LEMMA RelationBack ==
    ASSUME NEW r \in Relation, NEW n, NEW to, to \notin {r.from, r.to}, NEW now
    PROVE  Bare(MovedRow(MovedRow(r, n, to, now), to, n, now)) = Bare(r)
<1> DEFINE q == MovedRow(r, n, to, now)
<1>1. CASE Touches(r, n)
  <2>1. q = [from |-> IF r.from = n THEN to ELSE r.from, to |-> IF r.to = n THEN to ELSE r.to,
             type |-> r.type, created |-> r.created, updated |-> now]
    BY <1>1 DEF MovedRow, Repoint, Relation
  <2> HIDE DEF q
  <2>2. Touches(q, to)
    BY <1>1, <2>1 DEF Touches
  <2>3. MovedRow(q, to, n, now)
          = [from |-> IF q.from = to THEN n ELSE q.from, to |-> IF q.to = to THEN n ELSE q.to,
             type |-> r.type, created |-> r.created, updated |-> now]
    BY <2>1, <2>2 DEF MovedRow, Repoint
  <2>4. (IF q.from = to THEN n ELSE q.from) = r.from /\ (IF q.to = to THEN n ELSE q.to) = r.to
    BY <2>1
  <2>5. MovedRow(q, to, n, now) = [from |-> r.from, to |-> r.to, type |-> r.type,
                                   created |-> r.created, updated |-> now]
    BY <2>3, <2>4
  <2> QED BY <2>5 DEF q, Bare, Relation
<1>2. CASE ~Touches(r, n)
  BY <1>2 DEF MovedRow, Touches
<1> QED BY <1>1, <1>2

\* When names identify entities, a rename to a name that nothing mentions can be
\* taken back: nothing is lost but the stamps.
LEMMA RenamedBack ==
    ASSUME NEW g \in Graph, OneOfAName(g), NEW n \in Names, NEW to \in Names,
           CanRename(g, n, to), to \notin Endpoints(g), NEW now \in Times
    PROVE  LET there == RenameEntity(g, n, to, now)
           IN /\ CanRename(there, to, n)
              /\ Unstamped(RenameEntity(there, to, n, now)) = Unstamped(g)
<1> DEFINE h == RenameEntity(g, n, to, now)
           k == EntityIndex(g, n)
           back == RenameEntity(h, to, n, now)
<1>1. n # to /\ HasEntity(g, n) /\ ~HasEntity(g, to)
  BY DEF CanRename
<1>2. /\ k \in DOMAIN g.entities /\ g.entities[k].name = n
      /\ \A i \in DOMAIN g.entities : g.entities[i] \in Entity
      /\ \A i \in DOMAIN g.relations : g.relations[i] \in Relation
  BY <1>1, Looking, Rows DEF Graph
<1>3. h \in Graph
  BY RenameDoes
<1>4. /\ DOMAIN h.entities = DOMAIN g.entities /\ DOMAIN h.relations = DOMAIN g.relations
      /\ \A i \in DOMAIN g.entities :
            h.entities[i] = IF i = k THEN RenamedRow(g.entities[k], to, now) ELSE g.entities[i]
      /\ \A i \in DOMAIN g.relations : h.relations[i] = MovedRow(g.relations[i], n, to, now)
  BY <1>1, RenameRows
<1> HIDE DEF h, k
<1>5. \A i \in DOMAIN g.entities : g.entities[i].name # to /\ (g.entities[i].name = n => i = k)
  BY <1>1, <1>2 DEF HasEntity, Named, OneOfAName, Distinct
<1>6. h.entities[k].name = to
  BY <1>2, <1>4, RowBack
<1>7. \A i \in DOMAIN h.entities : /\ h.entities[i].name # n
                                   /\ h.entities[i].name = to => i = k
  BY <1>1, <1>4, <1>5, <1>6
<1>8. HasEntity(h, to) /\ ~HasEntity(h, n) /\ k \in DOMAIN h.entities
  BY <1>2, <1>4, <1>6, <1>7 DEF HasEntity, Named
<1>9. EntityIndex(h, to) = k
  <2>1. EntityIndex(h, to) \in DOMAIN h.entities /\ h.entities[EntityIndex(h, to)].name = to
    BY <1>3, <1>8, Looking
  <2> QED BY <1>7, <2>1
<1>10. /\ DOMAIN back.entities = DOMAIN h.entities /\ DOMAIN back.relations = DOMAIN h.relations
       /\ \A i \in DOMAIN h.entities :
             back.entities[i] = IF i = EntityIndex(h, to)
                                THEN RenamedRow(h.entities[EntityIndex(h, to)], n, now)
                                ELSE h.entities[i]
       /\ \A i \in DOMAIN h.relations : back.relations[i] = MovedRow(h.relations[i], to, n, now)
  BY <1>3, <1>8, RenameRows
<1> HIDE DEF back
<1>11. ASSUME NEW i \in DOMAIN g.entities PROVE Bare(back.entities[i]) = Bare(g.entities[i])
  <2>1. CASE i = k
    <3>1. back.entities[i] = RenamedRow(RenamedRow(g.entities[k], to, now), n, now)
      BY <1>4, <1>9, <1>10, <2>1
    <3> QED BY <1>2, <2>1, <3>1, RowBack
  <2>2. CASE i # k
    BY <1>4, <1>9, <1>10, <2>2
  <2> QED BY <2>1, <2>2
<1>12. ASSUME NEW i \in DOMAIN g.relations PROVE Bare(back.relations[i]) = Bare(g.relations[i])
  <2>1. back.relations[i] = MovedRow(MovedRow(g.relations[i], n, to, now), to, n, now)
    BY <1>4, <1>10
  <2>2. to \notin {g.relations[i].from, g.relations[i].to}
    BY EndpointRows
  <2> QED BY <1>2, <2>1, <2>2, RelationBack
<1>13. Unstamped(back) = Unstamped(g)
  BY <1>4, <1>10, <1>11, <1>12, BareRows
<1> QED BY <1>1, <1>8, <1>13 DEF CanRename, h, back

\* When names identify entities, every rename to a name that nothing mentions
\* can be taken back, whatever the clock reads.
THEOREM RenamesCanBeTakenBack == ASSUME NamedOnce PROVE Spec => []RenameReversible
<1>1. TypeOK /\ UniqueNames => RenameReversible
  <2> SUFFICES ASSUME TypeOK, UniqueNames, NEW m \in Moves, NEW now \in Now,
                      CanRename(graph, m[1], m[2]), m[2] \notin Endpoints(graph)
               PROVE  LET there == RenameEntity(graph, m[1], m[2], now)
                      IN /\ CanRename(there, m[2], m[1])
                         /\ Unstamped(RenameEntity(there, m[2], m[1], now)) = Unstamped(graph)
    BY DEF RenameReversible
  <2>1. graph \in Graph /\ OneOfAName(graph) /\ now \in Times
    BY NowIsTime DEF TypeOK, UniqueNames, OneOfAName
  <2>2. m[1] \in Names /\ m[2] \in Names
    BY ArgumentsTyped
  <2> QED BY <2>1, <2>2, RenamedBack
<1> QED BY <1>1, GraphTyped, NamesIdentify, PTL

-----------------------------------------------------------------------------
(* Merging                                                                 *)

\* The relations of a graph once re-pointed, but the self-loops.
Sent(g, source, target) ==
    {r \in {Repoint(q, source, target) : q \in Range(g.relations)} : r.from # r.to}

\* The dates of the relations with a key.
SentDates(R, key) == {r.created : r \in {q \in R : Key(q) = key}} \ {None}

\* A merge leaves one row for each key of the re-pointed relations, as old as
\* the oldest of them.
LEMMA MergeSends ==
    ASSUME NEW g \in Graph, NEW source, NEW target \in Names,
           CanMerge(g, source, target), NEW now \in Times
    PROVE  LET rs == MergeEntities(g, source, target, now).relations
               sent == Sent(g, source, target)
           IN /\ \A n \in DOMAIN rs : \E r \in sent : Key(rs[n]) = Key(r)
              /\ \A r \in sent : \E n \in DOMAIN rs : Key(rs[n]) = Key(r)
              /\ \A n \in DOMAIN rs : EarliestOf(rs[n].created, SentDates(sent, Key(rs[n])))
<1> DEFINE sent == Sent(g, source, target)
           repointed == [i \in DOMAIN g.relations |-> Repoint(g.relations[i], source, target)]
           M == {i \in DOMAIN repointed : repointed[i].from # repointed[i].to}
           noLoops == Retain(repointed, M)
           rs == MergeEntities(g, source, target, now).relations
<1>1. rs = Dedupe(noLoops)
  BY Zenon DEF MergeEntities
<1>2. g.relations \in Seq(Relation)
  BY DEF Graph
<1>3. repointed \in [DOMAIN g.relations -> Relation]
  BY <1>2, Rows, RepointTyped
<1>4. sent = {repointed[i] : i \in M}
  BY DEF Sent, Range
<1>5. M \in SUBSET DOMAIN repointed
  OBVIOUS
<1> HIDE DEF repointed, M, sent
<1>6. repointed \in Seq(Relation)
  BY <1>2, <1>3, Rewritten
<1>7. /\ noLoops \in Seq(Relation)
      /\ \A n \in DOMAIN noLoops : Nth(M, n) \in M /\ noLoops[n] = repointed[Nth(M, n)]
      /\ \A i \in M : \E n \in DOMAIN noLoops : Nth(M, n) = i
  BY <1>5, <1>6, RetainRows
<1> HIDE DEF noLoops
<1>8. sent = {noLoops[n] : n \in DOMAIN noLoops}
  BY <1>4, <1>7
<1>9. /\ \A n \in DOMAIN Dedupe(noLoops) : \E i \in DOMAIN noLoops : Dedupe(noLoops)[n] = noLoops[i]
      /\ \A i \in DOMAIN noLoops :
            \E n \in DOMAIN Dedupe(noLoops) : Key(Dedupe(noLoops)[n]) = Key(noLoops[i])
      /\ \A n \in DOMAIN Dedupe(noLoops) :
            EarliestOf(Dedupe(noLoops)[n].created, DatesOf(noLoops, Key(Dedupe(noLoops)[n])))
  BY <1>7, DedupeDoes
<1>10. \A k : DatesOf(noLoops, k) = SentDates(sent, k)
  BY <1>8 DEF DatesOf, SentDates
<1> HIDE DEF rs
<1>11. \A n \in DOMAIN rs : \E r \in sent : Key(rs[n]) = Key(r)
  BY <1>1, <1>8, <1>9
<1>12. \A r \in sent : \E n \in DOMAIN rs : Key(rs[n]) = Key(r)
  BY <1>1, <1>8, <1>9
<1>13. \A n \in DOMAIN rs : EarliestOf(rs[n].created, SentDates(sent, Key(rs[n])))
  BY <1>1, <1>9, <1>10
<1> QED BY <1>11, <1>12, <1>13 DEF rs, sent

\* The first row of the target stays the first of its name, having absorbed the
\* source's.
LEMMA MergedTarget ==
    ASSUME NEW g \in Graph, NEW source, NEW target \in Names,
           CanMerge(g, source, target), NEW now \in Times
    PROVE  LET h == MergeEntities(g, source, target, now)
           IN /\ HasEntity(h, target)
              /\ EntityOf(h, target) = Absorb(EntityOf(g, source), EntityOf(g, target), now)
<1> DEFINE h == MergeEntities(g, source, target, now)
           K == Others(g, source)
           t == EntityIndex(g, target)
           new == Absorb(EntityOf(g, source), EntityOf(g, target), now)
<1>1. /\ h \in Graph
      /\ \A n \in DOMAIN h.entities :
            /\ Nth(K, n) \in K
            /\ h.entities[n] = IF Nth(K, n) = t THEN new ELSE g.entities[Nth(K, n)]
            /\ h.entities[n].name = g.entities[Nth(K, n)].name
      /\ \A i \in K : \E n \in DOMAIN h.entities : Nth(K, n) = i
      /\ t \in K
  BY MergeDoes
<1>2. /\ t \in DOMAIN g.entities /\ g.entities[t].name = target
      /\ \A i \in DOMAIN g.entities : g.entities[i].name = target => t <= i
  BY Looking DEF CanMerge
<1>3. /\ Len(g.entities) \in Nat /\ DOMAIN g.entities = 1..Len(g.entities)
      /\ K \in SUBSET (1..Len(g.entities))
  BY Rows DEF Graph, Others
<1>4. DOMAIN h.entities = 1..Cardinality(K)
  <2> DEFINE merged == [g.entities EXCEPT ![t] = Absorb(EntityOf(g, source), @, now)]
             L == {i \in DOMAIN merged : merged[i].name # source}
  <2>1. h.entities = Retain(merged, L)
    BY Zenon DEF MergeEntities
  <2>2. \A i \in DOMAIN g.entities :
           merged[i] = IF i = t THEN Absorb(EntityOf(g, source), g.entities[t], now)
                       ELSE g.entities[i]
    BY <1>2
  <2>3. Absorb(EntityOf(g, source), g.entities[t], now).name = g.entities[t].name
    <3>1. EntityOf(g, source) \in Entity /\ g.entities[t] \in Entity
      BY <1>2, Looking, Rows DEF CanMerge, Graph
    <3> QED BY <3>1, AbsorbDoes
  <2>4. DOMAIN merged = DOMAIN g.entities
    OBVIOUS
  <2> HIDE DEF merged, t
  <2>5. L = K
    BY <2>2, <2>3, <2>4 DEF Others
  <2> QED BY <2>1, <2>5 DEF Retain
<1> HIDE DEF h, K, t, new
<1>5. PICK n \in DOMAIN h.entities : Nth(K, n) = t
  BY <1>1
<1>6. h.entities[n] = new /\ h.entities[n].name = target
  BY <1>1, <1>2, <1>5
<1>7. HasEntity(h, target)
  BY <1>6 DEF HasEntity, Named
<1> DEFINE f == EntityIndex(h, target)
<1>8. /\ f \in DOMAIN h.entities /\ h.entities[f].name = target /\ f <= n
      /\ EntityOf(h, target) = h.entities[f]
  BY <1>1, <1>6, <1>7, Looking
<1> HIDE DEF f
<1>9. t <= Nth(K, f)
  BY <1>1, <1>2, <1>3, <1>8
<1>10. ~(f < n)
  <2>1. f < n => Nth(K, f) < Nth(K, n)
    BY <1>3, <1>4, <1>8, NthGrows
  <2>2. t \in Int /\ Nth(K, f) \in Int
    BY <1>1, <1>3, <1>8
  <2> QED BY <1>5, <1>9, <2>1, <2>2
<1>11. f = n
  <2>1. f \in Int /\ n \in Int
    BY <1>4, <1>8
  <2> QED BY <1>8, <1>10, <2>1
<1> QED BY <1>6, <1>7, <1>8, <1>11 DEF h, new

\* The least of a set of dates, when there is one.
LEMMA LeastDate ==
    ASSUME NEW D, NEW x, EarliestOf(x, D), D \subseteq Int
    PROVE  x = IF D = {} THEN None ELSE Min(D)
<1>1. CASE D # {}
  <2>1. x \in D /\ \A d \in D : x <= d
    BY <1>1 DEF EarliestOf
  <2>2. Min(D) \in D /\ \A d \in D : Min(D) <= d
    BY <2>1 DEF Min
  <2> DEFINE y == Min(D)
  <2>3. x <= y /\ y <= x /\ x \in Int /\ y \in Int
    BY <2>1, <2>2
  <2> HIDE DEF y
  <2>4. x = y
    BY <2>3
  <2> QED BY <1>1, <2>4 DEF y
<1> QED BY <1>1 DEF EarliestOf

\* The facts that come first are a prefix.
LEMMA PrefixOf ==
    ASSUME NEW S, NEW s \in Seq(S), NEW t \in Seq(S), DOMAIN t \subseteq DOMAIN s,
           \A k \in DOMAIN t : s[k] = t[k]
    PROVE  SubSeq(s, 1, Len(t)) = t
<1>1. /\ Len(s) \in Nat /\ DOMAIN s = 1..Len(s)
      /\ Len(t) \in Nat /\ DOMAIN t = 1..Len(t)
  BY Rows
<1>2. SubSeq(s, 1, Len(t)) = [i \in 1..Len(t) |-> s[i]]
  BY <1>1, SubSeqProperties
<1>3. t = [i \in DOMAIN t |-> t[i]]
  BY <1>1
<1> QED BY <1>1, <1>2, <1>3

\* What merge_entities keeps of source and target and of the relations.
Unites(g, source, target, now) ==
    LET s == EntityOf(g, source)
        t == EntityOf(g, target)
        merged == MergeEntities(g, source, target, now)
        t2 == EntityOf(merged, target)
        sent == Sent(g, source, target)
    IN /\ SubSeq(t2.facts, 1, Len(t.facts)) = t.facts
       /\ Texts(t2) = Texts(s) \cup Texts(t)
       /\ t2.created = Earliest(s.created, t.created)
       /\ ~HasEntity(merged, source) /\ source \notin Endpoints(merged)
       /\ Keys(merged) = {Key(r) : r \in sent}
       /\ Distinct(merged.relations, Key)
       /\ \A r \in Range(merged.relations) :
             r.created = IF SentDates(sent, Key(r)) = {} THEN None
                         ELSE Min(SentDates(sent, Key(r)))

\* A merge loses nothing and invents nothing.
LEMMA MergeUnitesRows ==
    ASSUME NEW g \in Graph, NEW source, NEW target \in Names,
           CanMerge(g, source, target), NEW now \in Times
    PROVE  Unites(g, source, target, now)
<1> DEFINE s == EntityOf(g, source)
           t == EntityOf(g, target)
           merged == MergeEntities(g, source, target, now)
           t2 == EntityOf(merged, target)
           sent == Sent(g, source, target)
<1>1. s \in Entity /\ t \in Entity /\ source # target
  BY Looking DEF CanMerge
<1>2. t2 = Absorb(s, t, now)
  BY MergedTarget
<1>3. /\ t2 \in Entity /\ Texts(t2) = Texts(s) \cup Texts(t)
      /\ DOMAIN t.facts \subseteq DOMAIN t2.facts
      /\ \A k \in DOMAIN t.facts : t2.facts[k] = t.facts[k]
      /\ t2.created = Earliest(s.created, t.created)
  <2> HIDE DEF s, t, t2
  <2> QED BY <1>1, <1>2, AbsorbDoes
<1>4. SubSeq(t2.facts, 1, Len(t.facts)) = t.facts
  <2> HIDE DEF s, t, t2
  <2> QED BY <1>1, <1>3, PrefixOf DEF Entity
<1>5. /\ \A n \in DOMAIN merged.entities :
            /\ Nth(Others(g, source), n) \in Others(g, source)
            /\ merged.entities[n].name = g.entities[Nth(Others(g, source), n)].name
      /\ \A n \in DOMAIN merged.relations : \E i \in DOMAIN g.relations :
            merged.relations[n] = Repoint(g.relations[i], source, target)
      /\ Distinct(merged.relations, Key) /\ merged \in Graph
  <2>1. /\ merged \in Graph
        /\ \A n \in DOMAIN merged.entities :
              /\ Nth(Others(g, source), n) \in Others(g, source)
              /\ merged.entities[n].name = g.entities[Nth(Others(g, source), n)].name
        /\ \A n \in DOMAIN merged.relations : \E i \in DOMAIN g.relations :
              merged.relations[n] = Repoint(g.relations[i], source, target)
    BY MergeDoes
  <2>2. Distinct(merged.relations, Key)
    BY Zenon, MergeDoes
  <2> QED BY <2>1, <2>2
<1>6. /\ \A n \in DOMAIN merged.relations : \E r \in sent : Key(merged.relations[n]) = Key(r)
      /\ \A r \in sent : \E n \in DOMAIN merged.relations : Key(merged.relations[n]) = Key(r)
      /\ \A n \in DOMAIN merged.relations :
            EarliestOf(merged.relations[n].created, SentDates(sent, Key(merged.relations[n])))
  BY MergeSends
<1>7. \A r \in sent : r.created \in Stamps
  <2>1. \A q \in Range(g.relations) : Repoint(q, source, target) \in Relation
    BY Rows, RepointTyped DEF Range, Graph
  <2> QED BY <2>1 DEF Sent, Relation
<1> HIDE DEF merged, sent
<1>8. ~HasEntity(merged, source)
  BY <1>5 DEF HasEntity, Named, Others
<1>9. source \notin Endpoints(merged)
  <2>1. \A i \in DOMAIN g.relations : g.relations[i] \in Relation
    BY Rows DEF Graph
  <2>2. \A n \in DOMAIN merged.relations :
           merged.relations[n].from # source /\ merged.relations[n].to # source
    BY <1>1, <1>5, <2>1, RepointTyped
  <2> QED BY <2>2, EndpointRows
<1>10. Keys(merged) = {Key(r) : r \in sent}
  BY <1>6 DEF Keys
<1>11. ASSUME NEW r \in Range(merged.relations)
       PROVE  r.created = IF SentDates(sent, Key(r)) = {} THEN None ELSE Min(SentDates(sent, Key(r)))
  <2>1. EarliestOf(r.created, SentDates(sent, Key(r)))
    BY <1>6 DEF Range
  <2>2. SentDates(sent, Key(r)) \subseteq Int
    BY <1>7, TypesAssumption DEF SentDates, Stamps
  <2> QED BY <2>1, <2>2, LeastDate
<1> HIDE DEF s, t, t2
<1> QED BY <1>3, <1>4, <1>5, <1>8, <1>9, <1>10, <1>11 DEF s, t, t2, merged, sent, Unites

\* Whatever two entities of whatever graph are merged, nothing either of them
\* had is lost: texts, places of the target's facts, the older creation date,
\* and one row, dated as early as any, for every relation that is no loop.
THEOREM MergesUnite == Spec => []MergeUnites
<1>1. TypeOK => MergeUnites
  <2> SUFFICES ASSUME TypeOK, NEW m \in Moves, CanMerge(graph, m[1], m[2])
               PROVE  Unites(graph, m[1], m[2], clock)
    BY DEF MergeUnites, Unites, Sent, SentDates
  <2>1. graph \in Graph /\ clock \in Times
    BY NowIsTime DEF TypeOK
  <2>2. m[2] \in Names
    BY ArgumentsTyped
  <2> QED BY <2>1, <2>2, MergeUnitesRows
<1> QED BY <1>1, GraphTyped, PTL
=============================================================================
