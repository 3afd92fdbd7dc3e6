----------------------------- MODULE QueryProofs -----------------------------
(***************************************************************************)
(* That the reads of a graph agree with each other (GraphViews) and that   *)
(* search_facts makes out the history of a fact (GraphHistory), for every  *)
(* graph; and that canonical instants, with or without a fraction of a     *)
(* second, order as the times they name (Instants).                        *)
(***************************************************************************)
EXTENDS GraphHistory, GraphViews, GraphProofs, Instants

-----------------------------------------------------------------------------
(* Counting                                                                *)

\* Sets whose members correspond have equally many.
LEMMA SameSize ==
    ASSUME NEW A, NEW B, NEW f, IsFiniteSet(B),
           \A a \in A : f[a] \in B,
           \A a, c \in A : f[a] = f[c] => a = c,
           \A b \in B : \E a \in A : f[a] = b
    PROVE  IsFiniteSet(A) /\ Cardinality(A) = Cardinality(B)
<1> DEFINE h == [a \in A |-> f[a]]
<1>1. h \in [A -> B]
  OBVIOUS
<1>2. h \in Injection(A, B)
  <2>1. \A a, c \in A : h[a] = h[c] => a = c
    OBVIOUS
  <2> HIDE DEF h
  <2> QED BY <1>1, <2>1, Fun_IsInj
<1>3. h \in Surjection(A, B)
  <2>1. \A b \in B : \E a \in A : h[a] = b
    OBVIOUS
  <2> HIDE DEF h
  <2> QED BY <1>1, <2>1, Fun_IsSurj
<1> HIDE DEF h
<1>4. h \in Bijection(A, B)
  BY <1>2, <1>3, Fun_IsBij
<1>5. ExistsBijection(A, B)
  BY <1>4 DEF ExistsBijection
<1>6. IsFiniteSet(A)
  BY <1>2, FS_Injection
<1> QED BY <1>5, <1>6, FS_Bijection

\* A row that is retained occurs as often as it did at the places retained.
LEMMA CountRetain ==
    ASSUME NEW S, NEW s \in Seq(S), NEW K \in SUBSET DOMAIN s, NEW v
    PROVE  Count(Retain(s, K), v) = Cardinality({i \in K : s[i] = v})
<1>1. /\ Retain(s, K) \in Seq(S)
      /\ \A n \in DOMAIN Retain(s, K) : Nth(K, n) \in K /\ Retain(s, K)[n] = s[Nth(K, n)]
      /\ \A n, k \in DOMAIN Retain(s, K) : Nth(K, n) = Nth(K, k) => n = k
      /\ \A i \in K : \E n \in DOMAIN Retain(s, K) : Nth(K, n) = i
  BY RetainRows
<1> DEFINE A == {n \in DOMAIN Retain(s, K) : Retain(s, K)[n] = v}
           B == {i \in K : s[i] = v}
           f == [n \in DOMAIN Retain(s, K) |-> Nth(K, n)]
<1>2. IsFiniteSet(B)
  <2>1. Len(s) \in Nat /\ B \in SUBSET (1..Len(s))
    BY Rows
  <2> HIDE DEF B
  <2> QED BY <2>1, Ranks
<1>3. /\ \A n \in A : f[n] \in B
      /\ \A n, k \in A : f[n] = f[k] => n = k
  BY <1>1
<1>4. ASSUME NEW i \in B PROVE \E n \in A : f[n] = i
  <2>1. PICK n \in DOMAIN Retain(s, K) : Nth(K, n) = i
    BY <1>1
  <2> QED BY <1>1, <2>1
<1> HIDE DEF A, B, f
<1>5. Cardinality(A) = Cardinality(B)
  BY <1>2, <1>3, <1>4, SameSize
<1> QED BY <1>5 DEF A, B, Count

\* Retaining twice retains what both times do.
LEMMA RetainTwice ==
    ASSUME NEW S, NEW s \in Seq(S), NEW K \in SUBSET DOMAIN s, NEW L \in SUBSET K, NEW M,
           M = {n \in 1..Cardinality(K) : Nth(K, n) \in L}
    PROVE  Retain(Retain(s, K), M) = Retain(s, L)
<1> DEFINE t == Retain(s, K)
<1>1. /\ t \in Seq(S) /\ DOMAIN t = 1..Cardinality(K)
      /\ \A n \in DOMAIN t : Nth(K, n) \in K /\ t[n] = s[Nth(K, n)]
      /\ \A n, k \in DOMAIN t : Nth(K, n) = Nth(K, k) => n = k
      /\ \A i \in K : \E n \in DOMAIN t : Nth(K, n) = i
  BY RetainRows
<1> HIDE DEF t
<1>2. Len(s) \in Nat /\ K \in SUBSET (1..Len(s)) /\ L \in SUBSET (1..Len(s))
  BY Rows
<1>3. Cardinality(K) \in Nat /\ M \in SUBSET (1..Cardinality(K))
  BY <1>2, Ranks
<1>4. IsFiniteSet(L)
  BY <1>2, Ranks
<1>5. \A n, k \in 1..Cardinality(K) : Nth(K, n) <= Nth(K, k) <=> n <= k
  <2> TAKE n, k \in 1..Cardinality(K)
  <2>1. n \in Int /\ k \in Int
    OBVIOUS
  <2>2. Nth(K, n) \in 1..Len(s) /\ Nth(K, k) \in 1..Len(s)
    BY <1>1, <1>2
  <2>3. n < k => Nth(K, n) < Nth(K, k)
    BY <1>2, NthGrows
  <2>4. k < n => Nth(K, k) < Nth(K, n)
    BY <1>2, NthGrows
  <2> QED BY <2>1, <2>2, <2>3, <2>4
<1>6. ASSUME NEW A \in SUBSET M, NEW B \in SUBSET L,
             \A n \in M : n \in A <=> Nth(K, n) \in B
      PROVE  Cardinality(A) = Cardinality(B)
  <2> DEFINE f == [n \in 1..Cardinality(K) |-> Nth(K, n)]
  <2>1. IsFiniteSet(B)
    BY <1>4, FS_Subset
  <2>2. \A n \in A : f[n] \in B
    BY <1>3, <1>6
  <2>3. \A n, k \in A : f[n] = f[k] => n = k
    BY <1>1, <1>3
  <2>4. ASSUME NEW i \in B PROVE \E n \in A : f[n] = i
    <3>1. PICK n \in 1..Cardinality(K) : Nth(K, n) = i
      BY <1>1
    <3>2. n \in M
      BY <3>1
    <3> QED BY <1>6, <3>1, <3>2
  <2> HIDE DEF f
  <2> QED BY <2>1, <2>2, <2>3, <2>4, SameSize
<1>7. Cardinality(M) = Cardinality(L)
  BY <1>6
<1>8. \A n \in 1..Cardinality(M) : Nth(M, n) \in M /\ Cardinality(UpTo(M, Nth(M, n))) = n
  BY <1>3, NthOf
<1>9. \A i, j \in L : Cardinality(UpTo(L, i)) = Cardinality(UpTo(L, j)) => i = j
  BY <1>2, Ranks
<1>10. \A n \in 1..Cardinality(L) : Nth(L, n) \in L /\ Cardinality(UpTo(L, Nth(L, n))) = n
  BY <1>2, NthOf
<1>11. ASSUME NEW n \in 1..Cardinality(M) PROVE Nth(K, Nth(M, n)) = Nth(L, n)
  <2>1. PICK m \in M : m = Nth(M, n) /\ Cardinality(UpTo(M, m)) = n
    BY <1>8
  <2>2. PICK i \in L : i = Nth(K, m)
    OBVIOUS
  <2>3. Cardinality(UpTo(M, m)) = Cardinality(UpTo(L, i))
    <3>1. UpTo(M, m) \in SUBSET M /\ UpTo(L, i) \in SUBSET L
      BY DEF UpTo
    <3>2. \A k \in M : k \in UpTo(M, m) <=> Nth(K, k) \in UpTo(L, i)
      BY <1>3, <1>5, <2>2 DEF UpTo
    <3> QED BY <1>6, <3>1, <3>2
  <2>4. PICK j \in L : j = Nth(L, n) /\ Cardinality(UpTo(L, j)) = n
    BY <1>7, <1>10
  <2>5. i = j
    BY <1>9, <2>1, <2>3, <2>4
  <2> QED BY <2>1, <2>2, <2>4, <2>5
<1>12. \A n \in 1..Cardinality(M) : t[Nth(M, n)] = s[Nth(L, n)]
  BY <1>1, <1>3, <1>8, <1>11
<1>13. Retain(t, M) = Retain(s, L)
  BY <1>7, <1>12 DEF Retain
<1> QED BY <1>13 DEF t

\* All that is retained of a row, if its places are, and nothing, if none is.
LEMMA CountKept ==
    ASSUME NEW S, NEW s \in Seq(S), NEW K \in SUBSET DOMAIN s, NEW v
    PROVE  /\ Count(s, v) \in Nat
           /\ (\A i \in DOMAIN s : s[i] = v => i \in K) => Count(Retain(s, K), v) = Count(s, v)
           /\ (\A i \in DOMAIN s : s[i] = v => i \notin K) => Count(Retain(s, K), v) = 0
<1>1. Count(s, v) \in Nat
  <2> DEFINE A == {i \in DOMAIN s : s[i] = v}
  <2>1. Len(s) \in Nat /\ A \in SUBSET (1..Len(s))
    BY Rows
  <2> HIDE DEF A
  <2>2. Cardinality(A) \in Nat
    BY <2>1, Ranks
  <2> QED BY <2>2 DEF A, Count
<1>2. Count(Retain(s, K), v) = Cardinality({i \in K : s[i] = v})
  BY CountRetain
<1>3. ASSUME \A i \in DOMAIN s : s[i] = v => i \in K
      PROVE  Count(Retain(s, K), v) = Count(s, v)
  <2>1. {i \in K : s[i] = v} = {i \in DOMAIN s : s[i] = v}
    BY <1>3
  <2> QED BY <1>2, <2>1 DEF Count
<1>4. ASSUME \A i \in DOMAIN s : s[i] = v => i \notin K
      PROVE  Count(Retain(s, K), v) = 0
  <2>1. {i \in K : s[i] = v} = {}
    BY <1>4
  <2> QED BY <1>2, <2>1, FS_EmptySet
<1> QED BY <1>1, <1>3, <1>4

-----------------------------------------------------------------------------
(* Pages, drawings and lists                                               *)

\* The relations that an entity page starts from.
Touching(g, n) == {i \in DOMAIN g.relations : {g.relations[i].from, g.relations[i].to} \cap {n} # {}}
Opened(g, n) == Retain(g.relations, Touching(g, n))

\* Its two lists of relations.
LEMMA PageLists ==
    ASSUME NEW g, NEW n
    PROVE  LET page == EntityPage(g, n)
               rs == Opened(g, n)
           IN /\ page.outgoing = Retain(rs, {i \in DOMAIN rs : rs[i].from = n})
              /\ page.incoming = Retain(rs, {i \in DOMAIN rs : rs[i].to = n /\ rs[i].from # n})
BY DEF EntityPage, OpenNodes, Incoming, Where, Opened, Touching

\* The relations of an entity, each once.
LEMMA PageShows ==
    ASSUME NEW g \in Graph, NEW n, NEW r \in Range(g.relations)
    PROVE  LET page == EntityPage(g, n) IN
           Count(page.outgoing, r) + Count(page.incoming, r)
           = IF Touches(r, n) THEN Count(g.relations, r) ELSE 0
<1> DEFINE rs == Opened(g, n)
           out == {i \in DOMAIN rs : rs[i].from = n}
           in == {i \in DOMAIN rs : rs[i].to = n /\ rs[i].from # n}
<1>1. g.relations \in Seq(Relation) /\ Touching(g, n) \in SUBSET DOMAIN g.relations
  BY DEF Graph, Touching
<1>2. rs \in Seq(Relation)
  BY <1>1, RetainRows DEF Opened
<1>3. /\ Count(g.relations, r) \in Nat
      /\ Touches(r, n) => Count(rs, r) = Count(g.relations, r)
      /\ ~Touches(r, n) => Count(rs, r) = 0
  <2>1. Count(g.relations, r) \in Nat
    BY <1>1, CountKept
  <2>2. ASSUME Touches(r, n) PROVE Count(rs, r) = Count(g.relations, r)
    <3>1. \A i \in DOMAIN g.relations : g.relations[i] = r => i \in Touching(g, n)
      BY <2>2 DEF Touching, Touches
    <3> QED BY <1>1, <3>1, CountKept DEF Opened
  <2>3. ASSUME ~Touches(r, n) PROVE Count(rs, r) = 0
    <3>1. \A i \in DOMAIN g.relations : g.relations[i] = r => i \notin Touching(g, n)
      BY <2>3 DEF Touching, Touches
    <3> QED BY <1>1, <3>1, CountKept DEF Opened
  <2> QED BY <2>1, <2>2, <2>3
<1> HIDE DEF rs
<1>4. out \in SUBSET DOMAIN rs /\ in \in SUBSET DOMAIN rs
  OBVIOUS
<1>5. /\ r.from = n => Count(Retain(rs, out), r) = Count(rs, r)
      /\ r.from # n => Count(Retain(rs, out), r) = 0
  <2>1. /\ r.from = n => \A i \in DOMAIN rs : rs[i] = r => i \in out
        /\ r.from # n => \A i \in DOMAIN rs : rs[i] = r => i \notin out
    OBVIOUS
  <2> HIDE DEF out
  <2> QED BY <1>2, <1>4, <2>1, CountKept
<1>6. /\ r.to = n /\ r.from # n => Count(Retain(rs, in), r) = Count(rs, r)
      /\ r.to # n \/ r.from = n => Count(Retain(rs, in), r) = 0
  <2>1. /\ r.to = n /\ r.from # n => \A i \in DOMAIN rs : rs[i] = r => i \in in
        /\ r.to # n \/ r.from = n => \A i \in DOMAIN rs : rs[i] = r => i \notin in
    OBVIOUS
  <2> HIDE DEF in
  <2> QED BY <1>2, <1>4, <2>1, CountKept
<1>7. /\ EntityPage(g, n).outgoing = Retain(rs, out)
      /\ EntityPage(g, n).incoming = Retain(rs, in)
  BY PageLists DEF rs
<1> HIDE DEF out, in
<1> DEFINE a == Count(Retain(rs, out), r)
           c == Count(Retain(rs, in), r)
           d == Count(rs, r)
           all == Count(g.relations, r)
<1>8. /\ all \in Nat
      /\ r.from = n => a = d
      /\ r.from # n => a = 0
      /\ r.to = n /\ r.from # n => c = d
      /\ r.to # n \/ r.from = n => c = 0
      /\ r.from = n \/ r.to = n => d = all
      /\ ~(r.from = n \/ r.to = n) => d = 0
  BY <1>3, <1>5, <1>6 DEF Touches
<1>9. Touches(r, n) <=> r.from = n \/ r.to = n
  BY DEF Touches
<1> HIDE DEF a, c, d, all
<1>10. a + c = IF Touches(r, n) THEN all ELSE 0
  BY <1>8, <1>9
<1> QED BY <1>7, <1>10 DEF a, c, all

\* In every reachable graph a relation is shown, with all its copies, once on
\* the page of each of its ends and on no other page.
THEOREM PagesShowAll == Spec => []PagesShowEachRelation
<1>1. TypeOK => PagesShowEachRelation
  <2> SUFFICES ASSUME graph \in Graph,
                      NEW e \in Range(graph.entities), NEW r \in Range(graph.relations)
               PROVE  LET page == EntityPage(graph, e.name)
                      IN Count(page.outgoing, r) + Count(page.incoming, r)
                         = IF Touches(r, e.name) THEN Count(graph.relations, r) ELSE 0
    BY DEF TypeOK, PagesShowEachRelation
  <2> QED BY PageShows
<1> QED BY <1>1, GraphTyped, PTL

\* Of two numbers one is the least and one the greatest.
LEMMA OfTwo ==
    ASSUME NEW a \in Int, NEW c \in Int
    PROVE  /\ Min({a, c}) \in {a, c} /\ Min({a, c}) <= a /\ Min({a, c}) <= c
           /\ Max({a, c}) \in {a, c} /\ a <= Max({a, c}) /\ c <= Max({a, c})
<1>1. CASE a <= c
  <2>1. \A x \in {a, c} : a <= x /\ x <= c
    BY <1>1
  <2>2. \A x \in {a, c} : x = a \/ x = c
    OBVIOUS
  <2> QED BY <2>1, <2>2 DEF Min, Max
<1>2. CASE c <= a
  <2>1. \A x \in {a, c} : c <= x /\ x <= a
    BY <1>2
  <2>2. \A x \in {a, c} : x = a \/ x = c
    OBVIOUS
  <2> QED BY <2>1, <2>2 DEF Min, Max
<1> QED BY <1>1, <1>2

\* The clamp of the depth leaves at least one round of the search.
LEMMA DepthPositive ==
    ASSUME NEW raw
    PROVE  Depth(raw) \in Nat /\ 1 <= Depth(raw)
<1>1. CASE raw \in Int
  <2> DEFINE m == Min({raw, 10})
  <2>1. m \in Int
    <3>1. 10 \in Int /\ raw \in Int
      BY <1>1
    <3>2. Min({raw, 10}) \in {raw, 10}
      BY <3>1, OfTwo
    <3> QED BY <3>1, <3>2
  <2>2. Depth(raw) = Max({1, m})
    BY <1>1 DEF Depth
  <2> HIDE DEF m
  <2>3. Max({1, m}) \in {1, m} /\ 1 <= Max({1, m})
    BY <2>1, OfTwo
  <2> QED BY <2>1, <2>2, <2>3
<1>2. CASE raw \notin Int
  BY <1>2 DEF Depth
<1> QED BY <1>1, <1>2

\* The centre of a drawing is in it, and so are its neighbours; at depth 1
\* nothing else is.
LEMMA DrawnAround ==
    ASSUME NEW g, NEW n, NEW depth \in Nat, 1 <= depth
    PROVE  /\ n \in Within(g, n, depth)
           /\ \A m : Linked(g, n, m) => m \in Within(g, n, depth)
           /\ depth = 1 => \A m \in Within(g, n, depth) : m = n \/ Linked(g, n, m)
<1> DEFINE V == Mentioned(g) \cup {n}
<1>1. n \in Within(g, n, depth)
  <2> DEFINE path == [i \in 0..0 |-> n]
  <2>1. path \in [0..0 -> V] /\ path[0] = n
    OBVIOUS
  <2>2. 0 \in 0..depth /\ \A i \in 1..0 : Linked(g, path[i - 1], path[i])
    OBVIOUS
  <2> HIDE DEF path
  <2> QED BY <2>1, <2>2 DEF Within
<1>2. ASSUME NEW m, Linked(g, n, m) PROVE m \in Within(g, n, depth)
  <2> DEFINE path == [i \in 0..1 |-> IF i = 0 THEN n ELSE m]
  <2>1. m \in V
    BY <1>2 DEF Linked, Mentioned
  <2>2. path \in [0..1 -> V] /\ path[0] = n /\ path[1] = m
    BY <2>1
  <2>3. 1 \in 0..depth /\ \A i \in 1..1 : Linked(g, path[i - 1], path[i])
    BY <1>2, <2>2
  <2> HIDE DEF path
  <2> QED BY <2>1, <2>2, <2>3 DEF Within
<1>3. ASSUME depth = 1, NEW m \in Within(g, n, depth) PROVE m = n \/ Linked(g, n, m)
  <2>1. PICK k \in 0..1 : \E path \in [0..k -> V] :
            /\ path[0] = n /\ path[k] = m
            /\ \A i \in 1..k : Linked(g, path[i - 1], path[i])
    BY <1>3 DEF Within
  <2>2. PICK path \in [0..k -> V] :
            /\ path[0] = n /\ path[k] = m
            /\ \A i \in 1..k : Linked(g, path[i - 1], path[i])
    BY <2>1
  <2>3. CASE k = 0
    BY <2>2, <2>3
  <2>4. CASE k = 1
    <3>1. Linked(g, path[1 - 1], path[1])
      BY <2>2, <2>4
    <3> QED BY <2>2, <2>4, <3>1
  <2> QED BY <2>3, <2>4
<1> QED BY <1>1, <1>2, <1>3

\* The members of a sequence, of what is retained of it, and of two joined.
LEMMA InRange ==
    ASSUME NEW s, NEW v
    PROVE  v \in Range(s) <=> \E i \in DOMAIN s : s[i] = v
BY DEF Range

\* The rows of a selection are the rows at its positions.
LEMMA InRetained ==
    ASSUME NEW S, NEW s \in Seq(S), NEW K \in SUBSET DOMAIN s, NEW v
    PROVE  v \in Range(Retain(s, K)) <=> \E i \in K : s[i] = v
<1>1. /\ Retain(s, K) \in Seq(S)
      /\ DOMAIN Retain(s, K) = 1..Cardinality(K)
      /\ \A n \in DOMAIN Retain(s, K) : Nth(K, n) \in K /\ Retain(s, K)[n] = s[Nth(K, n)]
      /\ \A n, k \in DOMAIN Retain(s, K) : Nth(K, n) = Nth(K, k) => n = k
      /\ \A i \in K : \E n \in DOMAIN Retain(s, K) : Nth(K, n) = i
  BY RetainRows
<1>2. v \in Range(Retain(s, K)) <=> \E n \in DOMAIN Retain(s, K) : Retain(s, K)[n] = v
  BY InRange
<1>3. ASSUME NEW n \in DOMAIN Retain(s, K), Retain(s, K)[n] = v
      PROVE  \E i \in K : s[i] = v
  BY <1>1, <1>3
<1>4. ASSUME NEW i \in K, s[i] = v
      PROVE  \E n \in DOMAIN Retain(s, K) : Retain(s, K)[n] = v
  <2>1. PICK n \in DOMAIN Retain(s, K) : Nth(K, n) = i
    BY <1>1
  <2> QED BY <1>1, <1>4, <2>1
<1> QED BY <1>2, <1>3, <1>4

\* The rows of a concatenation are those of its parts.
LEMMA InJoined ==
    ASSUME NEW S, NEW s \in Seq(S), NEW t \in Seq(S), NEW v
    PROVE  v \in Range(s \o t) <=> v \in Range(s) \/ v \in Range(t)
<1> DEFINE u == s \o t
<1>1. /\ DOMAIN s \subseteq DOMAIN u
      /\ \A i \in DOMAIN s : u[i] = s[i]
      /\ \A i \in DOMAIN u \ DOMAIN s :
            i > Len(s) /\ i - Len(s) \in DOMAIN t /\ u[i] = t[i - Len(s)]
      /\ \A j \in DOMAIN t : Len(s) + j \in DOMAIN u \ DOMAIN s /\ u[Len(s) + j] = t[j]
  BY Joined
<1> HIDE DEF u
<1>2. (\E i \in DOMAIN u : u[i] = v) <=>
          (\E i \in DOMAIN s : s[i] = v) \/ (\E i \in DOMAIN t : t[i] = v)
  BY <1>1
<1> QED BY <1>2, InRange DEF u

\* The rows of a page are those of the relations that touch the entity.
LEMMA PageRows ==
    ASSUME NEW g \in Graph, NEW n
    PROVE  LET page == EntityPage(g, n)
               rows == page.outgoing \o page.incoming
           IN \A r : r \in Range(rows) <=> r \in Range(g.relations) /\ Touches(r, n)
<1> SUFFICES ASSUME NEW r
             PROVE  r \in Range(EntityPage(g, n).outgoing \o EntityPage(g, n).incoming)
                    <=> r \in Range(g.relations) /\ Touches(r, n)
  OBVIOUS
<1> DEFINE rs == Opened(g, n)
           out == {i \in DOMAIN rs : rs[i].from = n}
           in == {i \in DOMAIN rs : rs[i].to = n /\ rs[i].from # n}
           a == Retain(rs, out)
           c == Retain(rs, in)
<1>1. g.relations \in Seq(Relation) /\ Touching(g, n) \in SUBSET DOMAIN g.relations
  BY DEF Graph, Touching
<1>2. rs \in Seq(Relation)
  BY <1>1, RetainRows DEF Opened
<1>3. r \in Range(rs) <=> r \in Range(g.relations) /\ Touches(r, n)
  <2>1. r \in Range(rs) <=> \E i \in Touching(g, n) : g.relations[i] = r
    BY <1>1, InRetained DEF Opened
  <2>2. r \in Range(g.relations) <=> \E i \in DOMAIN g.relations : g.relations[i] = r
    BY InRange
  <2> HIDE DEF rs
  <2> QED BY <2>1, <2>2 DEF Touching, Touches
<1> HIDE DEF rs
<1>4. out \in SUBSET DOMAIN rs /\ in \in SUBSET DOMAIN rs
  OBVIOUS
<1>5. /\ r \in Range(a) <=> \E i \in out : rs[i] = r
      /\ r \in Range(c) <=> \E i \in in : rs[i] = r
  <2> HIDE DEF out, in
  <2> QED BY <1>2, <1>4, InRetained
<1>6. r \in Range(rs) <=> \E i \in DOMAIN rs : rs[i] = r
  BY InRange
<1>7. r \in Range(a) \/ r \in Range(c) <=> r \in Range(rs) /\ Touches(r, n)
  <2> HIDE DEF a, c
  <2> QED BY <1>5, <1>6 DEF Touches
<1>8. a \in Seq(Relation) /\ c \in Seq(Relation)
  <2> HIDE DEF out, in
  <2> QED BY <1>2, <1>4, RetainRows
<1>9. EntityPage(g, n).outgoing = a /\ EntityPage(g, n).incoming = c
  BY PageLists DEF rs
<1> HIDE DEF a, c
<1>10. r \in Range(a \o c) <=> r \in Range(a) \/ r \in Range(c)
  BY <1>8, InJoined
<1> QED BY <1>3, <1>7, <1>9, <1>10

\* What a page shows, its drawing shows.
LEMMA PageDrawn ==
    ASSUME NEW g \in Graph, NEW n, NEW raw
    PROVE  LET page == EntityPage(g, n)
               rows == page.outgoing \o page.incoming
               drawing == GraphData(g, n, Depth(raw))
               ends == {n} \cup UNION {{r.from, r.to} : r \in Range(rows)}
               names == {g.entities[i].name : i \in drawing.nodes}
           IN /\ {i \in drawing.edges : Touches(g.relations[i], n)}
                   = {i \in DOMAIN g.relations : g.relations[i] \in Range(rows)}
              /\ {m \in ends : HasEntity(g, m)} \subseteq names
              /\ Depth(raw) = 1 => names \subseteq ends
<1> DEFINE page == EntityPage(g, n)
           rows == page.outgoing \o page.incoming
           drawing == GraphData(g, n, Depth(raw))
           ends == {n} \cup UNION {{r.from, r.to} : r \in Range(rows)}
           names == {g.entities[i].name : i \in drawing.nodes}
           inside == Within(g, n, Depth(raw))
<1>1. \A r : r \in Range(rows) <=> r \in Range(g.relations) /\ Touches(r, n)
  BY PageRows
<1>2. /\ n \in inside
      /\ \A m : Linked(g, n, m) => m \in inside
      /\ Depth(raw) = 1 => \A m \in inside : m = n \/ Linked(g, n, m)
  BY DepthPositive, DrawnAround
<1>3. /\ drawing.nodes = {i \in DOMAIN g.entities : g.entities[i].name \in inside}
      /\ drawing.edges = {i \in DOMAIN g.relations :
                             {g.relations[i].from, g.relations[i].to} \subseteq inside}
  BY DEF GraphData
<1> HIDE DEF inside, drawing, rows
<1>4. \A i \in DOMAIN g.relations : g.relations[i] \in Range(rows) <=> Touches(g.relations[i], n)
  BY <1>1 DEF Range
<1>5. \A i \in DOMAIN g.relations : Touches(g.relations[i], n) =>
          /\ Linked(g, n, g.relations[i].from) \/ g.relations[i].from = n
          /\ Linked(g, n, g.relations[i].to) \/ g.relations[i].to = n
  BY DEF Touches, Linked
<1>6. \A i \in DOMAIN g.relations : Touches(g.relations[i], n) => i \in drawing.edges
  BY <1>2, <1>3, <1>5
<1>7. {i \in drawing.edges : Touches(g.relations[i], n)}
        = {i \in DOMAIN g.relations : g.relations[i] \in Range(rows)}
  BY <1>3, <1>4, <1>6
<1>8. \A m : m \in ends <=> m = n \/ Linked(g, n, m)
  <2>0. \A m : m \in ends <=> m = n \/ \E r \in Range(rows) : m \in {r.from, r.to}
    <3> TAKE m
    <3> DEFINE pairs == {{r.from, r.to} : r \in Range(rows)}
    <3>1. \A p : p \in pairs <=> \E r \in Range(rows) : p = {r.from, r.to}
      OBVIOUS
    <3>2. ends = {n} \cup UNION pairs
      BY DEF ends
    <3> HIDE DEF pairs, ends
    <3>3. m \in ends <=> m = n \/ \E p \in pairs : m \in p
      BY <3>2
    <3>4. (\E p \in pairs : m \in p) <=> \E r \in Range(rows) : m \in {r.from, r.to}
      <4>1. ASSUME NEW p \in pairs, m \in p
            PROVE  \E r \in Range(rows) : m \in {r.from, r.to}
        <5>1. PICK r \in Range(rows) : p = {r.from, r.to}
          BY <3>1
        <5> QED BY <4>1, <5>1
      <4>2. ASSUME NEW r \in Range(rows), m \in {r.from, r.to}
            PROVE  \E p \in pairs : m \in p
        <5>1. {r.from, r.to} \in pairs
          BY <3>1
        <5> QED BY <4>2, <5>1
      <4> QED BY <4>1, <4>2
    <3> QED BY <3>3, <3>4
  <2> HIDE DEF ends
  <2>1. ASSUME NEW m, m \in ends, m # n PROVE Linked(g, n, m)
    <3>1. PICK r \in Range(rows) : m \in {r.from, r.to}
      BY <2>0, <2>1
    <3>2. PICK i \in DOMAIN g.relations : r = g.relations[i] /\ Touches(r, n)
      BY <1>1 DEF Range
    <3> QED BY <1>5, <2>1, <3>1, <3>2
  <2>2. ASSUME NEW m, Linked(g, n, m) PROVE m \in ends
    <3>1. PICK i \in DOMAIN g.relations :
              {<<n, m>>, <<m, n>>} \cap {<<g.relations[i].from, g.relations[i].to>>} # {}
      BY <2>2 DEF Linked
    <3>2. Touches(g.relations[i], n) /\ m \in {g.relations[i].from, g.relations[i].to}
      BY <3>1 DEF Touches
    <3>3. g.relations[i] \in Range(rows)
      BY <1>4, <3>2
    <3> QED BY <2>0, <3>2, <3>3
  <2> QED BY <2>0, <2>1, <2>2
<1> HIDE DEF ends
<1>9. {m \in ends : HasEntity(g, m)} \subseteq names
  <2> SUFFICES ASSUME NEW m \in ends, HasEntity(g, m) PROVE m \in names
    OBVIOUS
  <2>1. PICK i \in DOMAIN g.entities : g.entities[i].name = m
    BY DEF HasEntity, Named
  <2>2. m \in inside
    BY <1>2, <1>8
  <2> QED BY <1>3, <2>1, <2>2
<1>10. Depth(raw) = 1 => names \subseteq ends
  BY <1>2, <1>3, <1>8
<1> QED BY <1>7, <1>9, <1>10 DEF ends, names, drawing, rows

\* In every reachable graph the drawing around an entity shows, at every depth,
\* the relations of the entity's page and the entities at their other ends, and
\* at depth 1 no other entity.
THEOREM DrawingsShowThePage == Spec => []PageAgreesWithDrawing
<1>1. TypeOK => PageAgreesWithDrawing
  BY PageDrawn DEF TypeOK, PageAgreesWithDrawing
<1> QED BY <1>1, GraphTyped, PTL

\* The list of a type is what a search for the trimmed string finds of it.
LEMMA ListIsSearch ==
    ASSUME NEW g \in Graph, NEW s \in Searches, NEW ty
    PROVE  FilterEntities(g, s, ty)
           = OfType(SearchNodes(g, Containing[Trimmed[s]]).entities, Trimmed[ty])
<1> DEFINE es == g.entities
           q == Trimmed[s]
           t == Trimmed[ty]
           needle == Containing[q]
           K == {i \in DOMAIN es : ({es[i].name, es[i].type} \cup Texts(es[i])) \cap needle # {}}
           L == {i \in DOMAIN es :
                    /\ t \in {NoType, es[i].type}
                    /\ \/ q = NoType
                       \/ es[i].name \in needle \/ es[i].type \in needle
                       \/ \E k \in DOMAIN es[i].facts : es[i].facts[k].text \in needle}
           found == Retain(es, K)
           M == {n \in DOMAIN found : found[n].type = t \/ t = NoType}
<1>1. /\ SearchNodes(g, needle).entities = found
      /\ FilterEntities(g, s, ty) = Retain(es, L)
      /\ OfType(found, t) = Retain(found, M)
  BY DEF SearchNodes, FilterEntities, OfType, Where
<1>2. es \in Seq(Entity) /\ K \in SUBSET DOMAIN es
  BY DEF Graph
<1>3. \A i \in DOMAIN es : i \in L <=> i \in K /\ (es[i].type = t \/ t = NoType)
  <2> TAKE i \in DOMAIN es
  <2>1. (\E k \in DOMAIN es[i].facts : es[i].facts[k].text \in needle)
        <=> Texts(es[i]) \cap needle # {}
    BY DEF Texts
  <2>2. i \in K <=> es[i].name \in needle \/ es[i].type \in needle \/ Texts(es[i]) \cap needle # {}
    OBVIOUS
  <2>3. q = NoType => es[i].name \in needle
    <3>1. es \in Seq(Entity) /\ i \in 1..Len(es)
      BY <1>2, LenProperties
    <3>2. es[i] \in Entity
      BY <3>1, ElementOfSeq
    <3> QED BY <3>2, SearchAssumption DEF Entity
  <2> QED BY <2>1, <2>2, <2>3
<1> HIDE DEF K
<1>4. L \in SUBSET K
  BY <1>3
<1> HIDE DEF L, found
<1>5. /\ found \in Seq(Entity)
      /\ DOMAIN found = 1..Cardinality(K)
      /\ \A n \in DOMAIN found : Nth(K, n) \in K /\ found[n] = es[Nth(K, n)]
  BY <1>2, RetainRows DEF found
<1>6. M = {n \in 1..Cardinality(K) : Nth(K, n) \in L}
  BY <1>2, <1>3, <1>5
<1> HIDE DEF M
<1>7. Retain(Retain(es, K), M) = Retain(es, L)
  BY <1>2, <1>4, <1>6, RetainTwice
<1> QED BY <1>1, <1>7 DEF found

\* All of it, when no type is asked for.
LEMMA ListIsWholeSearch ==
    ASSUME NEW g \in Graph, NEW s \in Searches
    PROVE  FilterEntities(g, s, NoType) = SearchNodes(g, Containing[Trimmed[s]]).entities
<1> DEFINE es == g.entities
           q == Trimmed[s]
           needle == Containing[q]
           K == {i \in DOMAIN es : ({es[i].name, es[i].type} \cup Texts(es[i])) \cap needle # {}}
           L == {i \in DOMAIN es :
                    /\ Trimmed[NoType] \in {NoType, es[i].type}
                    /\ \/ q = NoType
                       \/ es[i].name \in needle \/ es[i].type \in needle
                       \/ \E k \in DOMAIN es[i].facts : es[i].facts[k].text \in needle}
<1>1. /\ SearchNodes(g, needle).entities = Retain(es, K)
      /\ FilterEntities(g, s, NoType) = Retain(es, L)
  BY DEF SearchNodes, FilterEntities, Where
<1>2. \A i \in DOMAIN es : i \in L <=> i \in K
  <2> TAKE i \in DOMAIN es
  <2>1. (\E k \in DOMAIN es[i].facts : es[i].facts[k].text \in needle)
        <=> Texts(es[i]) \cap needle # {}
    BY DEF Texts
  <2>2. i \in K <=> es[i].name \in needle \/ es[i].type \in needle \/ Texts(es[i]) \cap needle # {}
    OBVIOUS
  <2>3. q = NoType => es[i].name \in needle
    <3>1. es \in Seq(Entity)
      BY DEF Graph
    <3>2. i \in 1..Len(es)
      BY <3>1, LenProperties
    <3>3. es[i] \in Entity
      BY <3>1, <3>2, ElementOfSeq
    <3> QED BY <3>3, SearchAssumption DEF Entity
  <2> QED BY <2>1, <2>2, <2>3, SearchAssumption
<1>3. K = L
  BY <1>2
<1> QED BY <1>1, <1>3

\* What contains more strings finds more entities.
LEMMA SearchGrows ==
    ASSUME NEW g \in Graph, NEW few, NEW many, few \subseteq many
    PROVE  Range(SearchNodes(g, few).entities) \subseteq Range(SearchNodes(g, many).entities)
<1> DEFINE es == g.entities
           K(needle) == {i \in DOMAIN es :
                           ({es[i].name, es[i].type} \cup Texts(es[i])) \cap needle # {}}
<1>1. es \in Seq(Entity) /\ K(few) \in SUBSET K(many) /\ K(many) \in SUBSET DOMAIN es
      /\ K(few) \in SUBSET DOMAIN es
  BY DEF Graph
<1>2. /\ SearchNodes(g, few).entities = Retain(es, K(few))
      /\ SearchNodes(g, many).entities = Retain(es, K(many))
  BY DEF SearchNodes, Where
<1> HIDE DEF K
<1>3. ASSUME NEW n \in DOMAIN Retain(es, K(few))
      PROVE  \E m \in DOMAIN Retain(es, K(many)) :
                Retain(es, K(many))[m] = Retain(es, K(few))[n]
  <2>1. Nth(K(few), n) \in K(few) /\ Retain(es, K(few))[n] = es[Nth(K(few), n)]
    BY <1>1, RetainRows
  <2>2. /\ \A m \in DOMAIN Retain(es, K(many)) :
              Retain(es, K(many))[m] = es[Nth(K(many), m)]
        /\ \A i \in K(many) : \E m \in DOMAIN Retain(es, K(many)) : Nth(K(many), m) = i
    BY <1>1, RetainRows
  <2>3. Nth(K(few), n) \in K(many)
    BY <1>1, <2>1
  <2> QED BY <2>1, <2>2, <2>3
<1> HIDE DEF es
<1> QED BY <1>2, <1>3 DEF Range

\* In every reachable graph the entity list has what search_nodes finds for the
\* trimmed search, by type and in all, and all that it finds for the search as
\* written.
THEOREM ListsFindWhatSearchFinds == Spec => []ListAgreesWithSearch
<1>1. TypeOK => ListAgreesWithSearch
  <2> SUFFICES ASSUME graph \in Graph, NEW s \in Searches
               PROVE  LET Found(w) == SearchNodes(graph, Containing[w]).entities
                          List(ty) == FilterEntities(graph, s, ty)
                      IN /\ List(NoType) = Found(Trimmed[s])
                         /\ Range(Found(s)) \subseteq Range(List(NoType))
                         /\ \A e \in Range(graph.entities) :
                               List(e.type) = OfType(Found(Trimmed[s]), Trimmed[e.type])
    BY DEF TypeOK, ListAgreesWithSearch
  <2>1. FilterEntities(graph, s, NoType) = SearchNodes(graph, Containing[Trimmed[s]]).entities
    BY ListIsWholeSearch
  <2>2. Range(SearchNodes(graph, Containing[s]).entities)
        \subseteq Range(SearchNodes(graph, Containing[Trimmed[s]]).entities)
    BY SearchAssumption, SearchGrows
  <2>3. ASSUME NEW e \in Range(graph.entities)
        PROVE  FilterEntities(graph, s, e.type)
               = OfType(SearchNodes(graph, Containing[Trimmed[s]]).entities, Trimmed[e.type])
    BY ListIsSearch
  <2> QED BY <2>1, <2>2, <2>3
<1> QED BY <1>1, GraphTyped, PTL

-----------------------------------------------------------------------------
(* The line                                                                *)

\* Each member of a line but the first has a beginning, and it is the end of
\* the member before.
Chained(facts, ln) ==
    /\ ln \in Seq(DOMAIN facts) /\ ln # << >>
    /\ \A k \in 2..Len(ln) : /\ facts[ln[k]].from # None
                             /\ facts[ln[k - 1]].to = facts[ln[k]].from

HistoryInv ==
    /\ TypeOK
    /\ HasEntity(graph, Subject)
    /\ OneOfAName(graph)
    /\ TextIdentifiesFact(graph)
    /\ Chained(Facts, line)

\* Facts stay in place, begin when they did and, once they have an end, keep it.
IntervalsKept(old, new) ==
    /\ DOMAIN old \subseteq DOMAIN new
    /\ \A k \in DOMAIN old : /\ new[k].from = old[k].from
                             /\ new[k].to = old[k].to \/ old[k].to = None

\* A line remains one when facts are appended to the entity and its active ones
\* are closed or reworded.
LEMMA ChainKept ==
    ASSUME NEW old, NEW new, IntervalsKept(old, new), NEW ln, Chained(old, ln)
    PROVE  Chained(new, ln)
<1>1. ln \in Seq(DOMAIN new)
  <2>1. Len(ln) \in Nat /\ DOMAIN ln = 1..Len(ln) /\ \A k \in DOMAIN ln : ln[k] \in DOMAIN old
    BY Rows DEF Chained
  <2>2. ln \in [1..Len(ln) -> DOMAIN new]
    <3>1. ln = [k \in DOMAIN ln |-> ln[k]]
      BY DEF Chained
    <3> QED BY <2>1, <3>1 DEF IntervalsKept
  <2> QED BY <2>1, <2>2, SeqDef
<1>2. ASSUME NEW k \in 2..Len(ln)
      PROVE  new[ln[k]].from # None /\ new[ln[k - 1]].to = new[ln[k]].from
  <2>1. Len(ln) \in Nat /\ DOMAIN ln = 1..Len(ln) /\ \A i \in DOMAIN ln : ln[i] \in DOMAIN old
    BY Rows DEF Chained
  <2>2. ln[k] \in DOMAIN old /\ ln[k - 1] \in DOMAIN old
    <3>1. k \in 1..Len(ln) /\ k - 1 \in 1..Len(ln)
      BY <2>1
    <3> QED BY <2>1, <3>1
  <2>3. old[ln[k]].from # None /\ old[ln[k - 1]].to = old[ln[k]].from
    BY DEF Chained
  <2> QED BY <2>2, <2>3 DEF IntervalsKept
<1> QED BY <1>1, <1>2 DEF Chained

\* The one entity of a name is what a lookup finds.
LEMMA OnlyRow ==
    ASSUME NEW g \in Graph, OneOfAName(g), NEW i \in DOMAIN g.entities
    PROVE  /\ HasEntity(g, g.entities[i].name) /\ First(g, i)
           /\ EntityIndex(g, g.entities[i].name) = i
           /\ EntityOf(g, g.entities[i].name) = g.entities[i]
<1>1. HasEntity(g, g.entities[i].name)
  BY DEF HasEntity, Named
<1>2. /\ EntityIndex(g, g.entities[i].name) \in DOMAIN g.entities
      /\ g.entities[EntityIndex(g, g.entities[i].name)].name = g.entities[i].name
      /\ EntityOf(g, g.entities[i].name) = g.entities[EntityIndex(g, g.entities[i].name)]
  BY <1>1, Looking
<1>3. EntityIndex(g, g.entities[i].name) = i
  BY <1>2 DEF OneOfAName, Distinct
<1> QED BY <1>1, <1>2, <1>3 DEF First

\* A fact that is not closed by a batch keeps its interval; one that is was
\* active.
LEMMA OnlyClosedKeeps ==
    ASSUME NEW e \in Entity, NEW o \in Entity, OnlyClosed(e, o)
    PROVE  IntervalsKept(e.facts, o.facts)
<1>1. /\ Len(e.facts) \in Nat /\ DOMAIN e.facts = 1..Len(e.facts)
      /\ Len(o.facts) \in Nat /\ DOMAIN o.facts = 1..Len(o.facts)
      /\ \A k \in DOMAIN e.facts : e.facts[k] \in Fact
  BY Rows DEF Entity
<1>2. DOMAIN e.facts \subseteq DOMAIN o.facts
  BY <1>1 DEF OnlyClosed
<1>3. ASSUME NEW k \in DOMAIN e.facts
      PROVE  /\ o.facts[k].from = e.facts[k].from
             /\ o.facts[k].to = e.facts[k].to \/ e.facts[k].to = None
  <2>1. CASE o.facts[k] = e.facts[k]
    BY <2>1
  <2>2. CASE /\ IsActive(e.facts[k])
             /\ \E a \in (Len(e.facts) + 1)..Len(o.facts) :
                   o.facts[k] = [e.facts[k] EXCEPT !.to = o.facts[a].from]
    <3>1. PICK a \in (Len(e.facts) + 1)..Len(o.facts) :
              o.facts[k] = [e.facts[k] EXCEPT !.to = o.facts[a].from]
      BY <2>2
    <3>2. e.facts[k] \in Fact
      BY <1>1
    <3>3. o.facts[k].from = e.facts[k].from
      BY <3>1, <3>2 DEF Fact
    <3> QED BY <2>2, <3>3 DEF IsActive
  <2> QED BY <2>1, <2>2 DEF OnlyClosed
<1> QED BY <1>2, <1>3 DEF IntervalsKept

\* The subject, before and after a batch.
LEMMA SubjectObserved ==
    ASSUME NEW g \in Graph, HasEntity(g, Subject), OneOfAName(g),
           NEW b \in Seq(FactInput), ObservationsOK(g, b), NEW now \in Times
    PROVE  LET h == AddObservations(g, b, now)
               e == EntityOf(g, Subject)
           IN /\ h \in Graph /\ HasEntity(h, Subject) /\ OneOfAName(h)
              /\ EntityIndex(h, Subject) = EntityIndex(g, Subject)
              /\ EntityOf(h, Subject) = Observed(g, e, b, now)
              /\ OnlyClosed(e, Observed(g, e, b, now))
<1> DEFINE h == AddObservations(g, b, now)
           e == EntityOf(g, Subject)
           s == EntityIndex(g, Subject)
<1>1. /\ s \in DOMAIN g.entities /\ e = g.entities[s] /\ e \in Entity /\ e.name = Subject
  BY Looking
<1>2. /\ h \in Graph /\ SameNames(g, h)
      /\ \A i \in DOMAIN g.entities :
            h.entities[i] = IF First(g, i) THEN Observed(g, g.entities[i], b, now)
                            ELSE g.entities[i]
  BY AddObservationsDoes
<1> HIDE DEF h
<1>3. First(g, s) /\ g.entities[s].name = Subject
  BY <1>1, OnlyRow
<1>4. h.entities[s] = Observed(g, e, b, now)
  BY <1>1, <1>2, <1>3
<1>5. OneOfAName(h)
  BY <1>2, SameNamesStayApart
<1>6. s \in DOMAIN h.entities /\ h.entities[s].name = Subject
  BY <1>1, <1>2 DEF SameNames
<1>7. /\ HasEntity(h, Subject) /\ EntityIndex(h, Subject) = s
      /\ EntityOf(h, Subject) = h.entities[s]
  BY <1>2, <1>5, <1>6, OnlyRow
<1>8. OnlyClosed(e, Observed(g, e, b, now))
  BY <1>1, ObservedIsOnlyClosed
<1> QED BY <1>2, <1>4, <1>5, <1>7, <1>8 DEF h

\* An entity that gains facts is an entity, with the texts it had in place.
LEMMA ObservedTyped ==
    ASSUME NEW g \in Graph, NEW e \in Entity, e = EntityOf(g, e.name),
           NEW b \in Seq(FactInput), NEW now \in Times
    PROVE  LET o == Observed(g, e, b, now) IN
           /\ o \in Entity /\ DOMAIN e.facts \subseteq DOMAIN o.facts
           /\ \A k \in DOMAIN e.facts : o.facts[k].text = e.facts[k].text
<1> DEFINE o == Observed(g, e, b, now)
           added == AddedTo(g, b, e.name)
<1>1. /\ o \in Entity /\ o.name = e.name
      /\ Len(e.facts) <= Len(o.facts)
      /\ DOMAIN e.facts \subseteq DOMAIN o.facts
      /\ \A l \in DOMAIN e.facts :
            \/ o.facts[l] = e.facts[l] /\ ~\E a \in added :
                  b[a].supersedes = e.facts[l].text /\ TextIndex(e, e.facts[l].text) = l
            \/ \E a \in added :
                  /\ b[a].supersedes = e.facts[l].text
                  /\ TextIndex(e, e.facts[l].text) = l
                  /\ o.facts[l] = [e.facts[l] EXCEPT !.to = NewFact(b[a], now).from]
      /\ \A l \in DOMAIN e.facts : o.facts[l].text = e.facts[l].text
      /\ \A l \in DOMAIN o.facts \ DOMAIN e.facts :
            \E a \in added : o.facts[l] = NewFact(b[a], now) /\ b[a].text \notin Texts(e)
      /\ \A a \in added :
            \E l \in DOMAIN o.facts \ DOMAIN e.facts : o.facts[l] = NewFact(b[a], now)
      /\ \A l, m \in DOMAIN o.facts \ DOMAIN e.facts :
            o.facts[l].text = o.facts[m].text => l = m
  BY Zenon, ObservedDoes
<1> HIDE DEF o, added
<1> QED BY <1>1 DEF o

\* The place of a text that no other fact of the entity has.
LEMMA OnlyPlace ==
    ASSUME NEW e \in Entity, TextsApart(e), NEW k \in DOMAIN e.facts
    PROVE  /\ e.facts[k].text \in Texts(e) /\ TextIndex(e, e.facts[k].text) = k
           /\ FactOf(e, e.facts[k].text) = e.facts[k]
<1>1. e.facts[k].text \in Texts(e)
  BY DEF Texts
<1>2. /\ TextIndex(e, e.facts[k].text) \in DOMAIN e.facts
      /\ e.facts[TextIndex(e, e.facts[k].text)].text = e.facts[k].text
  BY <1>1, TextFound
<1> QED BY <1>1, <1>2 DEF TextsApart, FactOf

\* The last of a line is one of the facts.
LEMMA LastOfLine ==
    ASSUME NEW facts, NEW ln, Chained(facts, ln)
    PROVE  /\ Len(ln) \in Nat /\ Len(ln) >= 1 /\ DOMAIN ln = 1..Len(ln)
           /\ \A k \in 1..Len(ln) : ln[k] \in DOMAIN facts
           /\ ln[Len(ln)] \in DOMAIN facts
<1>1. ln \in Seq(DOMAIN facts) /\ ln # << >>
  BY DEF Chained
<1>2. Len(ln) \in Nat /\ DOMAIN ln = 1..Len(ln) /\ \A k \in DOMAIN ln : ln[k] \in DOMAIN facts
  BY <1>1, Rows
<1>3. Len(ln) # 0
  BY <1>1, EmptySeq
<1> QED BY <1>2, <1>3

\* What supersedes the last of the line begins where that one then ends.
LEMMA SuccessorChained ==
    ASSUME NEW g \in Graph, HasEntity(g, Subject), OneOfAName(g), TextIdentifiesFact(g),
           NEW b \in Seq(FactInput), ObservationsOK(g, b), NEW now \in Times,
           NEW ln, Chained(EntityOf(g, Subject).facts, ln),
           NEW i \in AddedTo(g, b, Subject),
           b[i].supersedes = EntityOf(g, Subject).facts[ln[Len(ln)]].text
    PROVE  LET o == Observed(g, EntityOf(g, Subject), b, now)
           IN Chained(o.facts, Append(ln, TextIndex(o, b[i].text)))
<1> DEFINE e == EntityOf(g, Subject)
           o == Observed(g, e, b, now)
           n == Len(ln)
           y == b[i].text
           k == TextIndex(o, y)
           last == ln[n]
<1>1. e \in Entity /\ e.name = Subject /\ e = EntityOf(g, e.name)
  BY Looking
<1>2. /\ i \in DOMAIN b /\ b[i] \in FactInput /\ b[i].entity = Subject /\ y \notin Texts(e)
  BY Rows DEF AddedTo
<1>3. TextsApart(e)
  <2>1. EntityIndex(g, Subject) \in DOMAIN g.entities /\ e = g.entities[EntityIndex(g, Subject)]
    BY Looking
  <2> QED BY <2>1, TextsOfRows
<1>4. /\ o \in Entity /\ DOMAIN e.facts \subseteq DOMAIN o.facts
      /\ \A l \in DOMAIN e.facts : o.facts[l].text = e.facts[l].text
  BY <1>1, ObservedTyped
<1>5. TextsApart(o)
  BY <1>1, <1>3, ObservedKeepsTextsApart
<1>6. IntervalsKept(e.facts, o.facts)
  BY <1>1, <1>4, ObservedIsOnlyClosed, OnlyClosedKeeps
<1>7. Chained(o.facts, ln)
  BY <1>6, ChainKept
<1>8. /\ n \in Nat /\ n >= 1 /\ DOMAIN ln = 1..n
      /\ last \in DOMAIN e.facts
  BY LastOfLine
<1>9. e.facts[last] \in Fact /\ b[i].supersedes = e.facts[last].text
  BY <1>1, <1>8, Rows DEF Entity
<1>10. i \in Supersedes(g, b)
  BY <1>2, <1>9, TypesAssumption DEF Supersedes, Fact
<1>11. FactOf(o, b[i].supersedes).to = FactOf(o, y).from
  <2>1. i \in AddedTo(g, b, e.name) /\ b[i].entity = e.name
    BY <1>1, <1>2
  <2> QED BY <1>1, <1>10, <2>1, SupersededIsClosed
<1>12. last \in DOMAIN o.facts /\ FactOf(o, b[i].supersedes) = o.facts[last]
  BY <1>4, <1>5, <1>8, <1>9, OnlyPlace
<1>13. PICK l \in DOMAIN o.facts : o.facts[l] = NewFact(b[i], now)
  <2>1. i \in AddedTo(g, b, e.name)
    BY <1>1
  <2> QED BY <1>1, <2>1, ObservedGains
<1>14. o.facts[l].text = y /\ o.facts[l].from # None
  <2>1. NewFact(b[i], now).text = y
    BY <1>2, NewFactTyped
  <2>2. NewFact(b[i], now).from # None
    BY TypesAssumption DEF NewFact
  <2> QED BY <1>13, <2>1, <2>2
<1>15. k = l /\ FactOf(o, y) = o.facts[l]
  BY <1>4, <1>5, <1>14, OnlyPlace
<1>16. k \in DOMAIN o.facts /\ o.facts[k].from # None /\ o.facts[last].to = o.facts[k].from
  BY <1>11, <1>12, <1>13, <1>14, <1>15
<1> HIDE DEF o, k, e, y
<1> DEFINE D == DOMAIN o.facts
           new == Append(ln, k)
<1>17. ln \in Seq(D) /\ k \in D
  BY <1>7, <1>16 DEF Chained
<1>18. /\ new \in Seq(D) /\ Len(new) = n + 1 /\ new[n + 1] = k
       /\ \A j \in 1..n : new[j] = ln[j]
  BY <1>8, <1>17, AppendProperties
<1> HIDE DEF new
<1>19. ASSUME NEW j \in 2..Len(new)
       PROVE  o.facts[new[j]].from # None /\ o.facts[new[j - 1]].to = o.facts[new[j]].from
  <2>1. CASE j = n + 1
    <3>1. new[j] = k /\ j - 1 = n /\ new[j - 1] = last
      BY <1>8, <1>18, <2>1
    <3> QED BY <1>16, <3>1
  <2>2. CASE j # n + 1
    <3>1. j \in 2..n /\ j \in 1..n /\ j - 1 \in 1..n
      BY <1>8, <1>18, <2>2
    <3>2. new[j] = ln[j] /\ new[j - 1] = ln[j - 1]
      BY <1>18, <3>1
    <3> QED BY <1>7, <3>1, <3>2 DEF Chained
  <2> QED BY <2>1, <2>2
<1>20. new # << >>
  BY <1>8, <1>18, EmptySeq
<1> QED BY <1>18, <1>19, <1>20 DEF Chained, new, o, k, e, y

\* An edit leaves every fact of the subject in place with its interval.
LEMMA RewordKeeps ==
    ASSUME NEW g \in Graph, HasEntity(g, Subject), OneOfAName(g), TextIdentifiesFact(g),
           NEW n, NEW x, CanUpdate(g, n, x), NEW y \in FactTexts,
           y \notin Texts(EntityOf(g, n)), NEW now \in Times
    PROVE  LET h == UpdateObservation(g, n, x, y, now) IN
           /\ h \in Graph /\ HasEntity(h, Subject) /\ OneOfAName(h) /\ TextIdentifiesFact(h)
           /\ IntervalsKept(EntityOf(g, Subject).facts, EntityOf(h, Subject).facts)
<1> DEFINE h == UpdateObservation(g, n, x, y, now)
           s == EntityIndex(g, Subject)
           k == EntityIndex(g, n)
           j == TextIndex(EntityOf(g, n), x)
<1>1. /\ s \in DOMAIN g.entities /\ EntityOf(g, Subject) = g.entities[s]
      /\ g.entities[s].name = Subject
  BY Looking
<1>2. /\ h \in Graph /\ SameNames(g, h)
      /\ k \in DOMAIN g.entities
      /\ \A i \in DOMAIN g.entities : i # k => h.entities[i] = g.entities[i]
      /\ DOMAIN h.entities[k].facts = DOMAIN g.entities[k].facts
      /\ \A i \in DOMAIN g.entities[k].facts :
            i # j => h.entities[k].facts[i] = g.entities[k].facts[i]
      /\ h.entities[k].facts[j].from = g.entities[k].facts[j].from
      /\ h.entities[k].facts[j].to = g.entities[k].facts[j].to
  BY UpdateObservationDoes
<1>3. TextIdentifiesFact(h)
  BY EditKeepsTextsApart
<1> HIDE DEF h, s, k, j
<1>4. OneOfAName(h)
  BY <1>2, SameNamesStayApart
<1>5. s \in DOMAIN h.entities /\ h.entities[s].name = Subject
  BY <1>1, <1>2 DEF SameNames
<1>6. HasEntity(h, Subject) /\ EntityOf(h, Subject) = h.entities[s]
  BY <1>2, <1>4, <1>5, OnlyRow
<1>7. IntervalsKept(g.entities[s].facts, h.entities[s].facts)
  <2>1. CASE s = k
    BY <1>2, <2>1 DEF IntervalsKept
  <2>2. CASE s # k
    BY <1>1, <1>2, <2>2 DEF IntervalsKept
  <2> QED BY <2>1, <2>2
<1> QED BY <1>1, <1>2, <1>3, <1>4, <1>6, <1>7 DEF h

\* So does a merge into it.
LEMMA GatherKeeps ==
    ASSUME NEW g \in Graph, OneOfAName(g), TextIdentifiesFact(g),
           NEW n, CanMerge(g, n, Subject), Subject \in Names, NEW now \in Times
    PROVE  LET h == MergeEntities(g, n, Subject, now) IN
           /\ h \in Graph /\ HasEntity(h, Subject) /\ OneOfAName(h) /\ TextIdentifiesFact(h)
           /\ IntervalsKept(EntityOf(g, Subject).facts, EntityOf(h, Subject).facts)
<1> DEFINE h == MergeEntities(g, n, Subject, now)
           t == EntityIndex(g, Subject)
           K == Others(g, n)
           new == Absorb(EntityOf(g, n), EntityOf(g, Subject), now)
<1>1. HasEntity(g, n) /\ HasEntity(g, Subject)
  BY DEF CanMerge
<1>2. EntityOf(g, n) \in Entity /\ EntityOf(g, Subject) \in Entity /\ EntityOf(g, Subject).name = Subject
  BY <1>1, Looking
<1>3. /\ h \in Graph /\ t \in K
      /\ \A i \in DOMAIN h.entities :
            /\ Nth(K, i) \in K
            /\ h.entities[i] = IF Nth(K, i) = t THEN new ELSE g.entities[Nth(K, i)]
      /\ \A i \in K : \E m \in DOMAIN h.entities : Nth(K, m) = i
  BY MergeDoes
<1>4. OneOfAName(h) /\ TextIdentifiesFact(h)
  BY MergeKeepsNamesApart, MergeKeepsTextsApart
<1>5. /\ new.name = Subject
      /\ DOMAIN EntityOf(g, Subject).facts \subseteq DOMAIN new.facts
      /\ \A k \in DOMAIN EntityOf(g, Subject).facts :
            new.facts[k] = EntityOf(g, Subject).facts[k]
  <2>1. LET m == Absorb(EntityOf(g, n), EntityOf(g, Subject), now)
            t0 == EntityOf(g, Subject)
        IN /\ m.name = t0.name
           /\ DOMAIN t0.facts \subseteq DOMAIN m.facts
           /\ \A k \in DOMAIN t0.facts : m.facts[k] = t0.facts[k]
    BY <1>2, AbsorbDoes
  <2> QED BY <1>2, <2>1
<1> HIDE DEF h, new, K, t
<1>6. PICK m \in DOMAIN h.entities : h.entities[m] = new
  BY <1>3
<1>7. HasEntity(h, Subject) /\ EntityOf(h, Subject) = new
  BY <1>3, <1>4, <1>5, <1>6, OnlyRow
<1>8. IntervalsKept(EntityOf(g, Subject).facts, new.facts)
  BY <1>5 DEF IntervalsKept
<1> QED BY <1>3, <1>4, <1>7, <1>8 DEF h

\* A line of one active fact is one.
LEMMA HistoryInitially == HistoryInit => HistoryInv
<1> SUFFICES ASSUME HistoryInit PROVE HistoryInv
  OBVIOUS
<1>1. TypeOK /\ graph \in InitialGraphs
  BY InitTyped DEF HistoryInit, Init
<1>2. HasEntity(graph, Subject) /\ OneOfAName(graph)
  BY <1>1, SubjectAssumption DEF OneOfAName
<1>3. TextIdentifiesFact(graph)
  <2>1. \A i \in DOMAIN graph.entities : Distinct(graph.entities[i].facts, LAMBDA f : f.text)
    BY <1>1, SubjectAssumption
  <2>2. \A i \in DOMAIN graph.entities : TextsApart(graph.entities[i])
    BY <2>1 DEF Distinct, TextsApart
  <2> QED BY <2>2, TextsOfRows
<1>4. Chained(Facts, line)
  <2>1. PICK k \in DOMAIN Facts : line = <<k>>
    BY DEF HistoryInit
  <2>2. <<k>> \in Seq(DOMAIN Facts) /\ <<k>> # << >> /\ Len(<<k>>) = 1
    OBVIOUS
  <2>3. 2..1 = {}
    OBVIOUS
  <2> QED BY <2>1, <2>2, <2>3 DEF Chained
<1> QED BY <1>1, <1>2, <1>3, <1>4 DEF HistoryInv

\* The steps are those of the tools.
LEMMA HistorySteps == [HistoryNext]_historyVars => [Next]_vars
<1>1. ASSUME NEW now \in Now, Record(now) PROVE Observe(now)
  BY <1>1 DEF Record, Observe
<1>2. ASSUME NEW now \in Now, Reword(now) PROVE Edit(now)
  BY <1>2 DEF Reword, Edit
<1>3. ASSUME NEW now \in Now, Gather(now) PROVE Merge(now)
  BY <1>3 DEF Gather, Merge
<1> QED BY <1>1, <1>2, <1>3 DEF HistoryNext, Next, historyVars, vars

\* Each call extends the line by a fact that begins where the last one ends, or
\* leaves it a line.
LEMMA HistoryStep == HistoryInv /\ [HistoryNext]_historyVars => HistoryInv'
<1> SUFFICES ASSUME HistoryInv, [HistoryNext]_historyVars PROVE HistoryInv'
  OBVIOUS
<1>1. /\ TypeOK /\ graph \in Graph /\ HasEntity(graph, Subject) /\ OneOfAName(graph)
      /\ TextIdentifiesFact(graph) /\ Chained(EntityOf(graph, Subject).facts, line)
  BY DEF HistoryInv, TypeOK, Facts
<1>2. TypeOK'
  BY <1>1, HistorySteps, StepTyped
<1>3. SUFFICES /\ HasEntity(graph', Subject) /\ OneOfAName(graph')
               /\ TextIdentifiesFact(graph') /\ Chained(EntityOf(graph', Subject).facts, line')
  BY <1>2 DEF HistoryInv, Facts
<1>4. Subject \in Names
  <2>1. EntityOf(graph, Subject) \in Entity /\ EntityOf(graph, Subject).name = Subject
    BY <1>1, Looking
  <2> QED BY <2>1 DEF Entity
<1>5. CASE UNCHANGED historyVars
  BY <1>1, <1>5 DEF historyVars
<1>6. ASSUME NEW now \in Now, Record(now)
      PROVE  /\ HasEntity(graph', Subject) /\ OneOfAName(graph')
             /\ TextIdentifiesFact(graph') /\ Chained(EntityOf(graph', Subject).facts, line')
  <2> DEFINE e == EntityOf(graph, Subject)
  <2>1. PICK b \in ObservationBatches :
            /\ ObservationsOK(graph, b)
            /\ graph' = AddObservations(graph, b, now)
            /\ line' = IF Successors(b) = {} THEN line
                       ELSE Append(line, TextIndex(EntityOf(graph', Subject),
                                                   CHOOSE t \in Successors(b) : TRUE))
    BY <1>6 DEF Record, Becomes
  <2> DEFINE o == Observed(graph, e, b, now)
  <2>2. b \in Seq(FactInput) /\ now \in Times
    BY ArgumentsTyped, GraphAssumption
  <2>3. /\ graph' \in Graph /\ HasEntity(graph', Subject) /\ OneOfAName(graph')
        /\ EntityOf(graph', Subject) = o /\ OnlyClosed(e, o)
    BY <1>1, <2>1, <2>2, SubjectObserved
  <2>4. TextIdentifiesFact(graph')
    <3> DEFINE h == AddObservations(graph, b, now)
    <3>1. /\ SameNames(graph, h)
          /\ \A i \in DOMAIN graph.entities :
                h.entities[i] = IF First(graph, i) THEN Observed(graph, graph.entities[i], b, now)
                                ELSE graph.entities[i]
      BY <1>1, <2>2, AddObservationsDoes
    <3> HIDE DEF h
    <3>2. ASSUME NEW i \in DOMAIN graph.entities PROVE TextsApart(h.entities[i])
      <4>1. TextsApart(graph.entities[i])
        BY <1>1, TextsOfRows
      <4>2. graph.entities[i] \in Entity
            /\ graph.entities[i] = EntityOf(graph, graph.entities[i].name)
        BY <1>1, OnlyRow, FirstRow
      <4>3. TextsApart(Observed(graph, graph.entities[i], b, now))
        BY <1>1, <2>2, <4>1, <4>2, ObservedKeepsTextsApart
      <4> QED BY <3>1, <4>1, <4>3
    <3>3. \A i \in DOMAIN h.entities : TextsApart(h.entities[i])
      BY <3>1, <3>2 DEF SameNames
    <3>4. TextIdentifiesFact(h)
      BY <3>3, TextsOfRows
    <3> QED BY <2>1, <3>4 DEF h
  <2>5. e \in Entity
    BY <1>1, Looking
  <2>6. CASE Successors(b) = {}
    <3>1. o \in Entity
      <4>1. e = EntityOf(graph, e.name)
        BY <1>1, Looking
      <4> QED BY <1>1, <2>2, <2>5, <4>1, ObservedTyped
    <3>2. IntervalsKept(e.facts, o.facts)
      BY <2>3, <2>5, <3>1, OnlyClosedKeeps
    <3>3. Chained(o.facts, line)
      BY <1>1, <3>2, ChainKept
    <3> QED BY <2>1, <2>3, <2>4, <2>6, <3>3
  <2>7. CASE Successors(b) # {}
    <3> DEFINE t == CHOOSE t \in Successors(b) : TRUE
    <3>1. t \in Successors(b)
      BY <2>7
    <3> HIDE DEF t
    <3>2. PICK i \in AddedTo(graph, b, Subject) :
              b[i].supersedes = LineFact(Len(line)).text /\ t = b[i].text
      BY <3>1 DEF Successors
    <3>3. b[i].supersedes = EntityOf(graph, Subject).facts[line[Len(line)]].text
      BY <3>2 DEF LineFact, Facts
    <3>4. Chained(o.facts, Append(line, TextIndex(o, b[i].text)))
      BY <1>1, <2>1, <2>2, <3>2, <3>3, SuccessorChained
    <3>5. line' = Append(line, TextIndex(o, b[i].text))
      BY <2>1, <2>3, <2>7, <3>2 DEF t
    <3> QED BY <2>3, <2>4, <3>4, <3>5
  <2> QED BY <2>6, <2>7
<1>7. ASSUME NEW now \in Now, Reword(now)
      PROVE  /\ HasEntity(graph', Subject) /\ OneOfAName(graph')
             /\ TextIdentifiesFact(graph') /\ Chained(EntityOf(graph', Subject).facts, line')
  <2>1. PICK e \in Edits :
            /\ CanUpdate(graph, e[1], e[2]) /\ e[3] \notin Texts(EntityOf(graph, e[1]))
            /\ graph' = UpdateObservation(graph, e[1], e[2], e[3], now)
            /\ line' = line
    BY <1>7 DEF Reword, Becomes
  <2>2. e[3] \in FactTexts /\ now \in Times
    BY ArgumentsTyped, GraphAssumption
  <2>3. /\ HasEntity(graph', Subject) /\ OneOfAName(graph') /\ TextIdentifiesFact(graph')
        /\ IntervalsKept(EntityOf(graph, Subject).facts, EntityOf(graph', Subject).facts)
    BY <1>1, <2>1, <2>2, RewordKeeps
  <2> QED BY <1>1, <2>1, <2>3, ChainKept
<1>8. ASSUME NEW now \in Now, Gather(now)
      PROVE  /\ HasEntity(graph', Subject) /\ OneOfAName(graph')
             /\ TextIdentifiesFact(graph') /\ Chained(EntityOf(graph', Subject).facts, line')
  <2>1. PICK m \in Moves :
            /\ m[2] = Subject /\ CanMerge(graph, m[1], Subject)
            /\ graph' = MergeEntities(graph, m[1], Subject, now)
            /\ line' = line
    BY <1>8 DEF Gather, Becomes
  <2>2. now \in Times
    BY GraphAssumption
  <2>3. /\ HasEntity(graph', Subject) /\ OneOfAName(graph') /\ TextIdentifiesFact(graph')
        /\ IntervalsKept(EntityOf(graph, Subject).facts, EntityOf(graph', Subject).facts)
    BY <1>1, <1>4, <2>1, <2>2, GatherKeeps
  <2> QED BY <1>1, <2>1, <2>3, ChainKept
<1> QED BY <1>5, <1>6, <1>7, <1>8 DEF HistoryNext

\* In every reachable state of a history names and texts identify, and each
\* member of the line ends where the next begins.
LEMMA HistoryInvariant == HistorySpec => []HistoryInv
<1>1. HistoryInit => HistoryInv
  BY HistoryInitially
<1>2. HistoryInv /\ [HistoryNext]_historyVars => HistoryInv'
  BY HistoryStep
<1> QED BY <1>1, <1>2, PTL DEF HistorySpec

-----------------------------------------------------------------------------
(* The order of the hits                                                   *)

\* The sort's comparison is a strict weak order of the facts.
LEMMA SortIsOrder ==
    ASSUME NEW q, q.ascending \in BOOLEAN, NEW f \in Fact, NEW h \in Fact, NEW k \in Fact
    PROVE  /\ SortsBefore(q, f, h) => ~SortsBefore(q, h, f)
           /\ SortsBefore(q, f, h) => SortsBefore(q, f, k) \/ SortsBefore(q, k, h)
<1> DEFINE a == f.from
           b == h.from
           c == k.from
           x == f.recorded
           y == h.recorded
           z == k.recorded
<1>1. /\ a \in Int \cup {None} /\ b \in Int \cup {None} /\ c \in Int \cup {None}
      /\ x \in Int \cup {None} /\ y \in Int \cup {None} /\ z \in Int \cup {None}
      /\ None \notin Int
  BY TypesAssumption DEF Fact, Stamps
<1> HIDE DEF a, b, c, x, y, z
<1>2. /\ KeyLess(f, h) <=> OptionLess(a, b) \/ (a = b /\ OptionLess(x, y))
      /\ KeyLess(h, f) <=> OptionLess(b, a) \/ (b = a /\ OptionLess(y, x))
      /\ KeyLess(f, k) <=> OptionLess(a, c) \/ (a = c /\ OptionLess(x, z))
      /\ KeyLess(k, f) <=> OptionLess(c, a) \/ (c = a /\ OptionLess(z, x))
      /\ KeyLess(h, k) <=> OptionLess(b, c) \/ (b = c /\ OptionLess(y, z))
      /\ KeyLess(k, h) <=> OptionLess(c, b) \/ (c = b /\ OptionLess(z, y))
  BY DEF KeyLess, a, b, c, x, y, z
<1>3. /\ KeyLess(f, h) => ~KeyLess(h, f)
      /\ KeyLess(f, h) => KeyLess(f, k) \/ KeyLess(k, h)
      /\ KeyLess(h, f) => KeyLess(k, f) \/ KeyLess(h, k)
  BY <1>1, <1>2 DEF OptionLess
<1> DEFINE SB(u, v, p, r, l, m) ==
             IF p = None \/ r = None
             THEN \/ p # None
                  \/ r = None /\ IF q.ascending THEN l ELSE m
             ELSE IF q.ascending THEN l ELSE m
<1>4. /\ SortsBefore(q, f, h) <=> SB(f, h, a, b, KeyLess(f, h), KeyLess(h, f))
      /\ SortsBefore(q, h, f) <=> SB(h, f, b, a, KeyLess(h, f), KeyLess(f, h))
      /\ SortsBefore(q, f, k) <=> SB(f, k, a, c, KeyLess(f, k), KeyLess(k, f))
      /\ SortsBefore(q, k, h) <=> SB(k, h, c, b, KeyLess(k, h), KeyLess(h, k))
  BY DEF SortsBefore, a, b, c
<1> QED BY <1>3, <1>4

\* The places of hits: pairs of numbers.
Placed(g, P) == \A p \in P : /\ p = <<p[1], p[2]>> /\ p[1] \in Nat /\ p[2] \in Nat
                             /\ FactAt(g, p) \in Fact

\* A stable sort orders any hits, ties by their places.
LEMMA HitsAreOrdered ==
    ASSUME NEW g, NEW q, q.ascending \in BOOLEAN, NEW P, Placed(g, P),
           NEW p \in P, NEW r \in P, NEW u \in P
    PROVE  /\ ~ComesBefore(g, q, p, p)
           /\ ComesBefore(g, q, p, r) => ~ComesBefore(g, q, r, p)
           /\ ComesBefore(g, q, p, r) /\ ComesBefore(g, q, r, u) => ComesBefore(g, q, p, u)
           /\ p # r => ComesBefore(g, q, p, r) \/ ComesBefore(g, q, r, p)
<1> DEFINE S(v, w) == SortsBefore(q, FactAt(g, v), FactAt(g, w))
           L(v, w) == v[1] < w[1] \/ (v[1] = w[1] /\ v[2] < w[2])
<1>1. \A v, w \in P : ComesBefore(g, q, v, w) <=> S(v, w) \/ (~S(w, v) /\ L(v, w))
  BY DEF ComesBefore
<1>2. \A v, w, x \in P : /\ S(v, w) => ~S(w, v)
                         /\ S(v, w) => S(v, x) \/ S(x, w)
  BY SortIsOrder DEF Placed
<1>3. \A v, w, x \in P : /\ ~L(v, v)
                         /\ L(v, w) => ~L(w, v)
                         /\ L(v, w) /\ L(w, x) => L(v, x)
                         /\ v # w => L(v, w) \/ L(w, v)
  <2> TAKE v, w, x \in P
  <2>1. /\ v = <<v[1], v[2]>> /\ w = <<w[1], w[2]>>
        /\ v[1] \in Nat /\ v[2] \in Nat /\ w[1] \in Nat /\ w[2] \in Nat
        /\ x[1] \in Nat /\ x[2] \in Nat
    BY DEF Placed
  <2> QED BY <2>1
<1> HIDE DEF S, L
<1> QED BY <1>1, <1>2, <1>3

\* The hits before a hit.
Below(g, q, P, p) == {r \in P : ComesBefore(g, q, r, p)}

\* Each hit has a rank of its own, and each rank its hit.
Ranked(g, q, P) ==
    /\ Cardinality(P) \in Nat
    /\ \A p \in P : Cardinality(Below(g, q, P, p)) \in 0..(Cardinality(P) - 1)
    /\ \A p, r \in P : ComesBefore(g, q, p, r) =>
          Cardinality(Below(g, q, P, p)) < Cardinality(Below(g, q, P, r))
    /\ \A n \in 1..Cardinality(P) : /\ NthHit(g, q, P, n) \in P
                                    /\ Cardinality(Below(g, q, P, NthHit(g, q, P, n))) = n - 1
    /\ \A p \in P : \E n \in 1..Cardinality(P) : NthHit(g, q, P, n) = p

\* The sort of search_facts puts each hit in a place of its own.
LEMMA HitsAreRanked ==
    ASSUME NEW g, NEW q, q.ascending \in BOOLEAN, NEW P, Placed(g, P), IsFiniteSet(P)
    PROVE  Ranked(g, q, P)
<1> DEFINE N == Cardinality(P)
           rank == [p \in P |-> Cardinality(Below(g, q, P, p)) + 1]
<1>1. N \in Nat
  BY FS_CardinalityType
<1>2. ASSUME NEW p \in P
      PROVE  /\ IsFiniteSet(Below(g, q, P, p)) /\ Below(g, q, P, p) \subseteq P
             /\ p \notin Below(g, q, P, p)
             /\ Cardinality(Below(g, q, P, p)) \in 0..(N - 1)
  <2>1. Below(g, q, P, p) \subseteq P /\ p \notin Below(g, q, P, p)
    BY HitsAreOrdered DEF Below
  <2>2. /\ IsFiniteSet(Below(g, q, P, p))
        /\ Cardinality(Below(g, q, P, p)) <= N
        /\ Cardinality(Below(g, q, P, p)) = N => Below(g, q, P, p) = P
    BY <2>1, FS_Subset
  <2>3. Cardinality(Below(g, q, P, p)) \in Nat /\ Cardinality(Below(g, q, P, p)) # N
    BY <2>1, <2>2, FS_CardinalityType
  <2> QED BY <1>1, <2>1, <2>2, <2>3
<1>3. ASSUME NEW p \in P, NEW r \in P, ComesBefore(g, q, p, r)
      PROVE  Cardinality(Below(g, q, P, p)) < Cardinality(Below(g, q, P, r))
  <2>1. Below(g, q, P, p) \subseteq Below(g, q, P, r)
    BY <1>3, HitsAreOrdered DEF Below
  <2>2. p \in Below(g, q, P, r) /\ p \notin Below(g, q, P, p)
    BY <1>2, <1>3 DEF Below
  <2>3. IsFiniteSet(Below(g, q, P, r))
    BY <1>2
  <2>4. /\ Cardinality(Below(g, q, P, p)) <= Cardinality(Below(g, q, P, r))
        /\ Cardinality(Below(g, q, P, p)) # Cardinality(Below(g, q, P, r))
    BY <2>1, <2>2, <2>3, FS_Subset
  <2>5. Cardinality(Below(g, q, P, p)) \in Int /\ Cardinality(Below(g, q, P, r)) \in Int
    BY <1>2
  <2> QED BY <2>4, <2>5
<1>4. \A p, r \in P : Cardinality(Below(g, q, P, p)) = Cardinality(Below(g, q, P, r)) => p = r
  <2> SUFFICES ASSUME NEW p \in P, NEW r \in P, p # r
               PROVE  Cardinality(Below(g, q, P, p)) # Cardinality(Below(g, q, P, r))
    OBVIOUS
  <2>1. ComesBefore(g, q, p, r) \/ ComesBefore(g, q, r, p)
    BY HitsAreOrdered
  <2>2. Cardinality(Below(g, q, P, p)) \in Int /\ Cardinality(Below(g, q, P, r)) \in Int
    BY <1>2
  <2> QED BY <1>3, <2>1, <2>2
<1>5. rank \in Injection(P, 1..N)
  <2>1. rank \in [P -> 1..N]
    BY <1>1, <1>2
  <2>2. \A p, r \in P : rank[p] = rank[r] => p = r
    <3> TAKE p, r \in P
    <3>1. Cardinality(Below(g, q, P, p)) \in Int /\ Cardinality(Below(g, q, P, r)) \in Int
      BY <1>2
    <3> QED BY <1>4, <3>1
  <2> HIDE DEF rank
  <2> QED BY <2>1, <2>2, Fun_IsInj
<1>6. IsFiniteSet(1..N) /\ Cardinality(1..N) = N
  BY <1>1, FS_Interval
<1>7. \A n \in 1..N : \E p \in P : rank[p] = n
  <2> DEFINE R == 1..N
  <2>0. rank \in Injection(P, R) /\ IsFiniteSet(R) /\ Cardinality(R) = N
    BY <1>5, <1>6
  <2> HIDE DEF rank, R
  <2>1. rank \in Surjection(P, R)
    BY <2>0, FS_Injection
  <2>2. \A n \in R : \E p \in P : rank[p] = n
    BY <2>1, Fun_SurjectionProperties
  <2> QED BY <2>2 DEF R
<1>8. ASSUME NEW n \in 1..N
      PROVE  /\ NthHit(g, q, P, n) \in P
             /\ Cardinality(Below(g, q, P, NthHit(g, q, P, n))) = n - 1
  <2>1. PICK p \in P : rank[p] = n
    BY <1>7
  <2>2. Cardinality(Below(g, q, P, p)) = n - 1
    <3>1. Cardinality(Below(g, q, P, p)) \in Int
      BY <1>2
    <3> QED BY <1>1, <2>1, <3>1
  <2> QED BY <2>2 DEF NthHit, Below
<1>9. ASSUME NEW p \in P PROVE \E n \in 1..N : NthHit(g, q, P, n) = p
  <2> DEFINE n == Cardinality(Below(g, q, P, p)) + 1
  <2>1. n \in 1..N /\ n - 1 = Cardinality(Below(g, q, P, p))
    BY <1>1, <1>2
  <2> HIDE DEF n
  <2>2. NthHit(g, q, P, n) \in P /\ Cardinality(Below(g, q, P, NthHit(g, q, P, n))) = n - 1
    BY <1>8, <2>1
  <2> QED BY <1>4, <2>1, <2>2
<1> QED BY <1>1, <1>2, <1>3, <1>8, <1>9 DEF Ranked

\* The answer to a query about the subject.
LEMMA SubjectHits ==
    ASSUME NEW g \in Graph, HasEntity(g, Subject), OneOfAName(g),
           NEW q, q.entity = Subject
    PROVE  LET s == EntityIndex(g, Subject)
               facts == EntityOf(g, Subject).facts
               wanted == {k \in DOMAIN facts : Wanted(q, facts[k])}
               P == Hits(g, q)
           IN /\ \A k \in wanted : <<s, k>> \in P
              /\ \A p \in P : p = <<s, p[2]>> /\ p[2] \in wanted
              /\ \A k \in DOMAIN facts : FactAt(g, <<s, k>>) = facts[k]
              /\ Placed(g, P) /\ IsFiniteSet(P)
              /\ IsFiniteSet(wanted) /\ Cardinality(P) = Cardinality(wanted)
              /\ Cardinality(P) <= Len(facts)
<1> DEFINE s == EntityIndex(g, Subject)
           facts == EntityOf(g, Subject).facts
           wanted == {k \in DOMAIN facts : Wanted(q, facts[k])}
           P == Hits(g, q)
<1>1. /\ s \in DOMAIN g.entities /\ EntityOf(g, Subject) = g.entities[s]
      /\ g.entities[s].name = Subject /\ g.entities[s] \in Entity
  BY Looking
<1>2. /\ Len(facts) \in Nat /\ DOMAIN facts = 1..Len(facts)
      /\ \A k \in DOMAIN facts : facts[k] \in Fact
  BY <1>1, Rows DEF Entity
<1>3. Len(g.entities) \in Nat /\ DOMAIN g.entities = 1..Len(g.entities)
  BY Rows DEF Graph
<1>4. \A k \in DOMAIN facts : FactAt(g, <<s, k>>) = facts[k]
  BY <1>1 DEF FactAt
<1>5. \A i \in DOMAIN g.entities : q.entity \in {None, g.entities[i].name} <=> i = s
  <2> TAKE i \in DOMAIN g.entities
  <2>1. q.entity # None
    BY SubjectAssumption
  <2>2. g.entities[i].name = Subject => i = s
    BY <1>1 DEF OneOfAName, Distinct
  <2> QED BY <1>1, <2>1, <2>2
<1> DEFINE searched == {i \in DOMAIN g.entities : q.entity \in {None, g.entities[i].name}}
           places == UNION {{i} \X DOMAIN g.entities[i].facts : i \in searched}
<1>6. P = {p \in places : Wanted(q, FactAt(g, p))}
  BY DEF Hits
<1>7. \A p : p \in places <=> p = <<s, p[2]>> /\ p[2] \in DOMAIN facts
  <2>1. searched = {s}
    BY <1>1, <1>5
  <2> HIDE DEF searched
  <2>2. {{i} \X DOMAIN g.entities[i].facts : i \in searched} = {{s} \X DOMAIN facts}
    BY <1>1, <2>1
  <2>3. places = {s} \X DOMAIN facts
    BY <2>2
  <2> HIDE DEF places, s
  <2> QED BY <2>3
<1> HIDE DEF searched, places, P, s
<1>8. \A k \in wanted : <<s, k>> \in P
  <2> TAKE k \in wanted
  <2>1. <<s, k>>[2] = k /\ k \in DOMAIN facts /\ FactAt(g, <<s, k>>) = facts[k]
    BY <1>4
  <2>2. <<s, k>> \in places
    BY <1>7, <2>1
  <2> QED BY <1>6, <2>1, <2>2
<1>9. ASSUME NEW p \in P
      PROVE  p = <<s, p[2]>> /\ p[2] \in wanted /\ p[2] \in DOMAIN facts
  <2>1. p = <<s, p[2]>> /\ p[2] \in DOMAIN facts /\ Wanted(q, FactAt(g, p))
    BY <1>6, <1>7
  <2>2. FactAt(g, p) = facts[p[2]]
    BY <1>4, <2>1
  <2> QED BY <2>1, <2>2
<1>10. wanted \subseteq DOMAIN facts
  OBVIOUS
<1> HIDE DEF wanted
<1>11. IsFiniteSet(wanted) /\ Cardinality(wanted) <= Len(facts)
  <2>1. IsFiniteSet(DOMAIN facts) /\ Cardinality(DOMAIN facts) = Len(facts)
    BY <1>2, FS_Interval
  <2> QED BY <1>10, <2>1, FS_Subset
<1>12. Placed(g, P)
  <2> SUFFICES ASSUME NEW p \in P
               PROVE  /\ p = <<p[1], p[2]>> /\ p[1] \in Nat /\ p[2] \in Nat
                      /\ FactAt(g, p) \in Fact
    BY DEF Placed
  <2>1. p = <<s, p[2]>> /\ p[2] \in DOMAIN facts
    BY <1>9
  <2>2. p[1] = s /\ s \in Nat /\ p[2] \in Nat
    BY <1>1, <1>2, <1>3, <2>1
  <2>3. FactAt(g, p) = facts[p[2]]
    BY <1>4, <2>1
  <2> QED BY <1>2, <2>1, <2>2, <2>3
<1>13. IsFiniteSet(P) /\ Cardinality(P) = Cardinality(wanted)
  <2> DEFINE f == [p \in P |-> p[2]]
  <2>1. \A p \in P : f[p] \in wanted
    BY <1>9
  <2>2. \A p, r \in P : f[p] = f[r] => p = r
    BY <1>9
  <2>3. ASSUME NEW k \in wanted PROVE \E p \in P : f[p] = k
    <3>1. <<s, k>> \in P /\ <<s, k>>[2] = k
      BY <1>8
    <3> QED BY <3>1
  <2> HIDE DEF f
  <2> QED BY <1>11, <2>1, <2>2, <2>3, SameSize
<1> HIDE DEF facts
<1>14. \A p \in P : p = <<s, p[2]>> /\ p[2] \in wanted
  BY <1>9
<1> QED BY <1>4, <1>8, <1>11, <1>12, <1>13, <1>14 DEF facts, wanted, P, s

\* What an answer shows: the first of the hits.
LEMMA AnswerRows ==
    ASSUME NEW g, NEW q
    PROVE  LET P == Hits(g, q)
               page == SearchFacts(g, q)
           IN /\ page.total = Cardinality(P)
              /\ DOMAIN page.facts = 1..Min({q.limit, Cardinality(P)})
              /\ \A n \in DOMAIN page.facts : page.facts[n].fact = FactAt(g, NthHit(g, q, P, n))
BY DEF SearchFacts

\* With room for all of them, it shows exactly the facts that are wanted.
LEMMA WholeAnswer ==
    ASSUME NEW g \in Graph, HasEntity(g, Subject), OneOfAName(g),
           NEW q, q.entity = Subject, q.ascending \in BOOLEAN,
           q.limit = Len(EntityOf(g, Subject).facts)
    PROVE  LET found == SearchFacts(g, q).facts
               facts == EntityOf(g, Subject).facts
           IN /\ DOMAIN found = 1..Cardinality(Hits(g, q))
              /\ \A k \in DOMAIN facts :
                    (\E n \in DOMAIN found : found[n].fact = facts[k]) <=> Wanted(q, facts[k])
<1> DEFINE found == SearchFacts(g, q).facts
           facts == EntityOf(g, Subject).facts
           P == Hits(g, q)
           N == Cardinality(P)
           wanted == {k \in DOMAIN facts : Wanted(q, facts[k])}
           s == EntityIndex(g, Subject)
<1>1. /\ \A k \in wanted : <<s, k>> \in P
      /\ \A p \in P : p = <<s, p[2]>> /\ p[2] \in wanted
      /\ \A k \in DOMAIN facts : FactAt(g, <<s, k>>) = facts[k]
      /\ Placed(g, P) /\ IsFiniteSet(P)
      /\ N <= Len(facts)
  BY SubjectHits
<1>2. /\ N \in Nat
      /\ \A n \in 1..N : NthHit(g, q, P, n) \in P
      /\ \A p \in P : \E n \in 1..N : NthHit(g, q, P, n) = p
  <2> HIDE DEF P
  <2>1. Ranked(g, q, P)
    BY <1>1, HitsAreRanked
  <2> QED BY <2>1 DEF Ranked
<1>3. Len(facts) \in Nat
  <2>1. EntityOf(g, Subject) \in Entity
    BY Looking
  <2> QED BY <2>1, Rows DEF Entity
<1> HIDE DEF N
<1>4. Min({q.limit, N}) = N
  <2>1. q.limit \in Int /\ N \in Int /\ N <= q.limit
    BY <1>1, <1>2, <1>3
  <2>2. Min({q.limit, N}) \in {q.limit, N} /\ Min({q.limit, N}) <= N
    BY <2>1, OfTwo
  <2>3. \A m \in {q.limit, N} : m <= N => m = N
    BY <2>1
  <2> QED BY <2>2, <2>3
<1>5. /\ DOMAIN found = 1..N
      /\ \A n \in 1..N : found[n].fact = FactAt(g, NthHit(g, q, P, n))
  BY <1>4, AnswerRows DEF N
<1> HIDE DEF found, facts, P, s
<1>6. ASSUME NEW k \in DOMAIN facts, Wanted(q, facts[k])
      PROVE  \E n \in DOMAIN found : found[n].fact = facts[k]
  <2>1. PICK n \in 1..N : NthHit(g, q, P, n) = <<s, k>>
    BY <1>1, <1>2, <1>6
  <2> QED BY <1>1, <1>5, <2>1
<1>7. ASSUME NEW k \in DOMAIN facts, NEW n \in DOMAIN found, found[n].fact = facts[k]
      PROVE  Wanted(q, facts[k])
  <2>1. NthHit(g, q, P, n) \in P
    BY <1>2, <1>5
  <2>2. PICK j \in wanted : NthHit(g, q, P, n) = <<s, j>>
    BY <1>1, <2>1
  <2>3. found[n].fact = facts[j] /\ Wanted(q, facts[j])
    BY <1>1, <1>5, <2>2
  <2> QED BY <1>7, <2>3
<1> QED BY <1>5, <1>6, <1>7 DEF found, facts, N, P

-----------------------------------------------------------------------------
(* What stands                                                             *)

\* The query as of t.
AsOfQuery(g, t) ==
    [query |-> None, entity |-> Subject, asOf |-> t, since |-> None, until |-> None,
     superseded |-> FALSE, ascending |-> TRUE, limit |-> Len(EntityOf(g, Subject).facts)]

\* As of t one wants what stands at t.
LEMMA AsOfWants ==
    ASSUME NEW g, NEW t \in Times
    PROVE  /\ AsOf(g, t) = SearchFacts(g, AsOfQuery(g, t))
           /\ \A f : Wanted(AsOfQuery(g, t), f) <=> Standing(f, t)
           /\ AsOfQuery(g, t).entity = Subject /\ AsOfQuery(g, t).ascending \in BOOLEAN
           /\ AsOfQuery(g, t).limit = Len(EntityOf(g, Subject).facts)
<1>1. t # None
  BY TypesAssumption
<1>2. AsOf(g, t) = SearchFacts(g, AsOfQuery(g, t))
  BY DEF AsOf, AsOfQuery
<1>3. ASSUME NEW f PROVE Wanted(AsOfQuery(g, t), f) <=> Standing(f, t)
  BY <1>1 DEF Wanted, AsOfQuery
<1> QED BY <1>2, <1>3 DEF AsOfQuery

\* A fact of the subject is found as of t when it stands at t.
LEMMA AsOfShows ==
    ASSUME HistoryInv, NEW t \in Times, NEW k \in DOMAIN Facts
    PROVE  (\E n \in DOMAIN AsOf(graph, t).facts : AsOf(graph, t).facts[n].fact = Facts[k])
           <=> Standing(Facts[k], t)
<1> DEFINE q == AsOfQuery(graph, t)
           found == SearchFacts(graph, q).facts
<1>1. /\ AsOf(graph, t) = SearchFacts(graph, q)
      /\ \A f : Wanted(q, f) <=> Standing(f, t)
      /\ q.entity = Subject /\ q.ascending \in BOOLEAN
      /\ q.limit = Len(EntityOf(graph, Subject).facts)
  BY AsOfWants
<1> HIDE DEF q
<1>2. graph \in Graph /\ HasEntity(graph, Subject) /\ OneOfAName(graph)
  BY DEF HistoryInv, TypeOK
<1>3. (\E n \in DOMAIN found : found[n].fact = Facts[k]) <=> Wanted(q, Facts[k])
  <2>1. k \in DOMAIN EntityOf(graph, Subject).facts
    BY DEF Facts
  <2> HIDE DEF found
  <2>2. (\E n \in DOMAIN found : found[n].fact = EntityOf(graph, Subject).facts[k])
        <=> Wanted(q, EntityOf(graph, Subject).facts[k])
    BY <1>1, <1>2, <2>1, WholeAnswer DEF found
  <2> QED BY <2>2 DEF Facts
<1> QED BY <1>1, <1>3

\* The members of the line that stand at t.
LEMMA StandingMembers ==
    ASSUME HistoryInv, NEW t \in Times
    PROVE  StandAt(t) = {k \in DOMAIN line : Standing(LineFact(k), t)}
<1>1. \A k \in DOMAIN line : line[k] \in DOMAIN Facts
  BY LastOfLine DEF HistoryInv
<1>2. ASSUME NEW k \in DOMAIN line
      PROVE  (\E n \in DOMAIN AsOf(graph, t).facts : AsOf(graph, t).facts[n].fact = LineFact(k))
             <=> Standing(LineFact(k), t)
  BY <1>1, AsOfShows DEF LineFact
<1> QED BY <1>2 DEF StandAt

\* The members of the line, by place.
LEMMA LineMembers ==
    ASSUME HistoryInv
    PROVE  /\ Len(line) \in Nat /\ Len(line) >= 1 /\ DOMAIN line = 1..Len(line)
           /\ \A k \in 1..Len(line) : /\ LineFact(k) \in Fact
                                      /\ LineFact(k).from \in Int \cup {None}
                                      /\ LineFact(k).to \in Int \cup {None}
           /\ \A k \in 2..Len(line) : /\ LineFact(k).from \in Int
                                      /\ LineFact(k - 1).to = LineFact(k).from
           /\ None \notin Int
<1>1. /\ Len(line) \in Nat /\ Len(line) >= 1 /\ DOMAIN line = 1..Len(line)
      /\ \A k \in 1..Len(line) : line[k] \in DOMAIN Facts
  BY LastOfLine DEF HistoryInv
<1>2. \A k \in DOMAIN Facts : Facts[k] \in Fact
  <2>1. EntityOf(graph, Subject) \in Entity
    BY Looking DEF HistoryInv, TypeOK
  <2> QED BY <2>1, Rows DEF Entity, Facts
<1>3. \A k \in 1..Len(line) : LineFact(k) \in Fact
  BY <1>1, <1>2 DEF LineFact
<1>4. \A k \in 1..Len(line) : /\ LineFact(k).from \in Int \cup {None}
                              /\ LineFact(k).to \in Int \cup {None}
  BY <1>3, TypesAssumption DEF Fact, Stamps
<1>5. \A k \in 2..Len(line) : /\ LineFact(k).from # None
                              /\ LineFact(k - 1).to = LineFact(k).from
  BY DEF HistoryInv, Chained, LineFact
<1>6. \A k \in 2..Len(line) : k \in 1..Len(line)
  BY <1>1
<1> QED BY <1>1, <1>3, <1>4, <1>5, <1>6, TypesAssumption

\* In every reachable state a line has a standing member at every instant from
\* its beginning on: the first member that has not ended by then has begun,
\* since the one before it, which had ended, ended where it begins.
THEOREM OneAlwaysStands == HistorySpec => []AlwaysOneStands
<1>1. HistoryInv => AlwaysOneStands
  <2> SUFFICES ASSUME HistoryInv, NEW t \in Times, Covers(t) PROVE StandAt(t) # {}
    BY DEF AlwaysOneStands
  <2> DEFINE n == Len(line)
             K == {k \in 1..n : LineFact(k).to = None \/ t < LineFact(k).to}
  <2>1. /\ n \in Nat /\ n >= 1 /\ DOMAIN line = 1..n
        /\ \A k \in 2..n : /\ LineFact(k).from \in Int
                           /\ LineFact(k - 1).to = LineFact(k).from
    BY LineMembers
  <2>2. t \in Int
    BY TypesAssumption
  <2>3. K \in SUBSET (1..n) /\ n \in K
    BY <2>1 DEF Covers, IsActive
  <2> HIDE DEF K
  <2>4. Min(K) \in K /\ \A k \in K : Min(K) <= k
    BY <2>1, <2>3, FirstPlace
  <2>5. PICK k \in K : \A j \in K : k <= j
    BY <2>4
  <2>6. LineFact(k).from = None \/ LineFact(k).from <= t
    <3>1. CASE k = 1
      BY <3>1 DEF Covers
    <3>2. CASE k # 1
      <4>1. k \in 2..n /\ k - 1 \in 1..n /\ ~(k <= k - 1)
        BY <2>1, <2>3, <3>2
      <4>2. k - 1 \notin K
        BY <2>5, <4>1
      <4>3. LineFact(k - 1).to # None /\ ~(t < LineFact(k - 1).to)
        BY <4>1, <4>2 DEF K
      <4>4. LineFact(k - 1).to = LineFact(k).from /\ LineFact(k).from \in Int
        BY <2>1, <4>1
      <4> QED BY <2>2, <4>3, <4>4
    <3> QED BY <3>1, <3>2
  <2>7. Standing(LineFact(k), t) /\ k \in DOMAIN line
    BY <2>1, <2>6 DEF K, Standing
  <2> QED BY <2>7, StandingMembers
<1> QED BY <1>1, HistoryInvariant, PTL

\* In every reachable state a line whose members begin one after the other has
\* at most one standing member at any instant: if two stood, the earlier would
\* end after the later begins, but what follows it begins where it ends.
THEOREM OnlyOneStands == HistorySpec => []NoTwoStand
<1>1. HistoryInv => NoTwoStand
  <2> SUFFICES ASSUME HistoryInv, Chronological, NEW t \in Times
               PROVE  Cardinality(StandAt(t)) <= 1
    BY DEF NoTwoStand
  <2> DEFINE n == Len(line)
             from(k) == LineFact(k).from
  <2>1. /\ n \in Nat /\ DOMAIN line = 1..n
        /\ \A k \in 2..n : from(k) \in Int /\ LineFact(k - 1).to = from(k)
        /\ None \notin Int
    BY LineMembers
  <2>2. t \in Int
    BY TypesAssumption
  <2>3. \A k \in 3..n : from(k - 1) <= from(k)
    <3> TAKE k \in 3..n
    <3>1. k \in 2..n /\ k - 1 \in 2..n
      BY <2>1
    <3>2. from(k - 1) = None \/ from(k - 1) <= from(k)
      BY <3>1 DEF Chronological
    <3> HIDE DEF from
    <3> QED BY <2>1, <3>1, <3>2
  <2>4. ASSUME NEW j \in 1..n, NEW k \in 1..n, j < k,
               Standing(LineFact(j), t), Standing(LineFact(k), t)
        PROVE  FALSE
    <3> DEFINE L == {m \in 1..n : j + 1 <= m /\ ~(from(j + 1) <= from(m))}
    <3>1. j + 1 \in 2..n /\ k \in 2..n /\ (j + 1) - 1 = j
      BY <2>1, <2>4
    <3>2. from(j + 1) \in Int /\ LineFact(j).to = from(j + 1)
      BY <2>1, <3>1
    <3>3. t < from(j + 1)
      BY <2>1, <2>4, <3>2 DEF Standing
    <3>4. from(k) \in Int /\ from(k) <= t
      <4>1. from(k) \in Int
        BY <2>1, <3>1
      <4> QED BY <2>1, <2>4, <4>1 DEF Standing
    <3>5. k \in L
      <4>1. ~(from(j + 1) <= from(k))
        BY <2>2, <3>2, <3>3, <3>4
      <4> QED BY <2>1, <2>4, <3>1, <4>1
    <3>6. L \in SUBSET (1..n)
      OBVIOUS
    <3> HIDE DEF L, from
    <3>7. PICK m \in L : \A i \in L : m <= i
      <4>1. Min(L) \in L /\ \A i \in L : Min(L) <= i
        BY <2>1, <3>5, <3>6, FirstPlace
      <4> QED BY <4>1
    <3>8. m \in 1..n /\ j + 1 <= m /\ ~(from(j + 1) <= from(m))
      BY <3>7 DEF L
    <3>9. m # j + 1
      BY <3>2, <3>8
    <3>10. m \in 3..n /\ m \in 2..n /\ m - 1 \in 2..n /\ m - 1 \in 1..n /\ j + 1 <= m - 1 /\ ~(m <= m - 1)
      BY <2>1, <3>8, <3>9
    <3>11. m - 1 \notin L
      BY <3>7, <3>10
    <3>12. from(j + 1) <= from(m - 1)
      BY <3>10, <3>11 DEF L
    <3>13. from(m - 1) <= from(m) /\ from(m - 1) \in Int /\ from(m) \in Int
      BY <2>1, <2>3, <3>10
    <3> QED BY <3>2, <3>8, <3>12, <3>13
  <2>5. \A j, k \in StandAt(t) : j = k
    <3> SUFFICES ASSUME NEW j \in StandAt(t), NEW k \in StandAt(t), j # k PROVE FALSE
      OBVIOUS
    <3>1. /\ j \in 1..n /\ k \in 1..n
          /\ Standing(LineFact(j), t) /\ Standing(LineFact(k), t)
      BY <2>1, StandingMembers
    <3>2. j < k \/ k < j
      BY <2>1, <3>1
    <3> QED BY <2>4, <3>1, <3>2
  <2>6. CASE StandAt(t) = {}
    BY <2>6, FS_EmptySet
  <2>7. CASE StandAt(t) # {}
    <3>1. PICK k : StandAt(t) = {k}
      BY <2>5, <2>7
    <3>2. Cardinality({k}) = 1
      BY FS_Singleton
    <3> QED BY <3>1, <3>2
  <2> QED BY <2>6, <2>7
<1> QED BY <1>1, HistoryInvariant, PTL

\* What a limited answer leaves out is, in the order asked for, not before
\* anything that it shows.
LEMMA LimitKeeps ==
    ASSUME HistoryInv, NEW q \in Queries, q.entity = Subject
    PROVE  LET page == SearchFacts(graph, q)
               wanted == {i \in DOMAIN Facts : Wanted(q, Facts[i])}
               shown == {i \in wanted : \E k \in DOMAIN page.facts :
                                           page.facts[k].fact = Facts[i]}
           IN /\ page.total = Cardinality(wanted)
              /\ Cardinality(shown) = Min({q.limit, page.total})
              /\ \A i \in shown, j \in wanted \ shown :
                    \/ Facts[j].from = None
                    \/ /\ Facts[i].from # None
                       /\ IF q.ascending THEN Facts[i].from <= Facts[j].from
                          ELSE Facts[i].from >= Facts[j].from
<1> DEFINE page == SearchFacts(graph, q)
           wanted == {i \in DOMAIN Facts : Wanted(q, Facts[i])}
           shown == {i \in wanted : \E k \in DOMAIN page.facts : page.facts[k].fact = Facts[i]}
           s == EntityIndex(graph, Subject)
           P == Hits(graph, q)
           N == Cardinality(P)
           L == Min({q.limit, N})
           hit(n) == NthHit(graph, q, P, n)
           before(p, r) == ComesBefore(graph, q, p, r)
           rank(p) == Cardinality(Below(graph, q, P, p))
<1>1. /\ graph \in Graph /\ HasEntity(graph, Subject) /\ OneOfAName(graph)
      /\ q.limit \in Nat /\ q.ascending \in BOOLEAN
  BY QueriesAssumption DEF HistoryInv, TypeOK
<1>2. /\ \A k \in wanted : <<s, k>> \in P
      /\ \A p \in P : p = <<s, p[2]>> /\ p[2] \in wanted
      /\ \A k \in DOMAIN Facts : FactAt(graph, <<s, k>>) = Facts[k]
      /\ Placed(graph, P) /\ IsFiniteSet(P)
      /\ IsFiniteSet(wanted) /\ N = Cardinality(wanted)
  BY <1>1, SubjectHits DEF Facts
<1>3. /\ page.total = N
      /\ DOMAIN page.facts = 1..L
      /\ \A n \in DOMAIN page.facts : page.facts[n].fact = FactAt(graph, hit(n))
  BY AnswerRows
<1>4. \A i \in DOMAIN Facts : Facts[i] \in Fact
  <2>1. EntityOf(graph, Subject) \in Entity
    BY <1>1, Looking
  <2> QED BY <2>1, Rows DEF Entity, Facts
<1>5. \A i, j \in DOMAIN Facts : Facts[i] = Facts[j] => i = j
  <2>1. s \in DOMAIN graph.entities /\ EntityOf(graph, Subject) = graph.entities[s]
    BY <1>1, Looking
  <2>2. TextsApart(EntityOf(graph, Subject))
    BY <2>1, TextsOfRows DEF HistoryInv
  <2> QED BY <2>2 DEF TextsApart, Facts
<1>6. /\ N \in Nat
      /\ \A p, r \in P : before(p, r) => rank(p) < rank(r)
      /\ \A n \in 1..N : hit(n) \in P /\ rank(hit(n)) = n - 1
      /\ \A p \in P : \E n \in 1..N : hit(n) = p
  <2> HIDE DEF P
  <2>1. Ranked(graph, q, P)
    BY <1>1, <1>2, HitsAreRanked
  <2> QED BY <2>1 DEF Ranked
<1>7. \A p, r \in P : p # r => before(p, r) \/ before(r, p)
  <2> HIDE DEF P
  <2> QED BY <1>1, <1>2, HitsAreOrdered
<1>8. L \in Nat /\ L <= N
  <2> HIDE DEF N
  <2>0. q.limit \in Int /\ N \in Int
    BY <1>1, <1>6
  <2>1. L \in {q.limit, N} /\ L <= N
    BY <2>0, OfTwo
  <2> QED BY <1>1, <1>6, <2>1
<1>9. \A p, r \in P : before(p, r) =>
          \/ SortsBefore(q, FactAt(graph, p), FactAt(graph, r))
          \/ ~SortsBefore(q, FactAt(graph, r), FactAt(graph, p))
  BY DEF ComesBefore
<1> HIDE DEF page, s, P, N, L, hit, before, rank
<1>10. \A i \in wanted : i \in shown <=> \E k \in 1..L : hit(k) = <<s, i>>
  <2> SUFFICES ASSUME NEW i \in wanted
               PROVE  (\E k \in 1..L : page.facts[k].fact = Facts[i])
                      <=> \E k \in 1..L : hit(k) = <<s, i>>
    BY <1>3
  <2>1. ASSUME NEW k \in 1..L, page.facts[k].fact = Facts[i] PROVE hit(k) = <<s, i>>
    <3>1. k \in 1..N /\ hit(k) \in P
      BY <1>6, <1>8
    <3>2. PICK j \in wanted : hit(k) = <<s, j>>
      BY <1>2, <3>1
    <3>3. page.facts[k].fact = Facts[j]
      BY <1>2, <1>3, <3>2
    <3> QED BY <1>5, <2>1, <3>2, <3>3
  <2>2. ASSUME NEW k \in 1..L, hit(k) = <<s, i>> PROVE page.facts[k].fact = Facts[i]
    BY <1>2, <1>3, <2>2
  <2> QED BY <2>1, <2>2
<1>11. shown \subseteq wanted
  OBVIOUS
<1>12. Cardinality(shown) = L
  <2> DEFINE A == 1..L
             f == [k \in A |-> hit(k)[2]]
  <2>1. \A k \in A : hit(k) = <<s, hit(k)[2]>> /\ hit(k)[2] \in wanted /\ k \in 1..N
    BY <1>2, <1>6, <1>8
  <2>2. \A k \in A : f[k] \in shown
    <3> TAKE k \in A
    <3>1. f[k] = hit(k)[2] /\ hit(k) = <<s, f[k]>> /\ f[k] \in wanted
      BY <2>1
    <3> HIDE DEF shown, f
    <3> QED BY <1>10, <3>1
  <2>3. \A k, m \in A : f[k] = f[m] => k = m
    <3> SUFFICES ASSUME NEW k \in A, NEW m \in A, f[k] = f[m] PROVE k = m
      OBVIOUS
    <3>1. hit(k) = hit(m)
      BY <2>1
    <3>2. k - 1 = m - 1
      BY <1>6, <2>1, <3>1
    <3> QED BY <3>2
  <2>4. \A i \in shown : \E k \in A : f[k] = i
    <3> SUFFICES ASSUME NEW i \in shown PROVE \E k \in A : f[k] = i
      OBVIOUS
    <3>1. PICK k \in A : hit(k) = <<s, i>>
      BY <1>10, <1>11
    <3> QED BY <3>1
  <2>5. IsFiniteSet(shown)
    BY <1>2, <1>11, FS_Subset
  <2> HIDE DEF A, f, shown
  <2>6. Cardinality(A) = Cardinality(shown)
    BY <2>2, <2>3, <2>4, <2>5, SameSize
  <2>7. Cardinality(A) = L
    BY <1>8, FS_Interval DEF A
  <2> QED BY <2>6, <2>7
<1>13. ASSUME NEW i \in shown, NEW j \in wanted \ shown
       PROVE  \/ Facts[j].from = None
              \/ /\ Facts[i].from # None
                 /\ IF q.ascending THEN Facts[i].from <= Facts[j].from
                    ELSE Facts[i].from >= Facts[j].from
  <2>1. i \in wanted /\ j \in wanted /\ i # j /\ i \in DOMAIN Facts /\ j \in DOMAIN Facts
    BY <1>11
  <2>2. <<s, i>> \in P /\ <<s, j>> \in P /\ <<s, i>> # <<s, j>>
    BY <1>2, <2>1
  <2>3. PICK k \in 1..L : hit(k) = <<s, i>>
    BY <1>10, <1>13
  <2>4. PICK m \in 1..N : hit(m) = <<s, j>>
    BY <1>6, <2>2
  <2>5. m \notin 1..L
    BY <1>10, <1>13, <2>4
  <2>6. k \in 1..N /\ k < m
    BY <1>6, <1>8, <2>5
  <2>7. rank(<<s, i>>) = k - 1 /\ rank(<<s, j>>) = m - 1
    BY <1>6, <2>3, <2>4, <2>6
  <2>8. ~before(<<s, j>>, <<s, i>>)
    <3>1. ~(m - 1 < k - 1)
      BY <2>6
    <3> QED BY <1>6, <2>2, <2>7, <3>1
  <2>9. before(<<s, i>>, <<s, j>>)
    BY <1>7, <2>2, <2>8
  <2>10. FactAt(graph, <<s, i>>) = Facts[i] /\ FactAt(graph, <<s, j>>) = Facts[j]
    BY <1>2, <2>1
  <2>11. SortsBefore(q, Facts[i], Facts[j]) \/ ~SortsBefore(q, Facts[j], Facts[i])
    BY <1>9, <2>2, <2>9, <2>10
  <2>12. ~SortsBefore(q, Facts[j], Facts[i])
    BY <1>1, <1>4, <2>1, <2>11, SortIsOrder
  <2>13. /\ Facts[i].from \in Int \cup {None} /\ Facts[j].from \in Int \cup {None}
         /\ None \notin Int
    BY <1>4, <2>1, TypesAssumption DEF Fact, Stamps
  <2> QED BY <1>1, <2>12, <2>13 DEF SortsBefore, KeyLess, OptionLess
<1>14. page.total = Cardinality(wanted) /\ Cardinality(shown) = Min({q.limit, page.total})
  BY <1>2, <1>3, <1>12 DEF L
<1> HIDE DEF wanted, shown
<1> QED BY <1>13, <1>14 DEF wanted, shown, page

\* In every reachable state the limit of an answer never cuts off a fact of the
\* subject in favour of one that the order asked for puts after it.
THEOREM LimitsKeepTheFirst == HistorySpec => []LimitKeepsTheFirst
<1>1. HistoryInv => LimitKeepsTheFirst
  BY LimitKeeps DEF LimitKeepsTheFirst
<1> QED BY <1>1, HistoryInvariant, PTL

-----------------------------------------------------------------------------
(* Instants: the order of the strings                                      *)

\* A number of whole units and less than one unit more.
LEMMA WholeUnits ==
    ASSUME NEW u \in Nat \ {0}, NEW m \in Int, NEW n \in Int, m < n,
           NEW r \in 0..(u - 1), NEW s \in Nat
    PROVE  m * u + r < n * u + s
<1>1. (m + 1) * u <= n * u
    <2>1. PICK k \in Nat : n = m + 1 + k
        <3>1. n - m - 1 \in Nat /\ n = m + 1 + (n - m - 1)
            OBVIOUS
        <3> QED BY <3>1
    <2>2. n * u = (m + 1) * u + k * u /\ k * u \in Nat
        BY <2>1
    <2> QED BY <2>2
<1>2. (m + 1) * u = m * u + u /\ m * u \in Int /\ n * u \in Int
    OBVIOUS
<1> QED BY <1>1, <1>2

\* An instant in seconds, and what it has of a second more.
Seconds(w) == w.date * DaySeconds + (IF w.clock = Absent THEN 0 ELSE w.clock)
Fraction(w) == IF w.fraction = Absent THEN 0 ELSE w.fraction

\* When a canonical instant is.
LEMMA CanonicalTime ==
    ASSUME NEW w \in Canonical
    PROVE  /\ w.date \in Nat /\ w.padded /\ w.sign = Plus /\ w.offset = 0
           /\ w.clock \in {Absent} \cup 0..(DaySeconds - 1)
           /\ w.fraction \in {Absent} \cup 0..(Precision - 1)
           /\ w.clock = Absent => w.fraction = Absent
           /\ Seconds(w) \in Nat /\ Fraction(w) \in 0..(Precision - 1)
           /\ TimeOf(w) = Seconds(w) * Precision + Fraction(w)
<1>1. /\ w.date \in Nat /\ w.padded /\ w.sign = Plus /\ w.offset = 0
      /\ w.clock \in {Absent} \cup 0..(DaySeconds - 1)
      /\ w.fraction \in {Absent} \cup 0..(Precision - 1)
      /\ w.clock = Absent => w.fraction = Absent
    <2>1. (w \in Date \/ w \in DateTime) /\ w.padded /\ w.sign = Plus /\ w.offset = 0
        BY DEF Canonical, Accepted
    <2>2. w \in Date => w.date \in Nat /\ w.clock = Absent /\ w.fraction = Absent
        BY DEF Date
    <2>3. w \in DateTime => /\ w.date \in Nat /\ w.clock \in 0..(DaySeconds - 1)
                            /\ w.fraction \in {Absent} \cup 0..(Precision - 1)
        BY DEF DateTime
    <2>4. \A k \in 0..(DaySeconds - 1) : k # Absent
        BY DEF Absent
    <2> QED BY <2>1, <2>2, <2>3, <2>4
<1>2. Fraction(w) \in 0..(Precision - 1)
    BY <1>1, InstantAssumption DEF Fraction, Absent
<1>3. Seconds(w) \in Nat
    <2>1. w.date * DaySeconds \in Nat
        BY <1>1, InstantAssumption
    <2> QED BY <1>1, <2>1, InstantAssumption DEF Seconds, Absent
<1>4. w.offset * HourSeconds = 0
    BY <1>1, InstantAssumption
<1>5. TimeOf(w) = Seconds(w) * Precision + Fraction(w)
    BY <1>1, <1>3, <1>4 DEF TimeOf, Seconds, Fraction, Plus, Minus
<1> QED BY <1>1, <1>2, <1>3, <1>5

\* Of two strings the first is the earlier in seconds or, in the same second,
\* no later in its fraction.
LEMMA SecondsFirst ==
    ASSUME NEW v \in Canonical, NEW w \in Canonical, Before(v, w)
    PROVE  \/ Seconds(v) < Seconds(w)
           \/ Seconds(v) = Seconds(w) /\ Fraction(v) <= Fraction(w)
<1> USE CanonicalTime DEF Seconds, Fraction
<1>1. PICK i \in 1..7 :
        /\ Spelling(v)[i] < Spelling(w)[i]
        /\ \A j \in 1..(i - 1) : Spelling(v)[j] = Spelling(w)[j]
    BY DEF Before
<1>2. \A x \in {v, w} :
        /\ Spelling(x)[1] = x.date \div 10 /\ Spelling(x)[2] = x.date % 10
        /\ Spelling(x)[3] = x.clock
        /\ Spelling(x)[4] = IF x.fraction = Absent THEN Plus ELSE Dot
        /\ Spelling(x)[5] = Fraction(x)
        /\ Spelling(x)[6] = 0 /\ Spelling(x)[7] = 0
    <2> TAKE x \in {v, w}
    <2>1. Spelling(x) = IF x.fraction = Absent
                        THEN <<x.date \div 10, x.date % 10, x.clock, Plus, 0, 0, 0>>
                        ELSE <<x.date \div 10, x.date % 10, x.clock, Dot, x.fraction, Plus, 0>>
        BY DEF Spelling, Digits
    <2> QED BY <2>1 DEF Plus
<1>3. CASE i \in 1..2
    <2>1. v.date < w.date
        <3>1. /\ v.date \in Nat /\ w.date \in Nat
              /\ \/ v.date \div 10 < w.date \div 10
                 \/ v.date \div 10 = w.date \div 10 /\ v.date % 10 < w.date % 10
            BY <1>1, <1>2, <1>3
        <3> HIDE DEF Seconds, Fraction
        <3> QED BY ONLY <3>1
    <2>2. \A x \in {v, w} : (IF x.clock = Absent THEN 0 ELSE x.clock) \in 0..(DaySeconds - 1)
        BY InstantAssumption DEF Absent
    <2>3. /\ v.date \in Int /\ w.date \in Int
          /\ (IF w.clock = Absent THEN 0 ELSE w.clock) \in Nat
        BY <2>2, InstantAssumption
    <2>4. v.date * DaySeconds + (IF v.clock = Absent THEN 0 ELSE v.clock)
            < w.date * DaySeconds + (IF w.clock = Absent THEN 0 ELSE w.clock)
        BY ONLY <2>1, <2>2, <2>3, WholeUnits, InstantAssumption
    <2> QED BY <2>4
<1>0. i > 2 => v.date = w.date
    <2>1. i > 2 => /\ v.date \div 10 = w.date \div 10 /\ v.date % 10 = w.date % 10
                   /\ v.date \in Nat /\ w.date \in Nat
        BY <1>1, <1>2
    <2>2. ASSUME NEW m \in Nat, NEW n \in Nat, m \div 10 = n \div 10, m % 10 = n % 10
          PROVE  m = n
        BY ONLY <2>2
    <2> QED BY <2>1, <2>2
<1>4. CASE i = 3
    <2>1. v.date = w.date /\ v.clock < w.clock
        BY <1>0, <1>1, <1>2, <1>4
    <2>2. v.date * DaySeconds \in Int
        BY InstantAssumption
    <2>3. CASE v.clock = Absent
        BY <2>1, <2>2, <2>3, InstantAssumption DEF Absent
    <2>4. CASE v.clock # Absent
        BY <2>1, <2>2, <2>4, InstantAssumption DEF Absent
    <2> QED BY <2>3, <2>4
<1>5. CASE i \in 4..7
    <2>1. v.date = w.date /\ v.clock = w.clock
        BY <1>0, <1>1, <1>2, <1>5
    <2>2. Fraction(v) <= Fraction(w)
        <3>1. CASE i = 4
            <4>1. v.fraction = Absent
                BY <1>1, <1>2, <3>1 DEF Plus, Dot
            <4> QED BY <4>1, InstantAssumption
        <3>2. CASE i # 4
            BY <1>1, <1>2, <1>5, <3>2, InstantAssumption
        <3> QED BY <3>1, <3>2
    <2> QED BY <2>1, <2>2
<1> QED BY <1>1, <1>3, <1>4, <1>5

\* Of instants written canonically the order of the strings never contradicts
\* the order in time: what search_facts finds as of an instant is wrong at most
\* about facts that begin or end at that very instant and write it in another
\* precision.
THEOREM CanonicalOrder ==
    \A v, w \in Canonical : Before(v, w) => TimeOf(v) <= TimeOf(w)
<1> SUFFICES ASSUME NEW v \in Canonical, NEW w \in Canonical, Before(v, w)
             PROVE  TimeOf(v) <= TimeOf(w)
    OBVIOUS
<1>1. CASE Seconds(v) < Seconds(w)
    <2>1. /\ Seconds(v) \in Int /\ Seconds(w) \in Int
          /\ Fraction(v) \in 0..(Precision - 1) /\ Fraction(w) \in Nat
        BY CanonicalTime, InstantAssumption
    <2>2. Seconds(v) * Precision + Fraction(v) < Seconds(w) * Precision + Fraction(w)
        BY <1>1, <2>1, WholeUnits, InstantAssumption
    <2>3. TimeOf(v) \in Int /\ TimeOf(w) \in Int
        BY <2>1, CanonicalTime, InstantAssumption
    <2> QED BY <2>2, <2>3, CanonicalTime
<1>2. CASE Seconds(v) = Seconds(w) /\ Fraction(v) <= Fraction(w)
    <2>1. Seconds(v) * Precision \in Int
        BY CanonicalTime, InstantAssumption
    <2> QED BY <1>2, <2>1, CanonicalTime, InstantAssumption
<1> QED BY <1>1, <1>2, SecondsFirst

-----------------------------------------------------------------------------
(* Answers and the time                                                    *)

\* The times of the graph are the places of canonical instants in the order of
\* their strings.
WrittenCanonically ==
    \E written \in [Times -> Canonical] :
        /\ Real = [t \in Times |-> TimeOf(written[t])]
        /\ \A t, u \in Times : t < u => Before(written[t], written[u])

\* Then the order of the times is that of what they stand for.
OrderTellsTime ==
    /\ Real \in [Times -> Int]
    /\ \A t, u \in Times : t < u => Real[t] <= Real[u]

\* The order of canonical strings is the order in time: CanonicalOrder, for places.
LEMMA CanonicalTellsTime == ASSUME WrittenCanonically PROVE OrderTellsTime
<1>1. PICK written \in [Times -> Canonical] :
        /\ Real = [t \in Times |-> TimeOf(written[t])]
        /\ \A t, u \in Times : t < u => Before(written[t], written[u])
  BY DEF WrittenCanonically
<1>2. \A w \in Canonical : TimeOf(w) \in Int
  <2> TAKE w \in Canonical
  <2>1. Seconds(w) \in Nat /\ Fraction(w) \in 0..(Precision - 1)
        /\ TimeOf(w) = Seconds(w) * Precision + Fraction(w)
    BY CanonicalTime
  <2>2. Seconds(w) * Precision \in Int
    BY <2>1, InstantAssumption
  <2> QED BY <2>1, <2>2, InstantAssumption
<1>3. \A t \in Times : written[t] \in Canonical /\ Real[t] = TimeOf(written[t])
  BY <1>1
<1>4. Real \in [Times -> Int]
  BY <1>1, <1>2
<1>5. ASSUME NEW t \in Times, NEW u \in Times, t < u PROVE Real[t] <= Real[u]
  <2>1. Before(written[t], written[u])
    BY <1>1, <1>5
  <2>2. TimeOf(written[t]) <= TimeOf(written[u])
    BY <1>3, <2>1, CanonicalOrder
  <2> QED BY <1>3, <2>2
<1> QED BY <1>4, <1>5 DEF OrderTellsTime

\* When instants are written canonically, as dates, in seconds or with fractions,
\* in every reachable state a fact found as of t is true at the instant t stands
\* for, and one that is not found is not true strictly inside its interval.
THEOREM AnswersTellTheTime == ASSUME WrittenCanonically PROVE HistorySpec => []AsOfTellsTheTime
<1>1. ASSUME HistoryInv, OrderTellsTime, NEW t \in Times, NEW i \in DOMAIN Facts
      PROVE  IF \E k \in DOMAIN AsOf(graph, t).facts : AsOf(graph, t).facts[k].fact = Facts[i]
             THEN /\ Facts[i].from = None \/ Real[Facts[i].from] < Real[t] + 1
                  /\ Facts[i].to = None \/ Real[t] < Real[Facts[i].to] + 1
             ELSE ~(/\ Facts[i].from = None \/ Real[Facts[i].from] < Real[t] + 0
                    /\ Facts[i].to = None \/ Real[t] < Real[Facts[i].to] + 0)
  <2>1. (\E k \in DOMAIN AsOf(graph, t).facts : AsOf(graph, t).facts[k].fact = Facts[i])
        <=> Standing(Facts[i], t)
    BY <1>1, AsOfShows
  <2>2. Facts[i] \in Fact
    <3>1. EntityOf(graph, Subject) \in Entity
      BY <1>1, Looking DEF HistoryInv, TypeOK
    <3> QED BY <3>1, Rows DEF Entity, Facts
  <2>3. Facts[i].from \in Times \cup {None} /\ Facts[i].to \in Times \cup {None}
    BY <2>2 DEF Fact, Stamps
  <2>4. \A u, v \in Times : /\ u \in Int /\ v \in Int /\ Real[u] \in Int /\ Real[v] \in Int
                            /\ u < v => Real[u] <= Real[v]
    BY <1>1, TypesAssumption DEF OrderTellsTime
  <2>5. \A u, v \in Times : u <= v => Real[u] <= Real[v]
    <3> TAKE u, v \in Times
    <3>1. u <= v => u < v \/ u = v
      BY <2>4
    <3> QED BY <2>4, <3>1
  <2>6. CASE Standing(Facts[i], t)
    BY <2>1, <2>3, <2>4, <2>5, <2>6 DEF Standing
  <2>7. CASE ~Standing(Facts[i], t)
    BY <2>1, <2>3, <2>4, <2>5, <2>7 DEF Standing
  <2> QED BY <2>6, <2>7
<1>2. HistoryInv => AsOfTellsTheTime
  BY <1>1, CanonicalTellsTime DEF AsOfTellsTheTime
<1> QED BY <1>2, HistoryInvariant, PTL

\* A batch is not backdated: nothing in it begins before it is recorded.
NotBackdated(b, now) == \A i \in DOMAIN b : b[i].from = None \/ b[i].from >= now

\* What it adds to the subject begins at the time of the call or later.
LEMMA NewBeginLater ==
    ASSUME NEW g \in Graph, NEW e \in Entity, e = EntityOf(g, e.name),
           NEW b \in Seq(FactInput), NEW now \in Times, NotBackdated(b, now),
           NEW k \in DOMAIN Observed(g, e, b, now).facts \ DOMAIN e.facts
    PROVE  /\ Observed(g, e, b, now).facts[k].from \in Int
           /\ now <= Observed(g, e, b, now).facts[k].from
<1> DEFINE o == Observed(g, e, b, now)
           added == AddedTo(g, b, e.name)
<1>1. /\ o \in Entity /\ o.name = e.name
      /\ Len(e.facts) <= Len(o.facts)
      /\ DOMAIN e.facts \subseteq DOMAIN o.facts
      /\ \A l \in DOMAIN e.facts :
            \/ o.facts[l] = e.facts[l] /\ ~\E a \in added :
                  b[a].supersedes = e.facts[l].text /\ TextIndex(e, e.facts[l].text) = l
            \/ \E a \in added :
                  /\ b[a].supersedes = e.facts[l].text
                  /\ TextIndex(e, e.facts[l].text) = l
                  /\ o.facts[l] = [e.facts[l] EXCEPT !.to = NewFact(b[a], now).from]
      /\ \A l \in DOMAIN e.facts : o.facts[l].text = e.facts[l].text
      /\ \A l \in DOMAIN o.facts \ DOMAIN e.facts :
            \E a \in added : o.facts[l] = NewFact(b[a], now) /\ b[a].text \notin Texts(e)
      /\ \A a \in added :
            \E l \in DOMAIN o.facts \ DOMAIN e.facts : o.facts[l] = NewFact(b[a], now)
      /\ \A l, m \in DOMAIN o.facts \ DOMAIN e.facts :
            o.facts[l].text = o.facts[m].text => l = m
  BY Zenon, ObservedDoes
<1> HIDE DEF o
<1>2. k \in DOMAIN o.facts \ DOMAIN e.facts
  BY DEF o
<1>3. PICK a \in added : o.facts[k] = NewFact(b[a], now)
  BY <1>1, <1>2
<1>4. a \in DOMAIN b /\ b[a] \in FactInput
  BY Rows DEF AddedTo
<1>5. /\ b[a].from \in Int \cup {None} /\ None \notin Int /\ now \in Int
      /\ b[a].from = None \/ b[a].from >= now
  BY <1>4, TypesAssumption DEF NotBackdated, FactInput, Stamps
<1>6. NewFact(b[a], now).from = IF b[a].from = None THEN now ELSE b[a].from
  BY DEF NewFact
<1>7. o.facts[k].from \in Int /\ now <= o.facts[k].from
  BY <1>3, <1>5, <1>6
<1> QED BY <1>7 DEF o

\* Before it was recorded the same facts stood, with the same keys and texts.
LEMMA PastUntouched ==
    ASSUME NEW e \in Entity, NEW o \in Entity, OnlyClosed(e, o),
           NEW now \in Times, NEW t \in Times, t < now,
           \A k \in DOMAIN o.facts \ DOMAIN e.facts :
              o.facts[k].from \in Int /\ now <= o.facts[k].from
    PROVE  /\ DOMAIN e.facts \subseteq DOMAIN o.facts
           /\ \A k \in DOMAIN o.facts : Standing(o.facts[k], t) =>
                 k \in DOMAIN e.facts
           /\ \A k \in DOMAIN e.facts :
                 /\ Standing(o.facts[k], t) <=> Standing(e.facts[k], t)
                 /\ o.facts[k].text = e.facts[k].text
                 /\ o.facts[k].from = e.facts[k].from
                 /\ o.facts[k].recorded = e.facts[k].recorded
<1>1. /\ Len(e.facts) \in Nat /\ DOMAIN e.facts = 1..Len(e.facts)
      /\ Len(o.facts) \in Nat /\ DOMAIN o.facts = 1..Len(o.facts)
      /\ \A k \in DOMAIN e.facts : e.facts[k] \in Fact
  BY Rows DEF Entity
<1>2. t \in Int /\ now \in Int /\ None \notin Int
  BY TypesAssumption
<1>3. DOMAIN e.facts \subseteq DOMAIN o.facts
  BY <1>1 DEF OnlyClosed
<1>4. ASSUME NEW k \in DOMAIN o.facts, k \notin DOMAIN e.facts PROVE ~Standing(o.facts[k], t)
  <2>1. o.facts[k].from \in Int /\ now <= o.facts[k].from
    BY <1>4
  <2> QED BY <1>2, <2>1 DEF Standing
<1>5. ASSUME NEW k \in DOMAIN e.facts
      PROVE  /\ Standing(o.facts[k], t) <=> Standing(e.facts[k], t)
             /\ o.facts[k].text = e.facts[k].text
             /\ o.facts[k].from = e.facts[k].from
             /\ o.facts[k].recorded = e.facts[k].recorded
  <2>1. CASE o.facts[k] = e.facts[k]
    BY <2>1
  <2>2. CASE /\ IsActive(e.facts[k])
             /\ \E a \in (Len(e.facts) + 1)..Len(o.facts) :
                   o.facts[k] = [e.facts[k] EXCEPT !.to = o.facts[a].from]
    <3>1. PICK a \in (Len(e.facts) + 1)..Len(o.facts) :
              o.facts[k] = [e.facts[k] EXCEPT !.to = o.facts[a].from]
      BY <2>2
    <3>2. e.facts[k] \in Fact
      BY <1>1
    <3>3. /\ o.facts[k].text = e.facts[k].text
          /\ o.facts[k].from = e.facts[k].from
          /\ o.facts[k].recorded = e.facts[k].recorded
          /\ o.facts[k].to = o.facts[a].from
      BY <3>1, <3>2 DEF Fact
    <3>4. o.facts[a].from \in Int /\ now <= o.facts[a].from
      <4>1. a \in DOMAIN o.facts \ DOMAIN e.facts
        BY <1>1
      <4> QED BY <4>1
    <3>5. t < o.facts[k].to
      BY <1>2, <3>3, <3>4
    <3>6. e.facts[k].to = None
      BY <2>2 DEF IsActive
    <3> QED BY <3>3, <3>5, <3>6 DEF Standing
  <2> QED BY <2>1, <2>2 DEF OnlyClosed
<1> QED BY <1>3, <1>4, <1>5

\* So the answer as of an earlier instant is the same.
LEMMA PastAnswers ==
    ASSUME NEW g \in Graph, HasEntity(g, Subject), OneOfAName(g),
           NEW b \in Seq(FactInput), ObservationsOK(g, b),
           NEW now \in Times, NotBackdated(b, now), NEW t \in Times, t < now
    PROVE  Told(AddObservations(g, b, now), t) = Told(g, t)
<1> DEFINE h == AddObservations(g, b, now)
           e == EntityOf(g, Subject)
           o == Observed(g, e, b, now)
           s == EntityIndex(g, Subject)
           q == AsOfQuery(g, t)
           r == AsOfQuery(h, t)
           P == Hits(g, q)
           R == Hits(h, r)
           N == Cardinality(P)
<1>1. e \in Entity /\ e.name = Subject /\ e = EntityOf(g, e.name)
  BY Looking
<1>2. /\ h \in Graph /\ HasEntity(h, Subject) /\ OneOfAName(h)
      /\ EntityIndex(h, Subject) = s /\ EntityOf(h, Subject) = o
      /\ OnlyClosed(e, o)
  BY SubjectObserved
<1>3. o \in Entity
  <2>1. EntityOf(h, Subject) \in Entity
    <3> HIDE DEF h
    <3> QED BY <1>2, Looking
  <2> QED BY <1>2, <2>1
<1>4. /\ AsOf(g, t) = SearchFacts(g, q) /\ AsOf(h, t) = SearchFacts(h, r)
      /\ \A f : Wanted(q, f) <=> Standing(f, t)
      /\ \A f : Wanted(r, f) <=> Standing(f, t)
      /\ q.entity = Subject /\ q.ascending \in BOOLEAN /\ q.limit = Len(e.facts)
      /\ r.entity = Subject /\ r.ascending \in BOOLEAN /\ r.limit = Len(EntityOf(h, Subject).facts)
  BY AsOfWants
<1>5. q.ascending = r.ascending
  BY DEF AsOfQuery
<1>6. /\ DOMAIN e.facts \subseteq DOMAIN o.facts
      /\ \A k \in DOMAIN o.facts : Standing(o.facts[k], t) => k \in DOMAIN e.facts
      /\ \A k \in DOMAIN e.facts :
            /\ Standing(o.facts[k], t) <=> Standing(e.facts[k], t)
            /\ o.facts[k].text = e.facts[k].text
            /\ o.facts[k].from = e.facts[k].from
            /\ o.facts[k].recorded = e.facts[k].recorded
  <2>1. \A k \in DOMAIN o.facts \ DOMAIN e.facts :
           o.facts[k].from \in Int /\ now <= o.facts[k].from
    BY <1>1, NewBeginLater
  <2> HIDE DEF o, e
  <2> QED BY <1>1, <1>2, <1>3, <2>1, PastUntouched
<1> HIDE DEF h, o, q, r, s
<1>7. /\ \A k \in DOMAIN e.facts : Wanted(q, e.facts[k]) => <<s, k>> \in P
      /\ \A p \in P : /\ p = <<s, p[2]>> /\ p[2] \in DOMAIN e.facts
                      /\ Wanted(q, e.facts[p[2]])
      /\ \A k \in DOMAIN e.facts : FactAt(g, <<s, k>>) = e.facts[k]
      /\ Placed(g, P) /\ IsFiniteSet(P)
  <2> DEFINE wanted == {k \in DOMAIN e.facts : Wanted(q, e.facts[k])}
  <2>1. /\ \A k \in wanted : <<s, k>> \in P
        /\ \A p \in P : p = <<s, p[2]>> /\ p[2] \in wanted
        /\ \A k \in DOMAIN e.facts : FactAt(g, <<s, k>>) = e.facts[k]
        /\ Placed(g, P) /\ IsFiniteSet(P)
    BY <1>4, SubjectHits DEF s
  <2> HIDE DEF P, e
  <2> QED BY <2>1
<1>8. /\ \A k \in DOMAIN o.facts : Wanted(r, o.facts[k]) => <<s, k>> \in R
      /\ \A p \in R : /\ p = <<s, p[2]>> /\ p[2] \in DOMAIN o.facts
                      /\ Wanted(r, o.facts[p[2]])
      /\ \A k \in DOMAIN o.facts : FactAt(h, <<s, k>>) = o.facts[k]
      /\ Placed(h, R) /\ IsFiniteSet(R)
  <2> DEFINE facts == EntityOf(h, Subject).facts
             i == EntityIndex(h, Subject)
             wanted == {k \in DOMAIN facts : Wanted(r, facts[k])}
  <2>1. /\ \A k \in wanted : <<i, k>> \in R
        /\ \A p \in R : p = <<i, p[2]>> /\ p[2] \in wanted
        /\ \A k \in DOMAIN facts : FactAt(h, <<i, k>>) = facts[k]
        /\ Placed(h, R) /\ IsFiniteSet(R)
    BY <1>2, <1>4, SubjectHits
  <2>2. facts = o.facts /\ i = s
    BY <1>2
  <2> HIDE DEF facts, i, R
  <2> QED BY <2>1, <2>2
<1> HIDE DEF e, P, R, N
<1>9. R = P
  <2>1. \A p \in P : p \in R
    <3> TAKE p \in P
    <3>1. p = <<s, p[2]>> /\ p[2] \in DOMAIN e.facts /\ Standing(e.facts[p[2]], t)
      BY <1>4, <1>7
    <3>2. p[2] \in DOMAIN o.facts /\ Wanted(r, o.facts[p[2]])
      BY <1>4, <1>6, <3>1
    <3>3. <<s, p[2]>> \in R
      BY <1>8, <3>2
    <3> QED BY <3>1, <3>3
  <2>2. \A p \in R : p \in P
    <3> TAKE p \in R
    <3>1. p = <<s, p[2]>> /\ p[2] \in DOMAIN o.facts /\ Standing(o.facts[p[2]], t)
      BY <1>4, <1>8
    <3>2. p[2] \in DOMAIN e.facts /\ Wanted(q, e.facts[p[2]])
      BY <1>4, <1>6, <3>1
    <3>3. <<s, p[2]>> \in P
      BY <1>7, <3>2
    <3> QED BY <3>1, <3>3
  <2> QED BY <2>1, <2>2
<1>10. \A p \in P : /\ FactAt(h, p).text = FactAt(g, p).text
                    /\ FactAt(h, p).from = FactAt(g, p).from
                    /\ FactAt(h, p).recorded = FactAt(g, p).recorded
  <2> TAKE p \in P
  <2>1. p = <<s, p[2]>> /\ p[2] \in DOMAIN e.facts /\ p[2] \in DOMAIN o.facts
    BY <1>6, <1>7
  <2>2. FactAt(g, p) = e.facts[p[2]] /\ FactAt(h, p) = o.facts[p[2]]
    BY <1>7, <1>8, <2>1
  <2> QED BY <1>6, <2>1, <2>2
<1>11. \A p, u \in P : SortsBefore(r, FactAt(h, p), FactAt(h, u))
                       <=> SortsBefore(q, FactAt(g, p), FactAt(g, u))
  BY <1>5, <1>10 DEF SortsBefore, KeyLess
<1>12. \A p, u \in P : ComesBefore(h, r, p, u) <=> ComesBefore(g, q, p, u)
  BY <1>11 DEF ComesBefore
<1>13. \A p \in P : Below(h, r, P, p) = Below(g, q, P, p)
  BY <1>12 DEF Below
<1>14. Ranked(g, q, P) /\ Ranked(h, r, P)
  BY <1>4, <1>7, <1>8, <1>9, HitsAreRanked
<1>15. ASSUME NEW n \in 1..N PROVE NthHit(h, r, P, n) = NthHit(g, q, P, n) /\ NthHit(g, q, P, n) \in P
  <2>1. /\ NthHit(g, q, P, n) \in P /\ Cardinality(Below(g, q, P, NthHit(g, q, P, n))) = n - 1
        /\ NthHit(h, r, P, n) \in P /\ Cardinality(Below(h, r, P, NthHit(h, r, P, n))) = n - 1
    BY <1>14 DEF Ranked, N
  <2>2. PICK x \in P : x = NthHit(g, q, P, n)
    BY <2>1
  <2>3. PICK y \in P : y = NthHit(h, r, P, n)
    BY <2>1
  <2>4. Cardinality(Below(g, q, P, x)) = n - 1 /\ Cardinality(Below(g, q, P, y)) = n - 1
    BY <1>13, <2>1, <2>2, <2>3
  <2>5. x = y
    <3>1. ~ComesBefore(g, q, x, y) /\ ~ComesBefore(g, q, y, x)
      <4>1. ~(n - 1 < n - 1)
        OBVIOUS
      <4> QED BY <1>14, <2>4, <4>1 DEF Ranked
    <3> QED BY <1>4, <1>7, <3>1, HitsAreOrdered
  <2> QED BY <2>2, <2>3, <2>5
<1> DEFINE before == SearchFacts(g, q).facts
           after == SearchFacts(h, r).facts
<1>16. DOMAIN before = 1..N /\ DOMAIN after = 1..N
  <2>1. DOMAIN before = 1..Cardinality(Hits(g, q))
    BY <1>4, WholeAnswer DEF e
  <2>2. DOMAIN after = 1..Cardinality(Hits(h, r))
    BY <1>2, <1>4, WholeAnswer
  <2> HIDE DEF before, after
  <2> QED BY <1>9, <2>1, <2>2 DEF N, P, R
<1>17. /\ \A n \in DOMAIN before : before[n].fact = FactAt(g, NthHit(g, q, P, n))
       /\ \A n \in DOMAIN after : after[n].fact = FactAt(h, NthHit(h, r, P, n))
  <2>1. \A n \in DOMAIN before : before[n].fact = FactAt(g, NthHit(g, q, Hits(g, q), n))
    BY AnswerRows
  <2>2. \A n \in DOMAIN after : after[n].fact = FactAt(h, NthHit(h, r, Hits(h, r), n))
    BY AnswerRows
  <2> HIDE DEF before, after
  <2> QED BY <1>9, <2>1, <2>2 DEF P, R
<1> HIDE DEF before, after
<1>18. \A n \in 1..N : after[n].fact.text = before[n].fact.text
  BY <1>10, <1>15, <1>16, <1>17
<1>19. /\ Told(g, t) = [n \in DOMAIN before |-> before[n].fact.text]
       /\ Told(h, t) = [n \in DOMAIN after |-> after[n].fact.text]
  BY <1>4 DEF Told, before, after
<1>20. Told(h, t) = Told(g, t)
  BY <1>16, <1>18, <1>19
<1> QED BY <1>20 DEF h

\* In every reachable state an observation that is not backdated leaves the
\* answer as of every earlier instant as it was, order included.
THEOREM ThePastStays == HistorySpec => []PastStaysTrue
<1>1. HistoryInv => PastStaysTrue
  <2> SUFFICES ASSUME HistoryInv, NEW now \in Now, NEW t \in Times, t < now,
                      NEW b \in ObservationBatches, ObservationsOK(graph, b),
                      \A i \in DOMAIN b : b[i].from = None \/ b[i].from >= now
               PROVE  Told(AddObservations(graph, b, now), t) = Told(graph, t)
    BY DEF PastStaysTrue
  <2>1. /\ graph \in Graph /\ HasEntity(graph, Subject) /\ OneOfAName(graph)
        /\ b \in Seq(FactInput) /\ now \in Times /\ NotBackdated(b, now)
    BY ArgumentsTyped, GraphAssumption DEF HistoryInv, TypeOK, NotBackdated
  <2> QED BY <2>1, PastAnswers
<1> QED BY <1>1, HistoryInvariant, PTL
=============================================================================
