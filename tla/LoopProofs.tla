----------------------------- MODULE LoopProofs ------------------------------
(***************************************************************************)
(* That the loops of graph.rs and of graph_data do what the closed forms   *)
(* of GraphOps and GraphQueries say, for every graph.                      *)
(***************************************************************************)
EXTENDS GraphLoops, QueryProofs

\* What N rounds of a loop go through.
IsRun(f, N, S, base, step) ==
    f \in [0..N -> S] /\ f[0] = base /\ \A n \in 1..N : f[n] = step[<<n, f[n - 1]>>]

\* A loop of N rounds is a function of the round.
LEMMA Iterated ==
    ASSUME NEW N \in Nat, NEW S, NEW base \in S, NEW step \in [(1..N) \X S -> S]
    PROVE  \E f : IsRun(f, N, S, base, step)
<1> DEFINE Runs(m) == \E f : IsRun(f, m, S, base, step)
           K == {m \in 0..N : ~Runs(m)}
<1> SUFFICES ASSUME ~Runs(N) PROVE FALSE
  OBVIOUS
<1>1. PICK m \in K : \A k \in K : m <= k
  <2>1. K \in SUBSET Nat /\ N \in K
    OBVIOUS
  <2> HIDE DEF K
  <2> QED BY <2>1, LeastNumber
<1>2. Runs(0)
  <2> DEFINE f == [n \in 0..0 |-> base]
  <2>1. IsRun(f, 0, S, base, step)
    BY DEF IsRun
  <2> QED BY <2>1
<1>3. m \in Nat /\ m # 0 /\ m <= N /\ ~Runs(m)
  <2>1. m \in 0..N /\ ~Runs(m)
    BY <1>1
  <2> HIDE DEF Runs
  <2> QED BY <2>1, <1>2
<1>4. m - 1 \in 0..N /\ m - 1 \notin K
  BY <1>1, <1>3
<1>4a. PICK f : IsRun(f, m - 1, S, base, step)
  BY <1>4
<1>5. /\ f \in [0..(m - 1) -> S] /\ f[0] = base
      /\ \A n \in 1..(m - 1) : f[n] = step[<<n, f[n - 1]>>]
  BY <1>4a DEF IsRun
<1> DEFINE h == [n \in 0..m |-> IF n = m THEN step[<<m, f[m - 1]>>] ELSE f[n]]
<1>6. m - 1 \in 0..(m - 1) /\ f[m - 1] \in S /\ m \in 1..N
  <2>1. m - 1 \in 0..(m - 1) /\ m \in 1..N
    BY <1>3
  <2> QED BY <2>1, <1>5
<1>7. step[<<m, f[m - 1]>>] \in S
  BY <1>6
<1>8. h \in [0..m -> S] /\ h[0] = base
  <2>1. \A n \in 0..m : n # m => n \in 0..(m - 1)
    BY <1>3
  <2>2. 0 \in 0..m /\ 0 # m
    BY <1>3
  <2> QED BY <2>1, <2>2, <1>5, <1>7
<1>9. \A n \in 1..m : h[n] = step[<<n, h[n - 1]>>]
  <2> TAKE n \in 1..m
  <2>1. n \in 0..m /\ n - 1 \in 0..m /\ n - 1 # m /\ m \in 0..m
    BY <1>3
  <2>2. h[n - 1] = f[n - 1]
    BY <2>1
  <2>3. CASE n = m
    BY <2>1, <2>2, <2>3
  <2>4. CASE n # m
    <3>1. n \in 1..(m - 1) /\ h[n] = f[n]
      BY <2>1, <2>4, <1>3
    <3> QED BY <3>1, <2>2, <1>5
  <2> QED BY <2>3, <2>4
<1>10. Runs(m)
  <2> HIDE DEF h
  <2>1. IsRun(h, m, S, base, step)
    BY <1>8, <1>9 DEF IsRun
  <2> QED BY <2>1
<1> QED BY <1>3, <1>10

-----------------------------------------------------------------------------
(* The neighbourhood                                                       *)

\* The rounds of a search.
IsSearch(g, center, depth, f) ==
    /\ f[0] = [included |-> {center}, frontier |-> {center}]
    /\ \A n \in 1..depth : f[n] = Expand(g, f[n - 1])

\* The search of graph_data, round by round.
LEMMA Searched ==
    ASSUME NEW g \in Graph, NEW center \in Names, NEW depth \in Nat
    PROVE  \E f : /\ IsSearch(g, center, depth, f)
                 /\ LoopWithin(g, center, depth) = f[depth].included
<1> DEFINE S == [included : SUBSET Names, frontier : SUBSET Names]
           base == [included |-> {center}, frontier |-> {center}]
           step == [p \in (1..depth) \X S |-> Expand(g, p[2])]
           Rounds(f) == f = [n \in 0..depth |-> IF n = 0 THEN base ELSE Expand(g, f[n - 1])]
<1>1. base \in S
  OBVIOUS
<1>2. \A s \in S : Expand(g, s) \in S
  <2> TAKE s \in S
  <2>1. \A r \in Range(g.relations) : r.from \in Names /\ r.to \in Names
    <3>1. g.relations \in Seq(Relation)
      BY DEF Graph
    <3>2. \A i \in DOMAIN g.relations : g.relations[i] \in Relation
      BY <3>1, Rows
    <3> QED BY <3>2 DEF Range, Relation
  <2> DEFINE next == ({r.to : r \in {q \in Range(g.relations) : q.from \in s.frontier}}
                      \cup {r.from : r \in {q \in Range(g.relations) : q.to \in s.frontier}})
                     \ s.included
  <2>2. next \in SUBSET Names
    BY <2>1
  <2>3. Expand(g, s) = [included |-> s.included \cup next, frontier |-> next]
    BY DEF Expand
  <2> HIDE DEF next
  <2> QED BY <2>2, <2>3
<1>3. step \in [(1..depth) \X S -> S]
  BY <1>2
<1>4. \A n \in 1..depth, s \in S : step[<<n, s>>] = Expand(g, s)
  <2> HIDE DEF S
  <2> QED OBVIOUS
<1> HIDE DEF S, base, step
<1>4a. PICK f : IsRun(f, depth, S, base, step)
  BY <1>1, <1>3, Iterated
<1>5. /\ f \in [0..depth -> S] /\ f[0] = base
      /\ \A n \in 1..depth : f[n] = step[<<n, f[n - 1]>>]
  BY <1>4a DEF IsRun
<1>6. Rounds(f)
  <2>1. \A n \in 0..depth : f[n] = IF n = 0 THEN base ELSE Expand(g, f[n - 1])
    <3> TAKE n \in 0..depth
    <3>1. ASSUME n # 0 PROVE n \in 1..depth /\ f[n - 1] \in S
      <4>1. n \in 1..depth /\ n - 1 \in 0..depth
        BY <3>1
      <4> QED BY <4>1, <1>5
    <3> QED BY <3>1, <1>4, <1>5
  <2> QED BY <2>1, <1>5
<1> DEFINE rounds == CHOOSE r : Rounds(r)
<1>7. Rounds(rounds)
  BY <1>6
<1>8. LoopWithin(g, center, depth) = rounds[depth].included
  BY DEF LoopWithin, base
<1> HIDE DEF rounds
<1>9. rounds[0] = base
  BY <1>7
<1>10. \A n \in 1..depth : rounds[n] = Expand(g, rounds[n - 1])
  BY <1>7
<1> QED BY <1>8, <1>9, <1>10 DEF base, IsSearch

\* A path of k relations from center to n.
IsPath(g, center, k, path, n) ==
    /\ path \in [0..k -> Mentioned(g) \cup {center}]
    /\ path[0] = center /\ path[k] = n
    /\ \A i \in 1..k : Linked(g, path[i - 1], path[i])

\* What is within a depth has a path no longer than that.
LEMMA WithinHasPath ==
    ASSUME NEW g, NEW center, NEW depth, NEW n
    PROVE  n \in Within(g, center, depth)
           <=> /\ n \in Mentioned(g) \cup {center}
               /\ \E k \in 0..depth : \E path : IsPath(g, center, k, path, n)
BY DEF Within, IsPath

\* Both ends of a relation are mentioned.
LEMMA LinkedMentioned ==
    ASSUME NEW g, NEW p, NEW n, Linked(g, p, n)
    PROVE  p \in Mentioned(g) /\ n \in Mentioned(g)
<1>1. PICK i \in DOMAIN g.relations :
         {<<p, n>>, <<n, p>>} \cap {<<g.relations[i].from, g.relations[i].to>>} # {}
  BY DEF Linked
<1>2. \/ p = g.relations[i].from /\ n = g.relations[i].to
      \/ n = g.relations[i].from /\ p = g.relations[i].to
  BY <1>1
<1> QED BY <1>1, <1>2 DEF Mentioned

\* Nothing but the center is at distance nought.
LEMMA WithinNought ==
    ASSUME NEW g, NEW center
    PROVE  Within(g, center, 0) = {center}
<1>1. ASSUME NEW n \in Within(g, center, 0) PROVE n = center
  <2>1. PICK k \in 0..0 : \E path : IsPath(g, center, k, path, n)
    BY <1>1, WithinHasPath
  <2> QED BY <2>1 DEF IsPath
<1>2. center \in Within(g, center, 0)
  <2> DEFINE path == [i \in 0..0 |-> center]
  <2>1. IsPath(g, center, 0, path, center)
    BY DEF IsPath
  <2> HIDE DEF path
  <2>2. 0 \in 0..0
    OBVIOUS
  <2> QED BY <2>1, <2>2, WithinHasPath
<1> QED BY <1>1, <1>2

\* A step further is what is linked to what is within.
LEMMA WithinFurther ==
    ASSUME NEW g, NEW center, NEW depth \in Nat, NEW n
    PROVE  n \in Within(g, center, depth + 1)
           <=> \/ n \in Within(g, center, depth)
               \/ \E p \in Within(g, center, depth) : Linked(g, p, n)
<1>1. ASSUME n \in Within(g, center, depth + 1)
      PROVE  \/ n \in Within(g, center, depth)
             \/ \E p \in Within(g, center, depth) : Linked(g, p, n)
  <2>1. n \in Mentioned(g) \cup {center}
    BY <1>1, WithinHasPath
  <2>2. PICK k \in 0..(depth + 1) : \E path : IsPath(g, center, k, path, n)
    BY <1>1, WithinHasPath
  <2>3. PICK path : IsPath(g, center, k, path, n)
    BY <2>2
  <2>4. CASE k \in 0..depth
    BY <2>1, <2>3, <2>4, WithinHasPath
  <2>5. CASE k = depth + 1
    <3> DEFINE p == path[depth]
               short == [i \in 0..depth |-> path[i]]
    <3>1. /\ path \in [0..(depth + 1) -> Mentioned(g) \cup {center}]
          /\ path[0] = center /\ path[depth + 1] = n
          /\ \A i \in 1..(depth + 1) : Linked(g, path[i - 1], path[i])
      BY <2>3, <2>5 DEF IsPath
    <3>2. /\ depth + 1 \in 1..(depth + 1) /\ (depth + 1) - 1 = depth
          /\ depth \in 0..(depth + 1) /\ depth \in 0..depth /\ 0 \in 0..depth
          /\ \A i \in 1..depth : i \in 1..(depth + 1) /\ i - 1 \in 0..depth /\ i \in 0..depth
          /\ \A i \in 0..depth : i \in 0..(depth + 1)
      OBVIOUS
    <3>3. Linked(g, p, n)
      BY <3>1, <3>2
    <3>4. p \in Mentioned(g) \cup {center}
      BY <3>1, <3>2
    <3>5. IsPath(g, center, depth, short, p)
      BY <3>1, <3>2 DEF IsPath
    <3> HIDE DEF p, short
    <3>6. p \in Within(g, center, depth)
      BY <3>2, <3>4, <3>5, WithinHasPath
    <3> QED BY <3>3, <3>6
  <2>6. k \in 0..depth \/ k = depth + 1
    OBVIOUS
  <2> QED BY <2>4, <2>5, <2>6
<1>2. ASSUME n \in Within(g, center, depth) PROVE n \in Within(g, center, depth + 1)
  <2>1. n \in Mentioned(g) \cup {center}
    BY <1>2, WithinHasPath
  <2>2. PICK k \in 0..depth : \E path : IsPath(g, center, k, path, n)
    BY <1>2, WithinHasPath
  <2>3. k \in 0..(depth + 1)
    OBVIOUS
  <2> QED BY <2>1, <2>2, <2>3, WithinHasPath
<1>3. ASSUME NEW p \in Within(g, center, depth), Linked(g, p, n)
      PROVE  n \in Within(g, center, depth + 1)
  <2>1. n \in Mentioned(g)
    BY <1>3, LinkedMentioned
  <2>2. PICK k \in 0..depth : \E path : IsPath(g, center, k, path, p)
    BY <1>3, WithinHasPath
  <2>3. PICK path : IsPath(g, center, k, path, p)
    BY <2>2
  <2> DEFINE long == [i \in 0..(k + 1) |-> IF i = k + 1 THEN n ELSE path[i]]
  <2>4. /\ path \in [0..k -> Mentioned(g) \cup {center}]
        /\ path[0] = center /\ path[k] = p
        /\ \A i \in 1..k : Linked(g, path[i - 1], path[i])
    BY <2>3 DEF IsPath
  <2>5. /\ k \in Nat /\ k + 1 \in 0..(depth + 1) /\ (k + 1) - 1 = k /\ k # k + 1 /\ 0 # k + 1
        /\ 0 \in 0..(k + 1) /\ k \in 0..(k + 1) /\ k + 1 \in 0..(k + 1)
        /\ \A i \in 0..(k + 1) : i = k + 1 \/ i \in 0..k
        /\ \A i \in 1..(k + 1) : /\ i \in 0..(k + 1) /\ i - 1 \in 0..(k + 1) /\ i - 1 # k + 1
                                 /\ i = k + 1 \/ i \in 1..k
    OBVIOUS
  <2>6. long \in [0..(k + 1) -> Mentioned(g) \cup {center}]
    BY <2>1, <2>4, <2>5
  <2>7. long[0] = center /\ long[k + 1] = n
    BY <2>4, <2>5
  <2>8. \A i \in 1..(k + 1) : Linked(g, long[i - 1], long[i])
    <3> TAKE i \in 1..(k + 1)
    <3>1. long[i - 1] = path[i - 1]
      BY <2>5
    <3>2. CASE i = k + 1
      <4>1. long[i] = n /\ path[i - 1] = p
        BY <2>4, <2>5, <3>2
      <4> QED BY <3>1, <4>1, <1>3
    <3>3. CASE i # k + 1
      <4>1. i \in 1..k /\ long[i] = path[i]
        BY <2>5, <3>3
      <4> QED BY <3>1, <4>1, <2>4
    <3> QED BY <3>2, <3>3
  <2>9. IsPath(g, center, k + 1, long, n)
    <3> HIDE DEF long
    <3> QED BY <2>6, <2>7, <2>8 DEF IsPath
  <2> HIDE DEF long
  <2> QED BY <2>1, <2>5, <2>9, WithinHasPath
<1> QED BY <1>1, <1>2, <1>3

\* After n rounds the search has found what is within n relations, and its
\* frontier has all that may still lead further.
Ball(g, center, n, s) ==
    /\ s.included = Within(g, center, n)
    /\ s.frontier \subseteq s.included
    /\ \A p \in s.included \ s.frontier : \A m : Linked(g, p, m) => m \in s.included

\* A round of the search goes a relation further.
LEMMA ExpandGrowsBall ==
    ASSUME NEW g, NEW center, NEW n \in Nat, NEW s, Ball(g, center, n, s)
    PROVE  Ball(g, center, n + 1, Expand(g, s))
<1> DEFINE next == ({r.to : r \in {q \in Range(g.relations) : q.from \in s.frontier}}
                    \cup {r.from : r \in {q \in Range(g.relations) : q.to \in s.frontier}})
                   \ s.included
<1>1. Expand(g, s).included = s.included \cup next /\ Expand(g, s).frontier = next
  BY DEF Expand
<1>2. \A m : m \in next <=> m \notin s.included /\ \E p \in s.frontier : Linked(g, p, m)
  <2> TAKE m
  <2>1. \A p : Linked(g, p, m) <=> \E r \in Range(g.relations) :
                 (r.from = p /\ r.to = m) \/ (r.to = p /\ r.from = m)
    <3> TAKE p
    <3>1. \A i \in DOMAIN g.relations :
             {<<p, m>>, <<m, p>>} \cap {<<g.relations[i].from, g.relations[i].to>>} # {}
             <=> \/ g.relations[i].from = p /\ g.relations[i].to = m
                 \/ g.relations[i].to = p /\ g.relations[i].from = m
      <4> TAKE i \in DOMAIN g.relations
      <4> DEFINE r == g.relations[i]
      <4>1. <<r.from, r.to>> \in {<<p, m>>, <<m, p>>}
            <=> (r.from = p /\ r.to = m) \/ (r.to = p /\ r.from = m)
        OBVIOUS
      <4> HIDE DEF r
      <4>2. {<<p, m>>, <<m, p>>} \cap {<<r.from, r.to>>} # {}
            <=> <<r.from, r.to>> \in {<<p, m>>, <<m, p>>}
        OBVIOUS
      <4>3. {<<p, m>>, <<m, p>>} \cap {<<r.from, r.to>>} # {}
            <=> (r.from = p /\ r.to = m) \/ (r.to = p /\ r.from = m)
        BY <4>1, <4>2
      <4> QED BY <4>3 DEF r
    <3> QED BY <3>1 DEF Linked, Range
  <2> QED BY <2>1
<1> HIDE DEF next
<1>3. \A m : m \in s.included \cup next <=> m \in Within(g, center, n + 1)
  BY <1>2, WithinFurther DEF Ball
<1>4. \A p \in s.included : \A m : Linked(g, p, m) => m \in s.included \cup next
  BY <1>2 DEF Ball
<1> QED BY <1>1, <1>3, <1>4 DEF Ball

\* The search finds what is within its depth.
LEMMA SearchFindsBall ==
    ASSUME NEW g \in Graph, NEW center \in Names, NEW depth \in Nat
    PROVE  LoopWithin(g, center, depth) = Within(g, center, depth)
<1>0. PICK f : /\ IsSearch(g, center, depth, f)
               /\ LoopWithin(g, center, depth) = f[depth].included
  BY Searched
<1>1. /\ f[0] = [included |-> {center}, frontier |-> {center}]
      /\ \A n \in 1..depth : f[n] = Expand(g, f[n - 1])
      /\ LoopWithin(g, center, depth) = f[depth].included
  BY <1>0 DEF IsSearch
<1>2. Ball(g, center, 0, f[0])
  BY <1>1, WithinNought DEF Ball
<1> DEFINE K == {n \in 0..depth : ~Ball(g, center, n, f[n])}
<1>3. depth \notin K
  <2> SUFFICES ASSUME depth \in K PROVE FALSE
    OBVIOUS
  <2>1. K \in SUBSET Nat
    OBVIOUS
  <2>2. PICK n \in K : \A m \in K : n <= m
    <3> HIDE DEF K
    <3> QED BY <2>1, LeastNumber
  <2>3. n \in 0..depth /\ ~Ball(g, center, n, f[n]) /\ n # 0
    BY <1>2
  <2>4. /\ n - 1 \in Nat /\ (n - 1) + 1 = n /\ n - 1 \in 0..depth /\ n \in 1..depth
        /\ ~(n <= n - 1)
    BY <2>3
  <2>5. Ball(g, center, n - 1, f[n - 1])
    BY <2>2, <2>4
  <2>6. Ball(g, center, n, Expand(g, f[n - 1]))
    BY <2>4, <2>5, ExpandGrowsBall
  <2> QED BY <2>3, <2>4, <2>6, <1>1
<1>4. Ball(g, center, depth, f[depth])
  <2>1. depth \in 0..depth
    OBVIOUS
  <2> QED BY <2>1, <1>3
<1> QED BY <1>1, <1>4 DEF Ball

\* In every reachable graph the breadth-first search of graph_data, which goes
\* on from the last round's names only, finds every name within the depth asked
\* for and no other.
THEOREM SearchIsNeighbourhood == Spec => []NeighbourhoodIsBall
<1>1. TypeOK => NeighbourhoodIsBall
  <2> SUFFICES ASSUME graph \in Graph, NEW e \in Range(graph.entities), NEW raw \in Depths
               PROVE  LoopWithin(graph, e.name, Depth(raw)) = Within(graph, e.name, Depth(raw))
    BY DEF TypeOK, NeighbourhoodIsBall
  <2>1. e.name \in Names
    <3>1. graph.entities \in Seq(Entity)
      BY DEF Graph
    <3>2. e \in Entity
      BY <3>1, Rows DEF Range
    <3> QED BY <3>2 DEF Entity
  <2>2. Depth(raw) \in Nat
    BY DepthPositive
  <2> QED BY <2>1, <2>2, SearchFindsBall
<1> QED BY <1>1, GraphTyped, PTL

-----------------------------------------------------------------------------
(* Loops over a sequence                                                   *)

\* Keeping one row more, behind those that are kept, appends it.
LEMMA RetainMore ==
    ASSUME NEW S, NEW s \in Seq(S), NEW n \in DOMAIN s, NEW K \in SUBSET (1..(n - 1))
    PROVE  Retain(s, K \cup {n}) = Append(Retain(s, K), s[n])
<1> DEFINE M == K \cup {n}
           c == Cardinality(K)
<1>1. Len(s) \in Nat /\ DOMAIN s = 1..Len(s) /\ n \in 1..Len(s)
  BY Rows
<1>2. K \in SUBSET (1..Len(s)) /\ M \in SUBSET (1..Len(s)) /\ \A i \in K : i \in Int /\ i < n
  <2>1. \A i \in K : i \in Int /\ i < n /\ i \in 1..Len(s)
    BY <1>1
  <2>2. \A i \in M : i \in 1..Len(s)
    BY <1>1, <2>1
  <2> HIDE DEF M
  <2> QED BY <2>1, <2>2
<1>3. IsFiniteSet(K) /\ c \in Nat /\ IsFiniteSet(M) /\ Cardinality(M) = c + 1
  <2>1. IsFiniteSet(K) /\ c \in Nat
    BY <1>1, <1>2, Ranks
  <2>2. n \notin K
    BY <1>1, <1>2
  <2> QED BY <2>1, <2>2, FS_AddElement
<1> HIDE DEF c
<1>4. \A i \in K : UpTo(M, i) = UpTo(K, i)
  BY <1>1, <1>2 DEF UpTo
<1>5. UpTo(M, n) = M
  BY <1>1, <1>2 DEF UpTo
<1>6. ASSUME NEW m \in 1..c PROVE Nth(M, m) = Nth(K, m) /\ Nth(K, m) \in K
  <2>1. Nth(K, m) \in K /\ Cardinality(UpTo(K, Nth(K, m))) = m
    BY <1>1, <1>2, NthOf DEF c
  <2>2. m \in 1..Cardinality(M)
    BY <1>3
  <2>3. Nth(M, m) \in M /\ Cardinality(UpTo(M, Nth(M, m))) = m
    BY <1>1, <1>2, <2>2, NthOf
  <2>4. Nth(K, m) \in M /\ Cardinality(UpTo(M, Nth(K, m))) = m
    BY <1>4, <2>1
  <2>5. \A i, j \in M : Cardinality(UpTo(M, i)) = Cardinality(UpTo(M, j)) => i = j
    BY <1>1, <1>2, Ranks
  <2> HIDE DEF M
  <2> QED BY <2>1, <2>3, <2>4, <2>5
<1>7. Nth(M, c + 1) = n
  <2>1. c + 1 \in 1..Cardinality(M)
    BY <1>3
  <2>2. Nth(M, c + 1) \in M /\ Cardinality(UpTo(M, Nth(M, c + 1))) = c + 1
    BY <1>1, <1>2, <2>1, NthOf
  <2>3. n \in M /\ Cardinality(UpTo(M, n)) = c + 1
    BY <1>3, <1>5
  <2>4. \A i, j \in M : Cardinality(UpTo(M, i)) = Cardinality(UpTo(M, j)) => i = j
    BY <1>1, <1>2, Ranks
  <2> HIDE DEF M
  <2> QED BY <2>2, <2>3, <2>4
<1>8. /\ Retain(s, K) \in Seq(S) /\ DOMAIN Retain(s, K) = 1..c
      /\ \A m \in 1..c : Retain(s, K)[m] = s[Nth(K, m)]
  <2>1. K \in SUBSET DOMAIN s
    BY <1>1, <1>2
  <2>2. /\ Retain(s, K) \in Seq(S) /\ DOMAIN Retain(s, K) = 1..Cardinality(K)
        /\ \A m \in DOMAIN Retain(s, K) : Nth(K, m) \in K /\ Retain(s, K)[m] = s[Nth(K, m)]
        /\ \A m, k \in DOMAIN Retain(s, K) : Nth(K, m) = Nth(K, k) => m = k
        /\ \A i \in K : \E m \in DOMAIN Retain(s, K) : Nth(K, m) = i
    BY <2>1, RetainRows
  <2> QED BY <2>2 DEF c
<1>9. Len(Retain(s, K)) = c
  <2> DEFINE t == Retain(s, K)
  <2>1. Len(t) \in Nat /\ DOMAIN t = 1..Len(t)
    BY <1>8, Rows
  <2>2. DOMAIN t = 1..c
    BY <1>8
  <2> HIDE DEF t
  <2>3. ~(Len(t) < c)
    <3> SUFFICES ASSUME Len(t) < c PROVE FALSE
      OBVIOUS
    <3>1. c \in 1..c /\ c \notin 1..Len(t)
      BY <1>3, <2>1
    <3> QED BY <3>1, <2>1, <2>2
  <2>4. ~(c < Len(t))
    <3> SUFFICES ASSUME c < Len(t) PROVE FALSE
      OBVIOUS
    <3>1. Len(t) \in 1..Len(t) /\ Len(t) \notin 1..c
      BY <1>3, <2>1
    <3> QED BY <3>1, <2>1, <2>2
  <2>5. \A a, b \in Nat : ~(a < b) /\ ~(b < a) => a = b
    OBVIOUS
  <2>6. Len(t) = c
    BY <1>3, <2>1, <2>3, <2>4, <2>5, Zenon
  <2> QED BY <2>6 DEF t
<1> DEFINE t == Retain(s, K)
           u == Append(t, s[n])
<1>10. s[n] \in S
  BY Rows
<1>11. /\ u \in Seq(S) /\ Len(u) = c + 1
       /\ \A m \in 1..c : u[m] = t[m]
       /\ u[c + 1] = s[n]
  <2> HIDE DEF t
  <2> QED BY <1>8, <1>9, <1>10, AppendProperties DEF t
<1>12. DOMAIN u = 1..(c + 1)
  BY <1>11, Rows
<1> HIDE DEF u, t, M
<1>13. \A m \in 1..(c + 1) : s[Nth(M, m)] = u[m]
  <2> TAKE m \in 1..(c + 1)
  <2>1. m \in 1..c \/ m = c + 1
    BY <1>3
  <2>2. CASE m \in 1..c
    BY <2>2, <1>6, <1>8, <1>11 DEF t
  <2>3. CASE m = c + 1
    BY <2>3, <1>7, <1>11
  <2> QED BY <2>1, <2>2, <2>3
<1>14. Retain(s, M) = [m \in 1..(c + 1) |-> s[Nth(M, m)]]
  BY <1>3 DEF Retain
<1>15. Retain(s, M) = u
  <2>1. u = [m \in 1..(c + 1) |-> u[m]]
    BY <1>11, <1>12
  <2> QED BY <1>13, <1>14, <2>1
<1> QED BY <1>15 DEF u, t, M

-----------------------------------------------------------------------------
(* Deduping                                                                *)

\* A row with the older date; a row without a date is younger than any.
Older(r, q) == r.created # None /\ (q.created = None \/ r.created < q.created)

\* Of the first n rows, row j is the oldest with its key, and the first such.
Best(rs, n, j) ==
    /\ j \in 1..n
    /\ \A i \in 1..n : Key(rs[i]) = Key(rs[j]) =>
          ~Older(rs[i], rs[j]) /\ (i < j => Older(rs[j], rs[i]))

\* The dates are comparable.
LEMMA OlderThan ==
    ASSUME NEW r \in Relation, NEW q \in Relation, NEW v \in Relation
    PROVE  /\ ~Older(r, r)
           /\ Older(r, q) => ~Older(q, r)
           /\ Older(r, q) /\ Older(q, v) => Older(r, v)
           /\ Older(r, q) /\ ~Older(v, q) => Older(r, v)
<1>1. \A x \in {r, q, v} : x.created = None \/ x.created \in Int
  BY TypesAssumption DEF Relation, Stamps
<1> QED BY <1>1 DEF Older

\* The first row of a key is the best so far.
LEMMA BestFirst ==
    ASSUME NEW rs \in Seq(Relation), NEW n \in DOMAIN rs,
           \A j \in 1..(n - 1) : Key(rs[j]) # Key(rs[n])
    PROVE  Best(rs, n, n)
<1>1. n \in 1..n /\ \A i \in 1..n : i = n \/ i \in 1..(n - 1)
  BY Rows
<1>2. ~Older(rs[n], rs[n]) /\ ~(n < n)
  BY Rows, OlderThan
<1> QED BY <1>1, <1>2 DEF Best

\* A further row is the best of its key if it is older than the best so far.
LEMMA BestNext ==
    ASSUME NEW rs \in Seq(Relation), NEW n \in DOMAIN rs, NEW j, Best(rs, n - 1, j)
    PROVE  Best(rs, n, IF Key(rs[n]) = Key(rs[j]) /\ Older(rs[n], rs[j]) THEN n ELSE j)
<1>1. /\ n \in Nat /\ n \in 1..n /\ \A i \in 1..n : i \in Nat /\ (i = n \/ (i \in 1..(n - 1) /\ i < n))
      /\ \A i \in 1..n : i \in DOMAIN rs
  BY Rows
<1>2. /\ j \in 1..(n - 1) /\ j \in 1..n /\ j < n /\ ~(n < j)
      /\ \A i \in 1..(n - 1) : Key(rs[i]) = Key(rs[j]) =>
          ~Older(rs[i], rs[j]) /\ (i < j => Older(rs[j], rs[i]))
  BY <1>1 DEF Best
<1>3. \A i \in 1..n : rs[i] \in Relation
  BY <1>1, Rows
<1>4. CASE Key(rs[n]) = Key(rs[j]) /\ Older(rs[n], rs[j])
  <2>1. ASSUME NEW i \in 1..n, Key(rs[i]) = Key(rs[n])
        PROVE  ~Older(rs[i], rs[n]) /\ (i < n => Older(rs[n], rs[i]))
    <3>1. CASE i = n
      BY <1>1, <1>3, <3>1, OlderThan
    <3>2. CASE i # n
      <4>1. ~Older(rs[i], rs[j])
        BY <1>1, <1>2, <1>4, <2>1, <3>2
      <4>2. Older(rs[n], rs[i])
        BY <4>1, <1>1, <1>2, <1>3, <1>4, OlderThan
      <4> QED BY <4>2, <1>1, <1>3, OlderThan
    <3> QED BY <3>1, <3>2
  <2> QED BY <1>1, <1>4, <2>1 DEF Best
<1>5. CASE ~(Key(rs[n]) = Key(rs[j]) /\ Older(rs[n], rs[j]))
  <2>1. ASSUME NEW i \in 1..n, Key(rs[i]) = Key(rs[j])
        PROVE  ~Older(rs[i], rs[j]) /\ (i < j => Older(rs[j], rs[i]))
    BY <1>1, <1>2, <1>5, <2>1
  <2> QED BY <1>2, <1>5, <2>1 DEF Best
<1> QED BY <1>4, <1>5

\* Each key has one best row.
LEMMA BestOnly ==
    ASSUME NEW rs \in Seq(Relation), NEW n, NEW i, NEW j,
           Best(rs, n, i), Best(rs, n, j), Key(rs[i]) = Key(rs[j]), n \in Nat
    PROVE  i = j
<1>1. i \in 1..n /\ j \in 1..n /\ i \in Int /\ j \in Int
  BY DEF Best
<1>2. ~(i < j) /\ ~(j < i)
  BY <1>1 DEF Best
<1> QED BY <1>1, <1>2

\* Each key that occurs has a best row.
LEMMA BestIs ==
    ASSUME NEW rs \in Seq(Relation), NEW n \in 0..Len(rs), NEW i \in 1..n
    PROVE  \E j : Best(rs, n, j) /\ Key(rs[j]) = Key(rs[i])
<1> DEFINE Has(k, l) == \E j : Best(rs, k, j) /\ Key(rs[j]) = Key(rs[l])
           K == {k \in 0..n : \E l \in 1..k : ~Has(k, l)}
<1>0. Len(rs) \in Nat /\ DOMAIN rs = 1..Len(rs) /\ n \in Nat
  BY Rows
<1> SUFFICES ASSUME ~Has(n, i) PROVE FALSE
  OBVIOUS
<1>1. K \in SUBSET Nat /\ n \in K
  <2>1. n \in 0..n
    BY <1>0
  <2> HIDE DEF Has
  <2> QED BY <2>1
<1>2. PICK k \in K : \A m \in K : k <= m
  <2> HIDE DEF K
  <2> QED BY <1>1, LeastNumber
<1>3. PICK l \in 1..k : ~Has(k, l)
  <2> HIDE DEF Has
  <2> QED BY <1>2
<1>4. /\ k \in DOMAIN rs /\ k - 1 \in 0..n /\ ~(k <= k - 1) /\ (l = k \/ l \in 1..(k - 1))
      /\ k \in 1..k
  <2>1. k \in 0..n
    BY <1>2
  <2> HIDE DEF Has, K
  <2> QED BY <1>0, <1>3, <2>1
<1>5. \A m \in 1..(k - 1) : Has(k - 1, m)
  <2> HIDE DEF Has
  <2> QED BY <1>2, <1>4
<1>6. ASSUME NEW m \in 1..(k - 1) PROVE Has(k, m)
  <2>1. PICK j : Best(rs, k - 1, j) /\ Key(rs[j]) = Key(rs[m])
    BY <1>5
  <2> DEFINE b == IF Key(rs[k]) = Key(rs[j]) /\ Older(rs[k], rs[j]) THEN k ELSE j
  <2>2. Best(rs, k, b)
    BY <1>4, <2>1, BestNext
  <2>3. Key(rs[b]) = Key(rs[m])
    BY <2>1
  <2> HIDE DEF b
  <2> QED BY <2>2, <2>3
<1>7. Has(k, k)
  <2>1. CASE \E m \in 1..(k - 1) : Key(rs[m]) = Key(rs[k])
    BY <2>1, <1>6
  <2>2. CASE \A m \in 1..(k - 1) : Key(rs[m]) # Key(rs[k])
    BY <2>2, <1>4, BestFirst
  <2> QED BY <2>1, <2>2
<1> HIDE DEF Has
<1> QED BY <1>3, <1>4, <1>6, <1>7

\* The keys of the first n rows, the places where they come first, and the row
\* that is kept for a key.
SeenKeys(rs, n) == {Key(rs[j]) : j \in 1..n}
Heads(rs, n) == {i \in 1..n : \A j \in 1..(i - 1) : Key(rs[j]) # Key(rs[i])}
Kept(rs, n, key) == rs[CHOOSE j : Best(rs, n, j) /\ Key(rs[j]) = key]
KeyRow(rs) == [j \in DOMAIN rs |-> Key(rs[j])]

\* Where the loop is after n rows.
Deduping(rs, n) ==
    [seen |-> [key \in SeenKeys(rs, n) |-> Kept(rs, n, key)],
     order |-> Retain(KeyRow(rs), Heads(rs, n))]

\* The row that is kept is the best.
LEMMA KeptIsBest ==
    ASSUME NEW rs \in Seq(Relation), NEW n \in Nat, NEW j, Best(rs, n, j)
    PROVE  Kept(rs, n, Key(rs[j])) = rs[j]
<1> DEFINE i == CHOOSE l : Best(rs, n, l) /\ Key(rs[l]) = Key(rs[j])
<1>1. Best(rs, n, i) /\ Key(rs[i]) = Key(rs[j])
  OBVIOUS
<1>2. i = j
  <2> HIDE DEF i
  <2> QED BY <1>1, BestOnly
<1> QED BY <1>2 DEF Kept

\* Keys are a sequence as the rows are.
LEMMA KeysInRow ==
    ASSUME NEW rs \in Seq(Relation)
    PROVE  /\ KeyRow(rs) \in Seq({Key(r) : r \in Relation})
           /\ DOMAIN KeyRow(rs) = DOMAIN rs
           /\ \A j \in DOMAIN rs : KeyRow(rs)[j] = Key(rs[j])
<1> DEFINE f == KeyRow(rs)
<1>1. \A j \in DOMAIN rs : rs[j] \in Relation
  BY Rows
<1>2. f \in [DOMAIN rs -> {Key(r) : r \in Relation}] /\ \A j \in DOMAIN rs : f[j] = Key(rs[j])
  BY <1>1 DEF KeyRow
<1> HIDE DEF f
<1>3. f \in Seq({Key(r) : r \in Relation}) /\ DOMAIN f = DOMAIN rs
  BY <1>2, Rewritten
<1> QED BY <1>2, <1>3 DEF f

\* The loop begins with nothing.
LEMMA DedupingStarts ==
    ASSUME NEW rs \in Seq(Relation)
    PROVE  Deduping(rs, 0) = [seen |-> << >>, order |-> << >>]
<1>1. SeenKeys(rs, 0) = {} /\ Heads(rs, 0) = {}
  BY DEF SeenKeys, Heads
<1>2. [key \in {} |-> Kept(rs, 0, key)] = << >>
  OBVIOUS
<1>3. Retain(KeyRow(rs), {}) = << >>
  BY FS_EmptySet DEF Retain
<1> QED BY <1>1, <1>2, <1>3 DEF Deduping

\* Each round does with its row what the code does.
LEMMA DedupingGoesOn ==
    ASSUME NEW rs \in Seq(Relation), NEW n \in DOMAIN rs
    PROVE  DedupeRow(Deduping(rs, n - 1), rs[n]) = Deduping(rs, n)
<1> DEFINE key == Key(rs[n])
           d == Deduping(rs, n - 1)
           first == key \notin SeenKeys(rs, n - 1)
           kept == Kept(rs, n - 1, key)
           wins == first \/ (rs[n].created # None
                             /\ (kept.created = None \/ rs[n].created < kept.created))
<1>1. /\ n \in Nat /\ n \in 1..n /\ n \in 0..Len(rs) /\ n - 1 \in 0..Len(rs) /\ n - 1 \in Nat
      /\ \A i \in 1..n : i = n \/ i \in 1..(n - 1)
      /\ \A i \in 1..(n - 1) : i \in 1..n /\ i # n
      /\ \A i \in 1..n : i \in DOMAIN rs
  BY Rows
<1>2. SeenKeys(rs, n) = SeenKeys(rs, n - 1) \cup {key}
  BY <1>1 DEF SeenKeys
<1>3. first <=> \A j \in 1..(n - 1) : Key(rs[j]) # Key(rs[n])
  BY DEF SeenKeys
<1>4. Heads(rs, n) = IF first THEN Heads(rs, n - 1) \cup {n} ELSE Heads(rs, n - 1)
  BY <1>1, <1>3 DEF Heads
<1>5. DOMAIN d.seen = SeenKeys(rs, n - 1)
      /\ (\A k \in SeenKeys(rs, n - 1) : d.seen[k] = Kept(rs, n - 1, k))
      /\ d.order = Retain(KeyRow(rs), Heads(rs, n - 1))
  BY DEF Deduping
<1>6. DedupeRow(d, rs[n]) =
         [seen |-> [k \in SeenKeys(rs, n - 1) \cup {key} |->
                      IF k = key /\ wins THEN rs[n] ELSE d.seen[k]],
          order |-> IF first THEN Append(d.order, key) ELSE d.order]
  <2>1. ~first => d.seen[key] = kept
    BY <1>5
  <2> DEFINE old == d.seen[key].created
             wins2 == first \/ (rs[n].created # None /\ (old = None \/ rs[n].created < old))
  <2>2. DedupeRow(d, rs[n]) =
           [seen |-> [k \in SeenKeys(rs, n - 1) \cup {key} |->
                        IF k = key /\ wins2 THEN rs[n] ELSE d.seen[k]],
            order |-> IF first THEN Append(d.order, key) ELSE d.order]
    <3> HIDE DEF d
    <3> QED BY <1>5 DEF DedupeRow
  <2>3. wins2 = wins
    <3> HIDE DEF kept, d, first
    <3> QED BY <2>1
  <2> HIDE DEF wins, wins2
  <2> QED BY <2>2, <2>3
<1>7. ASSUME NEW k \in SeenKeys(rs, n)
      PROVE  Kept(rs, n, k) = IF k = key /\ wins THEN rs[n] ELSE d.seen[k]
  <2>1. CASE first /\ k = key
    <3>1. Best(rs, n, n)
      BY <1>3, <2>1, BestFirst
    <3>2. Kept(rs, n, key) = rs[n]
      BY <1>1, <3>1, KeptIsBest
    <3> QED BY <2>1, <3>2
  <2>2. CASE ~(first /\ k = key)
    <3>1. k \in SeenKeys(rs, n - 1)
      BY <1>2, <2>2
    <3>2. PICK i \in 1..(n - 1) : k = Key(rs[i])
      BY <3>1 DEF SeenKeys
    <3>3. PICK j : Best(rs, n - 1, j) /\ Key(rs[j]) = Key(rs[i])
      BY <1>1, BestIs
    <3>4. Kept(rs, n - 1, k) = rs[j] /\ d.seen[k] = rs[j]
      BY <1>1, <1>5, <3>1, <3>2, <3>3, KeptIsBest
    <3> DEFINE m == IF Key(rs[n]) = Key(rs[j]) /\ Older(rs[n], rs[j]) THEN n ELSE j
    <3>5. Best(rs, n, m)
      BY <3>3, BestNext
    <3>6. Key(rs[m]) = k
      BY <3>2, <3>3
    <3>7. Kept(rs, n, k) = rs[m]
      <4> HIDE DEF m
      <4> QED BY <1>1, <3>5, <3>6, KeptIsBest
    <3>8. k = key => (wins <=> Older(rs[n], rs[j]))
      <4>1. k = key => ~first /\ kept = rs[j]
        BY <2>2, <3>4
      <4> HIDE DEF first, kept
      <4> QED BY <4>1 DEF Older
    <3>9. k = key <=> Key(rs[n]) = Key(rs[j])
      BY <3>2, <3>3
    <3> HIDE DEF wins
    <3> QED BY <3>4, <3>7, <3>8, <3>9
  <2> QED BY <2>1, <2>2
<1>8. Retain(KeyRow(rs), Heads(rs, n)) = IF first THEN Append(d.order, key) ELSE d.order
  <2>1. CASE first
    <3>1. Heads(rs, n - 1) \in SUBSET (1..(n - 1))
      BY DEF Heads
    <3>2. /\ KeyRow(rs) \in Seq({Key(r) : r \in Relation}) /\ n \in DOMAIN KeyRow(rs)
          /\ KeyRow(rs)[n] = key
      BY KeysInRow
    <3>3. Retain(KeyRow(rs), Heads(rs, n - 1) \cup {n})
          = Append(Retain(KeyRow(rs), Heads(rs, n - 1)), KeyRow(rs)[n])
      BY <3>1, <3>2, RetainMore
    <3> HIDE DEF d
    <3> QED BY <1>4, <1>5, <2>1, <3>2, <3>3
  <2>2. CASE ~first
    <3> HIDE DEF d
    <3> QED BY <1>4, <1>5, <2>2
  <2> QED BY <2>1, <2>2
<1> HIDE DEF d, first, kept, wins, key
<1>9. [k \in SeenKeys(rs, n) |-> Kept(rs, n, k)]
      = [k \in SeenKeys(rs, n - 1) \cup {key} |-> IF k = key /\ wins THEN rs[n] ELSE d.seen[k]]
  BY <1>2, <1>7
<1> QED BY <1>6, <1>8, <1>9 DEF Deduping, d

\* The row of the key of row i that deduping keeps.
DatedRows(rs, i) == {j \in DOMAIN rs : Key(rs[j]) = Key(rs[i]) /\ rs[j].created # None}
OldestRows(rs, i) == {j \in DatedRows(rs, i) :
                        \A k \in DatedRows(rs, i) : rs[j].created <= rs[k].created}
SurvivorAt(rs, i) == IF DatedRows(rs, i) = {} THEN i ELSE Min(OldestRows(rs, i))

\* It is the best of all rows with that key, if i is the first of them.
LEMMA SurvivorIsBest ==
    ASSUME NEW rs \in Seq(Relation), NEW i \in DOMAIN rs,
           \A j \in 1..(i - 1) : Key(rs[j]) # Key(rs[i])
    PROVE  Best(rs, Len(rs), SurvivorAt(rs, i)) /\ Key(rs[SurvivorAt(rs, i)]) = Key(rs[i])
<1> DEFINE dated == DatedRows(rs, i)
           oldest == OldestRows(rs, i)
           m == Min(oldest)
<1>1. Len(rs) \in Nat /\ DOMAIN rs = 1..Len(rs) /\ \A j \in DOMAIN rs : rs[j] \in Relation
  BY Rows
<1>2. /\ \A j \in dated : rs[j].created \in Int
      /\ \A j \in 1..Len(rs) : j \in dated <=> (Key(rs[j]) = Key(rs[i]) /\ rs[j].created # None)
      /\ dated \in SUBSET (1..Len(rs))
  BY <1>1, TypesAssumption DEF Relation, Stamps, DatedRows
<1>3. \A j \in DOMAIN rs : Key(rs[j]) = Key(rs[i]) => ~(j < i)
  BY <1>1
<1>4. CASE dated = {}
  <2>1. \A j \in DOMAIN rs : Key(rs[j]) = Key(rs[i]) => rs[j].created = None
    BY <1>1, <1>2, <1>4
  <2>2. ASSUME NEW j \in 1..Len(rs), Key(rs[j]) = Key(rs[i])
        PROVE  ~Older(rs[j], rs[i]) /\ (i > j => Older(rs[i], rs[j]))
    BY <1>1, <1>3, <2>1, <2>2 DEF Older
  <2>3. Best(rs, Len(rs), i)
    BY <1>1, <2>2 DEF Best
  <2> QED BY <1>4, <2>3 DEF SurvivorAt
<1>5. CASE dated # {}
  <2>1. \A j \in dated : j \in oldest <=> \A k \in dated : rs[j].created <= rs[k].created
    BY DEF OldestRows
  <2>2. oldest \in SUBSET dated
    BY DEF OldestRows
  <2> HIDE DEF dated, oldest
  <2> DEFINE f == [j \in dated |-> rs[j].created]
  <2>3. \E j \in dated : \A k \in dated : f[j] <= f[k]
    <3>1. f \in [dated -> Int] /\ IsFiniteSet(dated)
      BY <1>1, <1>2, Ranks
    <3> HIDE DEF f
    <3> QED BY <1>5, <3>1, LeastOne
  <2>4. oldest # {} /\ oldest \in SUBSET (1..Len(rs))
    BY <1>2, <2>1, <2>2, <2>3
  <2>5. m \in oldest /\ \A j \in oldest : m <= j
    BY <1>1, <2>4, FirstPlace
  <2> HIDE DEF m
  <2>6. /\ m \in 1..Len(rs) /\ Key(rs[m]) = Key(rs[i]) /\ rs[m].created # None /\ m \in dated
        /\ \A k \in dated : rs[m].created <= rs[k].created
    BY <1>2, <2>1, <2>2, <2>4, <2>5
  <2>7. ASSUME NEW j \in 1..Len(rs), Key(rs[j]) = Key(rs[m])
        PROVE  ~Older(rs[j], rs[m]) /\ (j < m => Older(rs[m], rs[j]))
    <3>1. CASE rs[j].created = None
      BY <2>6, <3>1 DEF Older
    <3>2. CASE rs[j].created # None
      <4>1. j \in dated
        BY <1>2, <2>6, <2>7, <3>2
      <4>2. rs[j].created \in Int /\ rs[m].created \in Int /\ rs[m].created <= rs[j].created
        BY <1>2, <2>6, <4>1
      <4>3. ASSUME j < m, rs[j].created <= rs[m].created PROVE FALSE
        <5>1. \A k \in dated : rs[j].created <= rs[k].created
          BY <1>2, <2>6, <4>2, <4>3
        <5>2. j \in oldest
          BY <2>1, <4>1, <5>1
        <5> QED BY <2>5, <2>6, <4>3, <5>2
      <4> QED BY <2>6, <3>2, <4>2, <4>3 DEF Older
    <3> QED BY <3>1, <3>2
  <2>8. Best(rs, Len(rs), m)
    BY <2>6, <2>7 DEF Best
  <2>9. SurvivorAt(rs, i) = m
    BY <1>5 DEF SurvivorAt, m, dated, oldest
  <2> QED BY <2>6, <2>8, <2>9
<1> QED BY <1>4, <1>5

\* Deduping leaves what the loop has when it ends.
LEMMA DedupingEnds ==
    ASSUME NEW rs \in Seq(Relation)
    PROVE  Dedupe(rs) = [i \in DOMAIN Deduping(rs, Len(rs)).order |->
                            Deduping(rs, Len(rs)).seen[Deduping(rs, Len(rs)).order[i]]]
<1> DEFINE rows(i) == {j \in DOMAIN rs : Key(rs[j]) = Key(rs[i])}
           survivor == [i \in DOMAIN rs |-> rs[SurvivorAt(rs, i)]]
           n == Len(rs)
           heads == Heads(rs, n)
           d == Deduping(rs, n)
<1>1. Dedupe(rs) = Retain(survivor, {i \in DOMAIN rs : i = Min(rows(i))})
  BY DEF Dedupe, SurvivorAt, DatedRows, OldestRows
<1>2. n \in Nat /\ DOMAIN rs = 1..n /\ \A j \in DOMAIN rs : rs[j] \in Relation /\ j \in Int
  BY Rows
<1>3. ASSUME NEW i \in DOMAIN rs
      PROVE  i = Min(rows(i)) <=> \A j \in 1..(i - 1) : Key(rs[j]) # Key(rs[i])
  <2> DEFINE m == Min(rows(i))
  <2>1. /\ rows(i) \in SUBSET (1..n) /\ i \in rows(i)
        /\ \A j \in 1..n : j \in rows(i) <=> Key(rs[j]) = Key(rs[i])
    BY <1>2
  <2> HIDE DEF rows
  <2>2. m \in rows(i) /\ \A j \in rows(i) : m <= j
    BY <1>2, <2>1, FirstPlace
  <2> HIDE DEF m
  <2>3. m \in 1..n /\ m <= i /\ Key(rs[m]) = Key(rs[i])
    BY <2>1, <2>2
  <2>4. ASSUME i = m, NEW j \in 1..(i - 1), Key(rs[j]) = Key(rs[i]) PROVE FALSE
    <3>1. j \in 1..n /\ j < i
      BY <1>2
    <3> QED BY <1>2, <2>1, <2>2, <2>3, <2>4, <3>1
  <2>5. ASSUME \A j \in 1..(i - 1) : Key(rs[j]) # Key(rs[i]) PROVE i = m
    <3>1. m \notin 1..(i - 1)
      BY <2>3, <2>5
    <3> QED BY <1>2, <2>3, <3>1
  <2> QED BY <2>4, <2>5 DEF m
<1>4. {i \in DOMAIN rs : i = Min(rows(i))} = heads
  <2> HIDE DEF rows
  <2> QED BY <1>2, <1>3 DEF Heads
<1>5. heads \in SUBSET (1..n)
  BY DEF Heads
<1>6. ASSUME NEW i \in heads
      PROVE  survivor[i] = Kept(rs, n, Key(rs[i])) /\ Key(rs[i]) \in SeenKeys(rs, n)
  <2>1. i \in 1..n /\ \A j \in 1..(i - 1) : Key(rs[j]) # Key(rs[i])
    BY DEF Heads
  <2>2. Best(rs, n, SurvivorAt(rs, i)) /\ Key(rs[SurvivorAt(rs, i)]) = Key(rs[i])
    BY <1>2, <2>1, SurvivorIsBest
  <2>3. Kept(rs, n, Key(rs[SurvivorAt(rs, i)])) = rs[SurvivorAt(rs, i)]
    BY <1>2, <2>2, KeptIsBest
  <2> QED BY <1>2, <2>1, <2>2, <2>3 DEF SeenKeys
<1> HIDE DEF heads, survivor
<1> DEFINE N == 1..Cardinality(heads)
<1>7. \A m \in N : Nth(heads, m) \in heads
  BY <1>2, <1>5, NthOf
<1>8. Dedupe(rs) = [m \in N |-> survivor[Nth(heads, m)]]
  BY <1>1, <1>4 DEF Retain
<1>9. d.order = [m \in N |-> Key(rs[Nth(heads, m)])]
  <2>1. d.order = [m \in N |-> KeyRow(rs)[Nth(heads, m)]]
    BY DEF Deduping, Retain, heads
  <2>2. \A m \in N : KeyRow(rs)[Nth(heads, m)] = Key(rs[Nth(heads, m)])
    BY <1>2, <1>5, <1>7, KeysInRow
  <2> HIDE DEF d, N
  <2> QED BY <2>1, <2>2
<1>10. \A key \in SeenKeys(rs, n) : d.seen[key] = Kept(rs, n, key)
  BY DEF Deduping
<1> HIDE DEF d, N
<1>11. DOMAIN d.order = N
  BY <1>9
<1>12. \A m \in N : d.seen[d.order[m]] = survivor[Nth(heads, m)]
  BY <1>6, <1>7, <1>9, <1>10
<1> QED BY <1>8, <1>11, <1>12 DEF d

\* The loop of the dedupe keeps the rows, and the order, of Dedupe.
LEMMA LoopDedupeIs ==
    ASSUME NEW rs \in Seq(Relation)
    PROVE  LoopDedupe(rs) = Dedupe(rs)
<1> DEFINE Rounds(f) == f = [n \in 0..Len(rs) |->
                               IF n = 0 THEN [seen |-> << >>, order |-> << >>]
                               ELSE DedupeRow(f[n - 1], rs[n])]
           f == CHOOSE h : Rounds(h)
           e == [n \in 0..Len(rs) |-> Deduping(rs, n)]
<1>1. Len(rs) \in Nat /\ DOMAIN rs = 1..Len(rs)
  BY Rows
<1>2. LoopDedupe(rs) = [i \in DOMAIN f[Len(rs)].order |->
                            f[Len(rs)].seen[f[Len(rs)].order[i]]]
  BY DEF LoopDedupe
<1>3. \A n \in 0..Len(rs) : e[n] = IF n = 0 THEN [seen |-> << >>, order |-> << >>]
                                   ELSE DedupeRow(e[n - 1], rs[n])
  <2> TAKE n \in 0..Len(rs)
  <2>1. CASE n = 0
    BY <2>1, DedupingStarts
  <2>2. CASE n # 0
    <3>1. n \in DOMAIN rs /\ n - 1 \in 0..Len(rs)
      BY <1>1, <2>2
    <3>2. DedupeRow(Deduping(rs, n - 1), rs[n]) = Deduping(rs, n)
      BY <3>1, DedupingGoesOn
    <3> QED BY <2>2, <3>1, <3>2
  <2> QED BY <2>1, <2>2
<1>4. Rounds(e)
  <2>1. e = [n \in 0..Len(rs) |-> e[n]]
    OBVIOUS
  <2> HIDE DEF e
  <2> QED BY <1>3, <2>1
<1>5. Rounds(f)
  <2> HIDE DEF Rounds, e
  <2> QED BY <1>4
<1>6. \A h : Rounds(h) => \A n \in 0..Len(rs) : h[n] = IF n = 0 THEN [seen |-> << >>, order |-> << >>]
                                   ELSE DedupeRow(h[n - 1], rs[n])
  OBVIOUS
<1>7. /\ f[0] = e[0]
      /\ \A n \in 1..Len(rs) : f[n - 1] = e[n - 1] => f[n] = e[n]
  <2> HIDE DEF f, e, Rounds
  <2> QED BY <1>1, <1>4, <1>5, <1>6
<1>8. f[Len(rs)] = e[Len(rs)]
  <2> HIDE DEF f, e
  <2> QED BY <1>1, <1>7, SameRounds
<1>9. f[Len(rs)] = Deduping(rs, Len(rs))
  <2> HIDE DEF f
  <2> QED BY <1>1, <1>8
<1> HIDE DEF f, e
<1> QED BY <1>2, <1>9, DedupingEnds

\* In every graph that is reached, the dedupe of a merge is its loop: the row
\* that is kept of each key, and the order of the keys, are those that the one
\* pass of the code arrives at.
THEOREM DedupeIsItsLoop == Spec => []DedupeMatchesLoop
<1>1. TypeOK => DedupeMatchesLoop
  <2> SUFFICES ASSUME graph \in Graph PROVE DedupeMatchesLoop
    BY DEF TypeOK
  <2>1. graph.relations \in Seq(Relation)
    BY DEF Graph
  <2> QED BY <2>1, LoopDedupeIs DEF DedupeMatchesLoop
<1> QED BY <1>1, GraphTyped, PTL

-----------------------------------------------------------------------------
(* Validating observations                                                 *)

\* What the first n inputs ask for can be done.
OKUpTo(g, b, n) ==
    /\ \A i \in 1..n : HasEntity(g, b[i].entity)
    /\ \A i \in Supersedes(g, b) : i <= n =>
          LET e == EntityOf(g, b[i].entity)
          IN /\ b[i].supersedes \in Texts(e)
             /\ IsActive(FactOf(e, b[i].supersedes))
    /\ \A i, j \in Supersedes(g, b) :
          i <= n /\ j <= n /\ b[i].entity = b[j].entity /\ b[i].supersedes = b[j].supersedes
          => i = j

\* The facts that the first n inputs are to close, until one is refused.
Targets(g, b, n) ==
    {<<b[i].entity, b[i].supersedes>> :
        i \in {j \in Supersedes(g, b) : j <= n /\ OKUpTo(g, b, j)}}

\* Where the validating loop is after n inputs.
Validating(g, b, n) == [ok |-> OKUpTo(g, b, n), pending |-> Targets(g, b, n)]

\* What can be done with more inputs can be done with fewer.
LEMMA FewerAreOK ==
    ASSUME NEW g, NEW b, NEW n \in Nat, NEW m \in Nat, m <= n, OKUpTo(g, b, n),
           Supersedes(g, b) \subseteq Nat
    PROVE  OKUpTo(g, b, m)
<1>1. \A i \in Supersedes(g, b) : i <= m => i <= n
  OBVIOUS
<1>2. \A i \in 1..m : i \in 1..n
  OBVIOUS
<1> QED BY <1>1, <1>2 DEF OKUpTo

\* One input more.
LEMMA OKFurther ==
    ASSUME NEW g, NEW b \in Seq(FactInput), NEW n \in DOMAIN b
    PROVE  OKUpTo(g, b, n) <=>
              /\ OKUpTo(g, b, n - 1) /\ HasEntity(g, b[n].entity)
              /\ n \in Supersedes(g, b) =>
                    /\ b[n].supersedes \in Texts(EntityOf(g, b[n].entity))
                    /\ IsActive(FactOf(EntityOf(g, b[n].entity), b[n].supersedes))
                    /\ \A j \in Supersedes(g, b) : j <= n - 1 =>
                          ~(b[j].entity = b[n].entity /\ b[j].supersedes = b[n].supersedes)
<1> DEFINE X == Supersedes(g, b)
           Fits(i) == /\ b[i].supersedes \in Texts(EntityOf(g, b[i].entity))
                      /\ IsActive(FactOf(EntityOf(g, b[i].entity), b[i].supersedes))
           Same(i, j) == b[i].entity = b[j].entity /\ b[i].supersedes = b[j].supersedes
           Has(i) == HasEntity(g, b[i].entity)
<1>1. /\ n \in Nat /\ n \in 1..n /\ \A i \in 1..n : i = n \/ i \in 1..(n - 1)
      /\ \A i \in 1..(n - 1) : i \in 1..n
      /\ \A i \in X : i \in Nat /\ (i <= n <=> (i = n \/ i <= n - 1))
      /\ ~(n <= n - 1)
  <2>1. DOMAIN b = 1..Len(b) /\ Len(b) \in Nat
    BY Rows
  <2>2. X \subseteq DOMAIN b
    BY DEF Supersedes
  <2> HIDE DEF X
  <2> QED BY <2>1, <2>2
<1>2. \A m : OKUpTo(g, b, m) <=>
         /\ \A i \in 1..m : Has(i)
         /\ \A i \in X : i <= m => Fits(i)
         /\ \A i, j \in X : i <= m /\ j <= m /\ Same(i, j) => i = j
  BY DEF OKUpTo
<1>3. \A i, j : Same(i, j) => Same(j, i)
  OBVIOUS
<1>4. \A j : Same(j, n) <=> (b[j].entity = b[n].entity /\ b[j].supersedes = b[n].supersedes)
  OBVIOUS
<1> HIDE DEF X, Same, Has
<1>5. (\A i \in 1..n : Has(i)) <=> (\A i \in 1..(n - 1) : Has(i)) /\ Has(n)
  BY <1>1
<1>6. (\A i \in X : i <= n => Fits(i))
      <=> (\A i \in X : i <= n - 1 => Fits(i)) /\ (n \in X => Fits(n))
  <2> HIDE DEF Fits
  <2> QED BY <1>1
<1>7. (\A i, j \in X : i <= n /\ j <= n /\ Same(i, j) => i = j)
      <=> /\ \A i, j \in X : i <= n - 1 /\ j <= n - 1 /\ Same(i, j) => i = j
          /\ n \in X => \A j \in X : j <= n - 1 => ~Same(j, n)
  BY <1>1, <1>3
<1>8. OKUpTo(g, b, n) <=>
         /\ OKUpTo(g, b, n - 1) /\ Has(n)
         /\ n \in X => Fits(n) /\ \A j \in X : j <= n - 1 => ~Same(j, n)
  <2> HIDE DEF Fits
  <2> QED BY <1>2, <1>5, <1>6, <1>7
<1> QED BY <1>4, <1>8 DEF X, Has

\* A further input adds its target, if it is to close one and is not refused.
LEMMA TargetsFurther ==
    ASSUME NEW g, NEW b \in Seq(FactInput), NEW n \in DOMAIN b
    PROVE  Targets(g, b, n) = IF n \in Supersedes(g, b) /\ OKUpTo(g, b, n)
                              THEN Targets(g, b, n - 1) \cup {<<b[n].entity, b[n].supersedes>>}
                              ELSE Targets(g, b, n - 1)
<1> DEFINE X == Supersedes(g, b)
           J(m) == {j \in X : j <= m /\ OKUpTo(g, b, j)}
           T(j) == <<b[j].entity, b[j].supersedes>>
<1>1. /\ \A i \in X : i \in Nat /\ (i <= n <=> (i = n \/ i <= n - 1))
      /\ n \in Nat /\ n <= n
  <2>1. DOMAIN b = 1..Len(b) /\ Len(b) \in Nat
    BY Rows
  <2>2. X \subseteq DOMAIN b
    BY DEF Supersedes
  <2> HIDE DEF X
  <2> QED BY <2>1, <2>2
<1> HIDE DEF X
<1>2. J(n) = IF n \in X /\ OKUpTo(g, b, n) THEN J(n - 1) \cup {n} ELSE J(n - 1)
  BY <1>1
<1>3. \A m : Targets(g, b, m) = {T(j) : j \in J(m)}
  BY DEF Targets, X
<1> HIDE DEF J
<1>4. {T(j) : j \in J(n - 1) \cup {n}} = {T(j) : j \in J(n - 1)} \cup {T(n)}
  OBVIOUS
<1> HIDE DEF T
<1>5. Targets(g, b, n) = {T(j) : j \in J(n)} /\ Targets(g, b, n - 1) = {T(j) : j \in J(n - 1)}
  BY <1>3
<1>6. CASE n \in X /\ OKUpTo(g, b, n)
  BY <1>2, <1>4, <1>5, <1>6 DEF X, T
<1>7. CASE ~(n \in X /\ OKUpTo(g, b, n))
  BY <1>2, <1>5, <1>7 DEF X
<1> QED BY <1>6, <1>7

\* Each round of the validation does with its input what the code does.
LEMMA ValidatingGoesOn ==
    ASSUME NEW g, NEW b \in Seq(FactInput), NEW n \in DOMAIN b
    PROVE  ValidateInput(g, Validating(g, b, n - 1), b[n]) = Validating(g, b, n)
<1> DEFINE v == Validating(g, b, n - 1)
           e == EntityOf(g, b[n].entity)
           target == <<b[n].entity, b[n].supersedes>>
           fits == b[n].supersedes \in Texts(e) /\ IsActive(FactOf(e, b[n].supersedes))
           clash == \E j \in Supersedes(g, b) :
                       j <= n - 1 /\ b[j].entity = b[n].entity /\ b[j].supersedes = b[n].supersedes
           closes == n \in Supersedes(g, b)
<1>1. closes <=> b[n].supersedes # None /\ b[n].text \notin Texts(e)
  BY DEF Supersedes
<1>2. OKUpTo(g, b, n) <=> /\ OKUpTo(g, b, n - 1) /\ HasEntity(g, b[n].entity)
                          /\ closes => fits /\ ~clash
  BY OKFurther
<1>3. Targets(g, b, n) = IF closes /\ OKUpTo(g, b, n) THEN Targets(g, b, n - 1) \cup {target}
                         ELSE Targets(g, b, n - 1)
  BY TargetsFurther
<1>4. OKUpTo(g, b, n - 1) => (target \in Targets(g, b, n - 1) <=> clash)
  <2> SUFFICES ASSUME OKUpTo(g, b, n - 1) PROVE target \in Targets(g, b, n - 1) <=> clash
    OBVIOUS
  <2>1. Supersedes(g, b) \subseteq Nat /\ n - 1 \in Nat
    BY Rows DEF Supersedes
  <2>2. \A j \in Supersedes(g, b) : j <= n - 1 => OKUpTo(g, b, j)
    BY <2>1, FewerAreOK
  <2> QED BY <2>2 DEF Targets
<1>5. v.ok = OKUpTo(g, b, n - 1) /\ v.pending = Targets(g, b, n - 1)
      /\ v = [ok |-> v.ok, pending |-> v.pending]
  BY DEF Validating
<1> HIDE DEF v, fits, clash, closes, target
<1>6. ValidateInput(g, v, b[n]) =
         IF ~v.ok THEN v
         ELSE IF ~HasEntity(g, b[n].entity) THEN [v EXCEPT !.ok = FALSE]
         ELSE IF ~closes THEN v
         ELSE IF ~fits \/ target \in v.pending THEN [v EXCEPT !.ok = FALSE]
         ELSE [v EXCEPT !.pending = @ \cup {target}]
  BY <1>1 DEF ValidateInput, fits, target
<1>7. [v EXCEPT !.ok = FALSE] = [ok |-> FALSE, pending |-> v.pending]
      /\ [v EXCEPT !.pending = @ \cup {target}] = [ok |-> v.ok, pending |-> v.pending \cup {target}]
  <2> DEFINE a == OKUpTo(g, b, n - 1)
             p == Targets(g, b, n - 1)
             q == v.pending \cup {target}
  <2>1. v = [ok |-> a, pending |-> p]
    BY DEF Validating, v
  <2> HIDE DEF a, p, q
  <2>2. v.ok = a /\ v.pending = p
    BY <2>1
  <2>3. [[ok |-> a, pending |-> p] EXCEPT !.ok = FALSE] = [ok |-> FALSE, pending |-> p]
    <3>1. \A x : [[ok |-> a, pending |-> p] EXCEPT !.ok = x] = [ok |-> x, pending |-> p]
      OBVIOUS
    <3> QED BY <3>1, Zenon
  <2>4. [[ok |-> a, pending |-> p] EXCEPT !.pending = q] = [ok |-> a, pending |-> q]
    OBVIOUS
  <2>5. [v EXCEPT !.ok = FALSE] = [ok |-> FALSE, pending |-> p]
    BY <2>1, <2>3, Zenon
  <2>6. [v EXCEPT !.pending = q] = [ok |-> a, pending |-> q]
    BY <2>1, <2>4, Zenon
  <2> QED BY <2>2, <2>5, <2>6 DEF q
<1>8. OKUpTo(g, b, n) \in BOOLEAN /\ OKUpTo(g, b, n - 1) \in BOOLEAN
  BY DEF OKUpTo
<1> DEFINE w == ValidateInput(g, v, b[n])
<1>9. w = [ok |-> OKUpTo(g, b, n), pending |-> Targets(g, b, n)]
  <2>1. CASE ~v.ok
    BY <2>1, <1>2, <1>3, <1>5, <1>6, <1>8
  <2>2. CASE v.ok /\ ~HasEntity(g, b[n].entity)
    BY <2>2, <1>2, <1>3, <1>5, <1>6, <1>7, <1>8
  <2>3. CASE v.ok /\ HasEntity(g, b[n].entity) /\ ~closes
    BY <2>3, <1>2, <1>3, <1>5, <1>6, <1>8
  <2>4. CASE v.ok /\ HasEntity(g, b[n].entity) /\ closes /\ (~fits \/ clash)
    BY <2>4, <1>2, <1>3, <1>4, <1>5, <1>6, <1>7, <1>8
  <2>5. CASE v.ok /\ HasEntity(g, b[n].entity) /\ closes /\ fits /\ ~clash
    BY <2>5, <1>2, <1>3, <1>4, <1>5, <1>6, <1>7, <1>8
  <2> HIDE DEF w
  <2> QED BY <2>1, <2>2, <2>3, <2>4, <2>5
<1> QED BY <1>9 DEF Validating, v

\* The validating loop accepts what ObservationsOK accepts.
LEMMA LoopValidIs ==
    ASSUME NEW g, NEW b \in Seq(FactInput)
    PROVE  LoopValid(g, b) = ObservationsOK(g, b)
<1> DEFINE base == [ok |-> TRUE, pending |-> {}]
           Rounds(f) == f = [n \in 0..Len(b) |->
                               IF n = 0 THEN base ELSE ValidateInput(g, f[n - 1], b[n])]
           f == CHOOSE h : Rounds(h)
           e == [n \in 0..Len(b) |-> Validating(g, b, n)]
<1>1. Len(b) \in Nat /\ DOMAIN b = 1..Len(b) /\ Supersedes(g, b) \subseteq 1..Len(b)
  BY Rows DEF Supersedes
<1>2. LoopValid(g, b) = f[Len(b)].ok
  BY DEF LoopValid
<1>3. Validating(g, b, 0) = base
  <2>1. \A i \in Supersedes(g, b) : ~(i <= 0)
    BY <1>1
  <2>2. OKUpTo(g, b, 0)
    BY <2>1 DEF OKUpTo
  <2>3. Targets(g, b, 0) = {}
    BY <2>1 DEF Targets
  <2> QED BY <2>2, <2>3 DEF Validating, OKUpTo
<1> HIDE DEF base
<1>4. \A n \in 0..Len(b) : e[n] = IF n = 0 THEN base ELSE ValidateInput(g, e[n - 1], b[n])
  <2> TAKE n \in 0..Len(b)
  <2>1. CASE n = 0
    BY <2>1, <1>3
  <2>2. CASE n # 0
    <3>1. n \in DOMAIN b /\ n - 1 \in 0..Len(b)
      BY <1>1, <2>2
    <3>2. ValidateInput(g, Validating(g, b, n - 1), b[n]) = Validating(g, b, n)
      BY <3>1, ValidatingGoesOn
    <3> QED BY <2>2, <3>1, <3>2
  <2> QED BY <2>1, <2>2
<1>5. Rounds(e)
  <2>1. e = [n \in 0..Len(b) |-> e[n]]
    OBVIOUS
  <2> HIDE DEF e
  <2> QED BY <1>4, <2>1
<1>6. Rounds(f)
  <2> HIDE DEF Rounds, e
  <2> QED BY <1>5
<1>7. \A h : Rounds(h) => \A n \in 0..Len(b) :
                h[n] = IF n = 0 THEN base ELSE ValidateInput(g, h[n - 1], b[n])
  OBVIOUS
<1>8. /\ f[0] = e[0]
      /\ \A n \in 1..Len(b) : f[n - 1] = e[n - 1] => f[n] = e[n]
  <2> HIDE DEF f, e, Rounds
  <2> QED BY <1>1, <1>5, <1>6, <1>7
<1>9. f[Len(b)] = e[Len(b)]
  <2> HIDE DEF f, e
  <2> QED BY <1>1, <1>8, SameRounds
<1>10. f[Len(b)] = Validating(g, b, Len(b))
  <2> HIDE DEF f
  <2> QED BY <1>1, <1>9
<1>11. OKUpTo(g, b, Len(b)) = ObservationsOK(g, b)
  <2>1. \A i \in Supersedes(g, b) : i <= Len(b)
    BY <1>1
  <2>2. OKUpTo(g, b, Len(b)) <=> ObservationsOK(g, b)
    BY <1>1, <2>1 DEF OKUpTo, ObservationsOK
  <2> QED BY <2>2 DEF OKUpTo, ObservationsOK
<1> HIDE DEF f, e
<1> QED BY <1>2, <1>10, <1>11 DEF Validating

-----------------------------------------------------------------------------
(* Adding observations                                                     *)

\* What the first n inputs add to the entity e, and what is then there.
AddedUpTo(g, b, name, n) == {a \in AddedTo(g, b, name) : a <= n}
NewFacts(b, added, now) == [k \in 1..Cardinality(added) |-> NewFact(b[Nth(added, k)], now)]
FactsAfter(e, b, added, now) == CloseSuperseded(e, b, added, now) \o NewFacts(b, added, now)
EntityAfter(e, b, added, now) ==
    IF added = {} THEN e ELSE [e EXCEPT !.facts = FactsAfter(e, b, added, now), !.updated = now]

\* The graph after n inputs.
RowsAfter(g, b, now, n) ==
    [i \in DOMAIN g.entities |->
        IF First(g, i)
        THEN EntityAfter(g.entities[i], b, AddedUpTo(g, b, g.entities[i].name, n), now)
        ELSE g.entities[i]]
GraphAfter(g, b, now, n) == [entities |-> RowsAfter(g, b, now, n), relations |-> g.relations]

\* A fact's place does not depend on the entity when it is closed, nor its text.
LEMMA ClosingTyped ==
    ASSUME NEW e \in Entity, NEW b \in Seq(FactInput), NEW added \in SUBSET DOMAIN b, NEW now \in Times
    PROVE  /\ CloseSuperseded(e, b, added, now) \in Seq(Fact)
           /\ DOMAIN CloseSuperseded(e, b, added, now) = DOMAIN e.facts
           /\ Len(CloseSuperseded(e, b, added, now)) = Len(e.facts)
           /\ \A k \in DOMAIN e.facts : CloseSuperseded(e, b, added, now)[k].text = e.facts[k].text
<1> DEFINE closed == CloseSuperseded(e, b, added, now)
<1>1. e.facts \in Seq(Fact) /\ \A k \in DOMAIN e.facts : e.facts[k] \in Fact
  BY Rows DEF Entity
<1>2. Len(b) \in Nat /\ DOMAIN b = 1..Len(b) /\ \A a \in DOMAIN b : b[a] \in FactInput
  BY Rows
<1>3. ASSUME NEW k \in DOMAIN e.facts
      PROVE  closed[k] \in Fact /\ closed[k].text = e.facts[k].text
  <2> DEFINE by == {i \in added : b[i].supersedes = e.facts[k].text /\ TextIndex(e, e.facts[k].text) = k}
  <2>1. closed[k] = IF by = {} THEN e.facts[k]
                    ELSE [e.facts[k] EXCEPT !.to = NewFact(b[Min(by)], now).from]
    BY DEF CloseSuperseded
  <2>2. by \in SUBSET (1..Len(b)) /\ by \subseteq DOMAIN b
    BY <1>2
  <2> HIDE DEF by, closed
  <2>3. CASE by = {}
    BY <1>1, <2>1, <2>3
  <2>4. CASE by # {}
    <3>1. Min(by) \in by
      BY <1>2, <2>2, <2>4, FirstPlace
    <3>2. NewFact(b[Min(by)], now) \in Fact
      BY <1>2, <2>2, <3>1, NewFactTyped
    <3> QED BY <1>1, <2>1, <2>4, <3>2 DEF Fact
  <2> QED BY <2>3, <2>4
<1>4. closed \in [DOMAIN e.facts -> Fact]
  <2>1. DOMAIN closed = DOMAIN e.facts /\ closed = [k \in DOMAIN e.facts |-> closed[k]]
    BY DEF CloseSuperseded
  <2> HIDE DEF closed
  <2> QED BY <1>3, <2>1
<1> HIDE DEF closed
<1>5. closed \in Seq(Fact) /\ DOMAIN closed = DOMAIN e.facts /\ Len(closed) = Len(e.facts)
  BY <1>1, <1>4, Rewritten
<1> QED BY <1>3, <1>5 DEF closed

\* The new facts are a sequence, one for each input that is added.
LEMMA NewFactsTyped ==
    ASSUME NEW b \in Seq(FactInput), NEW added \in SUBSET DOMAIN b, NEW now \in Times
    PROVE  /\ NewFacts(b, added, now) \in Seq(Fact)
           /\ DOMAIN NewFacts(b, added, now) = 1..Cardinality(added)
           /\ \A k \in 1..Cardinality(added) :
                 Nth(added, k) \in added /\ NewFacts(b, added, now)[k] = NewFact(b[Nth(added, k)], now)
           /\ \A a \in added : \E k \in 1..Cardinality(added) : Nth(added, k) = a
<1> DEFINE f == NewFacts(b, added, now)
           C == 1..Cardinality(added)
<1>1. /\ Retain(b, added) \in Seq(FactInput) /\ DOMAIN Retain(b, added) = C
      /\ \A n \in C : Nth(added, n) \in added
      /\ \A a \in added : \E n \in C : Nth(added, n) = a
  <2>1. /\ Retain(b, added) \in Seq(FactInput)
        /\ DOMAIN Retain(b, added) = 1..Cardinality(added)
        /\ \A n \in DOMAIN Retain(b, added) :
              Nth(added, n) \in added /\ Retain(b, added)[n] = b[Nth(added, n)]
        /\ \A n, k \in DOMAIN Retain(b, added) : Nth(added, n) = Nth(added, k) => n = k
        /\ \A i \in added : \E n \in DOMAIN Retain(b, added) : Nth(added, n) = i
    BY RetainRows
  <2> QED BY <2>1
<1>2. \A a \in added : NewFact(b[a], now) \in Fact
  BY Rows, NewFactTyped
<1>3. f \in [C -> Fact] /\ \A k \in C : f[k] = NewFact(b[Nth(added, k)], now)
  BY <1>1, <1>2 DEF NewFacts
<1> HIDE DEF f
<1>4. f \in Seq(Fact) /\ DOMAIN f = C
  <2> HIDE DEF C
  <2> QED BY <1>1, <1>3, Rewritten
<1> QED BY <1>1, <1>3, <1>4 DEF f

\* Whether or not anything is added, the entity is a row with those facts.
LEMMA EntityAfterIs ==
    ASSUME NEW e \in Entity, NEW b \in Seq(FactInput), NEW added \in SUBSET DOMAIN b, NEW now \in Times
    PROVE  /\ EntityAfter(e, b, added, now) \in Entity
           /\ EntityAfter(e, b, added, now).name = e.name
           /\ EntityAfter(e, b, added, now).facts = FactsAfter(e, b, added, now)
           /\ FactsAfter(e, b, added, now) \in Seq(Fact)
<1> DEFINE f == FactsAfter(e, b, added, now)
           o == EntityAfter(e, b, added, now)
           closed == CloseSuperseded(e, b, added, now)
           new == NewFacts(b, added, now)
<1>1. closed \in Seq(Fact) /\ new \in Seq(Fact) /\ f = closed \o new
  BY ClosingTyped, NewFactsTyped DEF FactsAfter
<1>2. f \in Seq(Fact)
  <2> HIDE DEF f, closed, new
  <2> QED BY <1>1, Joined
<1>3. CASE added = {}
  <2>1. closed = e.facts
    BY <1>3 DEF CloseSuperseded, Entity
  <2>2. new = << >>
    BY <1>3, FS_EmptySet DEF NewFacts
  <2>3. e.facts \o << >> = e.facts
    BY ConcatEmptySeq DEF Entity
  <2>4. f = e.facts
    <3> HIDE DEF f, closed, new
    <3> QED BY <1>1, <2>1, <2>2, <2>3
  <2> QED BY <1>2, <1>3, <2>4 DEF EntityAfter
<1>4. CASE added # {}
  <2> HIDE DEF f
  <2>1. o = [e EXCEPT !.facts = f, !.updated = now]
    BY <1>4 DEF EntityAfter, f
  <2> HIDE DEF o
  <2>2. o \in Entity /\ o.name = e.name /\ o.facts = f
    BY <1>2, <2>1, TypesAssumption DEF Entity, Stamps
  <2> QED BY <1>2, <2>1, <2>2 DEF o, f
<1> QED BY <1>3, <1>4

\* The texts that are then there.
LEMMA TextsAfter ==
    ASSUME NEW e \in Entity, NEW b \in Seq(FactInput), NEW added \in SUBSET DOMAIN b, NEW now \in Times
    PROVE  Texts(EntityAfter(e, b, added, now)) = Texts(e) \cup {b[a].text : a \in added}
<1> DEFINE o == EntityAfter(e, b, added, now)
           closed == CloseSuperseded(e, b, added, now)
           new == NewFacts(b, added, now)
           C == 1..Cardinality(added)
<1>1. o.facts = closed \o new
  <2>1. o.facts = FactsAfter(e, b, added, now)
    BY EntityAfterIs
  <2> QED BY <2>1 DEF FactsAfter
<1>2. /\ closed \in Seq(Fact) /\ DOMAIN closed = DOMAIN e.facts
      /\ \A k \in DOMAIN e.facts : closed[k].text = e.facts[k].text
  BY ClosingTyped
<1>3. /\ new \in Seq(Fact) /\ DOMAIN new = C
      /\ \A k \in C : Nth(added, k) \in added /\ new[k] = NewFact(b[Nth(added, k)], now)
      /\ \A a \in added : \E k \in C : Nth(added, k) = a
  BY NewFactsTyped
<1>4. \A a \in added : NewFact(b[a], now).text = b[a].text
  BY DEF NewFact
<1> HIDE DEF o, closed, new, C
<1>5. /\ DOMAIN closed \subseteq DOMAIN (closed \o new)
      /\ \A i \in DOMAIN closed : (closed \o new)[i] = closed[i]
      /\ \A i \in DOMAIN (closed \o new) \ DOMAIN closed :
            i - Len(closed) \in DOMAIN new /\ (closed \o new)[i] = new[i - Len(closed)]
      /\ \A j \in DOMAIN new : Len(closed) + j \in DOMAIN (closed \o new) \ DOMAIN closed
                               /\ (closed \o new)[Len(closed) + j] = new[j]
  BY <1>2, <1>3, Joined
<1> DEFINE t == closed \o new
<1>6. ASSUME NEW i \in DOMAIN t PROVE t[i].text \in Texts(e) \cup {b[a].text : a \in added}
  <2>1. CASE i \in DOMAIN closed
    BY <1>2, <1>5, <2>1 DEF Texts
  <2>2. CASE i \notin DOMAIN closed
    <3>1. PICK k \in C : t[i] = new[k]
      BY <1>3, <1>5, <2>2
    <3> QED BY <1>3, <1>4, <3>1
  <2> QED BY <2>1, <2>2
<1>7. ASSUME NEW k \in DOMAIN e.facts PROVE \E i \in DOMAIN t : t[i].text = e.facts[k].text
  BY <1>2, <1>5
<1>8. ASSUME NEW a \in added PROVE \E i \in DOMAIN t : t[i].text = b[a].text
  <2>1. PICK k \in C : Nth(added, k) = a
    BY <1>3
  <2>2. new[k].text = b[a].text
    BY <1>3, <1>4, <2>1
  <2> QED BY <1>3, <1>5, <2>2
<1>9. Texts(o) = {t[i].text : i \in DOMAIN t}
  BY <1>1 DEF Texts
<1> HIDE DEF t
<1>10. Texts(e) = {e.facts[k].text : k \in DOMAIN e.facts}
  BY DEF Texts
<1> QED BY <1>6, <1>7, <1>8, <1>9, <1>10 DEF o

\* An input is added, or nothing changes.
LEMMA AddedFurther ==
    ASSUME NEW g, NEW b \in Seq(FactInput), NEW n \in DOMAIN b, NEW name
    PROVE  /\ AddedUpTo(g, b, name, n) = IF n \in AddedTo(g, b, name)
                                         THEN AddedUpTo(g, b, name, n - 1) \cup {n}
                                         ELSE AddedUpTo(g, b, name, n - 1)
           /\ AddedUpTo(g, b, name, n - 1) \in SUBSET (1..(n - 1))
           /\ AddedUpTo(g, b, name, n - 1) \in SUBSET DOMAIN b
<1>1. DOMAIN b = 1..Len(b) /\ Len(b) \in Nat
  BY Rows
<1>2. AddedTo(g, b, name) \subseteq 1..Len(b)
  BY <1>1 DEF AddedTo
<1>3. /\ n \in 1..Len(b)
      /\ \A i \in 1..Len(b) : i <= n <=> (i = n \/ i <= n - 1)
      /\ \A i \in 1..Len(b) : i <= n - 1 => i \in 1..(n - 1)
  BY <1>1
<1> QED BY <1>1, <1>2, <1>3 DEF AddedUpTo

\* An input is added if its text is not there when its turn comes.
LEMMA AddedWhenNew ==
    ASSUME NEW g, NEW b \in Seq(FactInput), NEW n \in DOMAIN b
    PROVE  b[n].text \notin Texts(EntityOf(g, b[n].entity))
                            \cup {b[a].text : a \in AddedUpTo(g, b, b[n].entity, n - 1)}
           <=> n \in AddedTo(g, b, b[n].entity)
<1> DEFINE name == b[n].entity
           x == b[n].text
           there == Texts(EntityOf(g, name))
           same == {j \in DOMAIN b : b[j].entity = name /\ b[j].text = x}
           in == AddedTo(g, b, name)
<1>1. DOMAIN b = 1..Len(b) /\ Len(b) \in Nat /\ n \in 1..Len(b)
  BY Rows
<1>2. \A i : i \in in <=> /\ i \in DOMAIN b /\ b[i].entity = name /\ b[i].text \notin there
                         /\ \A j \in 1..(i - 1) : b[j].entity = name => b[j].text # b[i].text
  BY DEF AddedTo
<1>3. AddedUpTo(g, b, name, n - 1) = {a \in in : a <= n - 1}
  BY DEF AddedUpTo
<1> HIDE DEF in, there
<1>4. ASSUME n \in in PROVE x \notin there \cup {b[a].text : a \in {c \in in : c <= n - 1}}
  <2>1. x \notin there /\ \A j \in 1..(n - 1) : b[j].entity = name => b[j].text # x
    BY <1>2, <1>4
  <2>2. \A a \in in : a <= n - 1 => a \in 1..(n - 1) /\ b[a].entity = name
    BY <1>1, <1>2
  <2> QED BY <2>1, <2>2
<1>5. ASSUME n \notin in, x \notin there
      PROVE  x \in {b[a].text : a \in {c \in in : c <= n - 1}}
  <2> DEFINE m == Min(same)
  <2>1. same \in SUBSET (1..Len(b)) /\ n \in same
    BY <1>1
  <2>2. \A j \in DOMAIN b : j \in same <=> b[j].entity = name /\ b[j].text = x
    OBVIOUS
  <2> HIDE DEF same, x, name
  <2>3. m \in same /\ \A j \in same : m <= j
    BY <1>1, <2>1, FirstPlace
  <2> HIDE DEF m
  <2>4. m \in 1..Len(b) /\ m \in DOMAIN b /\ b[m].entity = name /\ b[m].text = x /\ m <= n
    BY <1>1, <2>1, <2>2, <2>3
  <2>5. ASSUME NEW j \in 1..(m - 1), b[j].entity = name PROVE b[j].text # b[m].text
    <3>1. j \in DOMAIN b /\ ~(m <= j)
      BY <1>1, <2>4
    <3> QED BY <2>2, <2>3, <2>4, <2>5, <3>1
  <2>6. m \in in
    BY <1>2, <1>5, <2>4, <2>5
  <2>7. m # n
    BY <1>5, <2>6
  <2>8. m <= n - 1
    BY <1>1, <2>4, <2>7
  <2> QED BY <2>4, <2>6, <2>8
<1> HIDE DEF x
<1>6. n \in in => x \notin there \cup {b[a].text : a \in {c \in in : c <= n - 1}}
  BY <1>4
<1>7. x \notin there \cup {b[a].text : a \in {c \in in : c <= n - 1}} => n \in in
  BY <1>5
<1> QED BY <1>3, <1>6, <1>7 DEF x, there, in

\* The new facts are one more.
LEMMA NewFactsFurther ==
    ASSUME NEW b \in Seq(FactInput), NEW n \in DOMAIN b, NEW A \in SUBSET (1..(n - 1)), NEW now \in Times
    PROVE  NewFacts(b, A \cup {n}, now) = Append(NewFacts(b, A, now), NewFact(b[n], now))
<1> DEFINE M == A \cup {n}
           c == Cardinality(A)
           old == NewFacts(b, A, now)
           x == NewFact(b[n], now)
<1>1. Len(b) \in Nat /\ DOMAIN b = 1..Len(b) /\ b[n] \in FactInput
  BY Rows
<1>2. A \in SUBSET DOMAIN b /\ M \in SUBSET DOMAIN b
  <2>1. \A i \in A : i \in 1..Len(b)
    BY <1>1
  <2>2. \A i \in M : i \in 1..Len(b)
    BY <1>1, <2>1
  <2> HIDE DEF M
  <2> QED BY <1>1, <2>1, <2>2
<1>3. /\ old \in Seq(Fact) /\ DOMAIN old = 1..c
      /\ \A k \in 1..c : Nth(A, k) \in A /\ old[k] = NewFact(b[Nth(A, k)], now)
  BY <1>2, NewFactsTyped
<1>4. /\ DOMAIN NewFacts(b, M, now) = 1..Cardinality(M)
      /\ \A k \in 1..Cardinality(M) : NewFacts(b, M, now)[k] = NewFact(b[Nth(M, k)], now)
  BY DEF NewFacts
<1>5. /\ Retain(b, A) = [k \in 1..c |-> b[Nth(A, k)]]
      /\ \A k \in 1..c : Retain(b, A)[k] = b[Nth(A, k)]
      /\ Retain(b, M) = [k \in 1..Cardinality(M) |-> b[Nth(M, k)]]
  BY DEF Retain
<1>6. Retain(b, M) = Append(Retain(b, A), b[n])
  BY RetainMore
<1>7. Retain(b, A) \in Seq(FactInput)
  BY <1>2, RetainRows
<1> HIDE DEF M, old, c
<1>8. /\ x \in Fact
      /\ Len(old) \in Nat /\ DOMAIN old = 1..Len(old)
      /\ Append(old, x) \in Seq(Fact)
      /\ Len(Append(old, x)) = Len(old) + 1
      /\ \A i \in 1..Len(old) : Append(old, x)[i] = old[i]
      /\ Append(old, x)[Len(old) + 1] = x
  <2>1. x \in Fact
    BY <1>1, NewFactTyped
  <2> HIDE DEF x
  <2> QED BY <1>3, <2>1, AppendProperties, Rows
<1> DEFINE r == Retain(b, A)
<1>9. /\ Len(r) \in Nat /\ DOMAIN r = 1..Len(r)
      /\ Append(r, b[n]) \in Seq(FactInput)
      /\ Len(Append(r, b[n])) = Len(r) + 1
      /\ \A i \in 1..Len(r) : Append(r, b[n])[i] = r[i]
      /\ Append(r, b[n])[Len(r) + 1] = b[n]
  <2> HIDE DEF r
  <2> QED BY <1>1, <1>7, AppendProperties, Rows DEF r
<1>10. DOMAIN Append(r, b[n]) = 1..(Len(r) + 1) /\ DOMAIN Append(old, x) = 1..(Len(old) + 1)
  <2> HIDE DEF r, x
  <2> QED BY <1>8, <1>9, Rows
<1>11. 1..Len(r) = 1..c /\ 1..Len(old) = 1..c
  BY <1>3, <1>5, <1>8, <1>9
<1>12. Len(r) = Len(old)
  <2> HIDE DEF r
  <2>1. \A p, q \in Nat : 1..p = 1..q => p = q
    <3> SUFFICES ASSUME NEW p \in Nat, NEW q \in Nat, 1..p = 1..q, p < q PROVE FALSE
      OBVIOUS
    <3>1. q \in 1..q /\ q \notin 1..p
      OBVIOUS
    <3> QED BY <3>1
  <2> QED BY <1>8, <1>9, <1>11, <2>1
<1>13. /\ 1..Cardinality(M) = 1..(Len(old) + 1)
       /\ \A k \in 1..Len(old) : b[Nth(M, k)] = b[Nth(A, k)]
       /\ b[Nth(M, Len(old) + 1)] = b[n]
  <2>1. DOMAIN Retain(b, M) = 1..Cardinality(M)
        /\ \A k \in 1..Cardinality(M) : Retain(b, M)[k] = b[Nth(M, k)]
    BY <1>5
  <2>2. 1..Cardinality(M) = 1..(Len(old) + 1)
    BY <1>6, <1>10, <1>12, <2>1
  <2>3. \A k \in 1..Len(old) : r[k] = b[Nth(A, k)] /\ k \in 1..(Len(old) + 1)
    <3>1. \A k \in 1..Len(old) : r[k] = b[Nth(A, k)]
      BY <1>5, <1>11
    <3>2. \A k \in 1..Len(old) : k \in 1..(Len(old) + 1)
      BY <1>8
    <3> QED BY <3>1, <3>2
  <2>4. Len(old) + 1 \in 1..(Len(old) + 1)
    BY <1>8
  <2> HIDE DEF r
  <2> QED BY <1>6, <1>9, <1>12, <2>1, <2>2, <2>3, <2>4 DEF r
<1> HIDE DEF x, r
<1>14. \A k \in 1..(Len(old) + 1) : NewFacts(b, M, now)[k] = Append(old, x)[k]
  <2> TAKE k \in 1..(Len(old) + 1)
  <2>1. k \in 1..Len(old) \/ k = Len(old) + 1
    BY <1>8
  <2>2. CASE k \in 1..Len(old)
    BY <2>2, <1>3, <1>4, <1>8, <1>11, <1>13
  <2>3. CASE k = Len(old) + 1
    BY <2>3, <1>4, <1>8, <1>13 DEF x
  <2> QED BY <2>1, <2>2, <2>3
<1>15. NewFacts(b, M, now) = [k \in 1..(Len(old) + 1) |-> NewFacts(b, M, now)[k]]
  BY <1>13 DEF NewFacts
<1>16. Append(old, x) = [k \in 1..(Len(old) + 1) |-> Append(old, x)[k]]
  <2> DEFINE u == Append(old, x)
  <2>1. u \in Seq(Fact) /\ DOMAIN u = 1..(Len(old) + 1)
    BY <1>8, <1>10
  <2> HIDE DEF u
  <2>2. u = [k \in 1..(Len(old) + 1) |-> u[k]]
    BY <2>1
  <2> QED BY <2>2 DEF u
<1>17. NewFacts(b, M, now) = Append(old, x)
  BY <1>14, <1>15, <1>16
<1> QED BY <1>17 DEF M, old, x

\* Replacing an element of the first of two sequences.
LEMMA ReplacedInFirst ==
    ASSUME NEW S, NEW s \in Seq(S), NEW t \in Seq(S), NEW q \in DOMAIN s, NEW z \in S
    PROVE  [s EXCEPT ![q] = z] \o t = [(s \o t) EXCEPT ![q] = z]
<1> DEFINE u == [s EXCEPT ![q] = z]
           w == s \o t
           v == u \o t
           o == [w EXCEPT ![q] = z]
<1>1. Len(s) \in Nat /\ DOMAIN s = 1..Len(s) /\ Len(t) \in Nat /\ q \in 1..Len(s)
  BY Rows
<1>2. u \in Seq(S) /\ Len(u) = Len(s) /\ \A j \in 1..Len(s) : u[j] = IF j = q THEN z ELSE s[j]
  BY <1>1, ExceptSeq
<1>3. /\ w \in Seq(S) /\ Len(w) = Len(s) + Len(t)
      /\ \A i \in 1..(Len(s) + Len(t)) : w[i] = IF i <= Len(s) THEN s[i] ELSE t[i - Len(s)]
  BY ConcatProperties
<1> HIDE DEF u, w
<1>4. /\ v \in Seq(S) /\ Len(v) = Len(s) + Len(t)
      /\ \A i \in 1..(Len(s) + Len(t)) : v[i] = IF i <= Len(s) THEN u[i] ELSE t[i - Len(s)]
  <2>1. /\ u \o t \in Seq(S) /\ Len(u \o t) = Len(u) + Len(t)
        /\ \A i \in 1..(Len(u) + Len(t)) :
              (u \o t)[i] = IF i <= Len(u) THEN u[i] ELSE t[i - Len(u)]
    <3>1. u \in Seq(S)
      BY <1>2
    <3> QED BY <3>1, ConcatProperties
  <2> HIDE DEF v
  <2> QED BY <1>2, <2>1 DEF v
<1>5. q \in 1..Len(w)
  BY <1>1, <1>3
<1>6. o \in Seq(S) /\ Len(o) = Len(w) /\ \A j \in 1..Len(w) : o[j] = IF j = q THEN z ELSE w[j]
  BY <1>3, <1>5, ExceptSeq
<1> HIDE DEF v, o
<1>7. \A i \in 1..Len(v) : v[i] = o[i]
  <2> TAKE i \in 1..Len(v)
  <2>1. i \in 1..(Len(s) + Len(t)) /\ i \in 1..Len(w) /\ (i <= Len(s) => i \in 1..Len(s))
    BY <1>1, <1>3, <1>4
  <2>2. i = q => i <= Len(s)
    BY <1>1
  <2> QED BY <1>2, <1>3, <1>4, <1>6, <2>1, <2>2
<1>8. v = o
  BY <1>3, <1>4, <1>6, <1>7, SeqEqual
<1> QED BY <1>8 DEF u, w, v, o

\* The facts with the one at place q closed at y.
ClosedAt(facts, q, y) == [facts EXCEPT ![q] = [facts[q] EXCEPT !.to = y]]

\* One input more closes the fact that it supersedes, which no input before it
\* has closed.
LEMMA ClosedFurther ==
    ASSUME NEW g \in Graph, NEW e \in Entity, e = EntityOf(g, e.name),
           NEW b \in Seq(FactInput), ObservationsOK(g, b), NEW now \in Times,
           NEW n \in AddedTo(g, b, e.name),
           NEW A \in SUBSET (1..(n - 1)), A \subseteq AddedTo(g, b, e.name)
    PROVE  /\ b[n].supersedes = None =>
                 CloseSuperseded(e, b, A \cup {n}, now) = CloseSuperseded(e, b, A, now)
           /\ b[n].supersedes # None =>
                 /\ b[n].supersedes \in Texts(e)
                 /\ CloseSuperseded(e, b, A \cup {n}, now) =
                       ClosedAt(CloseSuperseded(e, b, A, now), TextIndex(e, b[n].supersedes),
                                NewFact(b[n], now).from)
<1> DEFINE in == AddedTo(g, b, e.name)
           sup == b[n].supersedes
           q == TextIndex(e, sup)
           y == NewFact(b[n], now).from
           by(B, k) == {i \in B : b[i].supersedes = e.facts[k].text /\ TextIndex(e, e.facts[k].text) = k}
           After(B, k) == IF by(B, k) = {} THEN e.facts[k]
                          ELSE [e.facts[k] EXCEPT !.to = NewFact(b[Min(by(B, k))], now).from]
           M == A \cup {n}
<1>1. /\ \A a \in in : /\ a \in DOMAIN b /\ b[a].entity = e.name /\ b[a].text \notin Texts(e)
      /\ n \notin A /\ n \in DOMAIN b /\ n \in Nat /\ A \subseteq in
  BY Rows DEF AddedTo
<1>2. \A a \in in : b[a].supersedes # None => a \in Supersedes(g, b)
  BY <1>1 DEF Supersedes
<1>3. \A a \in in : b[a].supersedes # None /\ b[a].supersedes = sup /\ sup # None => a = n
  <2> HIDE DEF in
  <2> QED BY <1>1, <1>2 DEF ObservationsOK, in
<1>4. \A k \in DOMAIN e.facts : e.facts[k] \in Fact /\ e.facts[k].text # None /\ e.facts[k].text \in Texts(e)
  <2>1. e.facts \in Seq(Fact)
    BY DEF Entity
  <2>2. \A k \in DOMAIN e.facts : e.facts[k] \in Fact
    BY <2>1, Rows
  <2>3. \A k \in DOMAIN e.facts : e.facts[k].text \in FactTexts
    BY <2>2 DEF Fact
  <2> QED BY <2>2, <2>3, TypesAssumption DEF Texts
<1>5. \A B : CloseSuperseded(e, b, B, now) = [k \in DOMAIN e.facts |-> After(B, k)]
  BY DEF CloseSuperseded
<1> HIDE DEF in
<1>6. ASSUME NEW k \in DOMAIN e.facts, ~(sup = e.facts[k].text /\ q = k)
      PROVE  After(M, k) = After(A, k)
  <2>1. by(M, k) = by(A, k)
    BY <1>6
  <2> HIDE DEF by
  <2> QED BY <2>1
<1>7. ASSUME sup # None
      PROVE  /\ sup \in Texts(e) /\ q \in DOMAIN e.facts /\ e.facts[q].text = sup
             /\ After(A, q) = e.facts[q]
             /\ After(M, q) = [e.facts[q] EXCEPT !.to = y]
  <2>1. n \in Supersedes(g, b)
    BY <1>2, <1>7 DEF in
  <2>2. sup \in Texts(e)
    BY <1>1, <2>1 DEF ObservationsOK, in
  <2> HIDE DEF sup
  <2>3. q \in DOMAIN e.facts /\ e.facts[q].text = sup
    BY <2>2, TextFound
  <2> HIDE DEF q
  <2>4. by(A, q) = {}
    BY <1>1, <1>3, <1>7, <2>3 DEF sup
  <2>5. by(M, q) = {n}
    BY <2>3, <2>4 DEF sup, q
  <2> HIDE DEF by
  <2>6. Min({n}) = n
    <3>1. {n} \in SUBSET (1..n) /\ {n} # {} /\ n \in Nat
      BY <1>1, Rows
    <3> QED BY <3>1, FirstPlace
  <2> QED BY <2>2, <2>3, <2>4, <2>5, <2>6
<1> HIDE DEF After, y
<1> DEFINE closed == CloseSuperseded(e, b, A, now)
           more == CloseSuperseded(e, b, M, now)
           z == [closed[q] EXCEPT !.to = y]
<1>8. closed = [k \in DOMAIN e.facts |-> After(A, k)] /\ more = [k \in DOMAIN e.facts |-> After(M, k)]
  BY <1>5
<1>9. ASSUME sup = None PROVE more = closed
  <2>1. \A k \in DOMAIN e.facts : After(M, k) = After(A, k)
    BY <1>4, <1>6, <1>9
  <2> HIDE DEF closed, more
  <2> QED BY <1>8, <2>1
<1>10. ASSUME sup # None PROVE sup \in Texts(e) /\ more = [closed EXCEPT ![q] = z]
  <2> HIDE DEF closed, more, q
  <2>1. q \in DOMAIN e.facts /\ After(A, q) = e.facts[q] /\ After(M, q) = [e.facts[q] EXCEPT !.to = y]
    BY <1>7, <1>10
  <2>2. closed[q] = e.facts[q] /\ After(M, q) = z
    BY <1>8, <2>1
  <2>3. \A k \in DOMAIN e.facts : k # q => After(M, k) = After(A, k)
    BY <1>6
  <2> HIDE DEF z
  <2>4. more = [closed EXCEPT ![q] = z]
    BY <1>8, <2>1, <2>2, <2>3
  <2> QED BY <1>7, <1>10, <2>4
<1> HIDE DEF closed, more, z
<1> QED BY <1>9, <1>10 DEF closed, more, q, z, y, M, ClosedAt

\* So the facts are what the code makes of those before: closed, and one more.
LEMMA FactsFurther ==
    ASSUME NEW g \in Graph, NEW e \in Entity, e = EntityOf(g, e.name),
           NEW b \in Seq(FactInput), ObservationsOK(g, b), NEW now \in Times,
           NEW n \in AddedTo(g, b, e.name),
           NEW A \in SUBSET (1..(n - 1)), A \subseteq AddedTo(g, b, e.name)
    PROVE  LET facts == FactsAfter(e, b, A, now)
               q == TextIndex(e, b[n].supersedes)
               x == NewFact(b[n], now)
           IN FactsAfter(e, b, A \cup {n}, now) =
                 Append(IF b[n].supersedes = None THEN facts ELSE ClosedAt(facts, q, x.from), x)
<1> DEFINE M == A \cup {n}
           sup == b[n].supersedes
           q == TextIndex(e, sup)
           x == NewFact(b[n], now)
           closed == CloseSuperseded(e, b, A, now)
           more == CloseSuperseded(e, b, M, now)
           new == NewFacts(b, A, now)
           facts == FactsAfter(e, b, A, now)
<1>1. n \in DOMAIN b /\ A \in SUBSET DOMAIN b /\ M \in SUBSET DOMAIN b
  <2>1. n \in DOMAIN b /\ A \subseteq DOMAIN b
    BY DEF AddedTo
  <2> QED BY <2>1
<1>2. b[n] \in FactInput /\ x \in Fact
  BY <1>1, Rows, NewFactTyped
<1>3. closed \in Seq(Fact) /\ DOMAIN closed = DOMAIN e.facts
  <2>1. A \in SUBSET DOMAIN b
    BY <1>1
  <2> QED BY <2>1, ClosingTyped
<1>4. more \in Seq(Fact)
  <2> HIDE DEF M
  <2> QED BY <1>1, ClosingTyped
<1>5. new \in Seq(Fact)
  BY <1>1, NewFactsTyped
<1>6. NewFacts(b, M, now) = Append(new, x)
  BY <1>1, NewFactsFurther
<1>7. facts = closed \o new /\ FactsAfter(e, b, M, now) = more \o Append(new, x)
  BY <1>6 DEF FactsAfter
<1>8. /\ sup = None => more = closed
      /\ sup # None => sup \in Texts(e) /\ more = ClosedAt(closed, q, x.from)
  BY ClosedFurther
<1> HIDE DEF more, closed, new, x, q, M, facts
<1>9. more \o Append(new, x) = Append(more \o new, x)
  <2>1. /\ Append(new, x) = new \o <<x>> /\ <<x>> \in Seq(Fact)
    BY <1>2, <1>5, AppendIsConcat
  <2>2. more \o new \in Seq(Fact)
    BY <1>4, <1>5, Joined
  <2>3. Append(more \o new, x) = (more \o new) \o <<x>>
    BY <1>2, <2>2, AppendIsConcat
  <2>4. (more \o new) \o <<x>> = more \o (new \o <<x>>)
    BY <1>4, <1>5, <2>1, ConcatAssociative
  <2> QED BY <2>1, <2>3, <2>4
<1>10. CASE sup = None
  BY <1>7, <1>8, <1>9, <1>10 DEF M, facts, x
<1>11. CASE sup # None
  <2> DEFINE z == [closed[q] EXCEPT !.to = x.from]
  <2>1. q \in DOMAIN closed
    BY <1>3, <1>8, <1>11, TextFound DEF q
  <2>2. facts[q] = closed[q]
    BY <1>3, <1>5, <1>7, <2>1, Joined
  <2>3. z \in Fact
    <3>1. closed[q] \in Fact
      BY <1>3, <2>1, Rows
    <3> QED BY <1>2, <3>1 DEF Fact
  <2>4. more = [closed EXCEPT ![q] = z]
    BY <1>8, <1>11 DEF ClosedAt
  <2> HIDE DEF z
  <2>5. [closed EXCEPT ![q] = z] \o new = [facts EXCEPT ![q] = z]
    BY <1>3, <1>5, <1>7, <2>1, <2>3, ReplacedInFirst
  <2>6. FactsAfter(e, b, M, now) = Append([facts EXCEPT ![q] = z], x)
    BY <1>7, <1>9, <2>4, <2>5
  <2>7. [facts EXCEPT ![q] = z] = ClosedAt(facts, q, x.from)
    BY <2>2 DEF ClosedAt, z
  <2> QED BY <1>11, <2>6, <2>7 DEF M, facts, x, q
<1> QED BY <1>10, <1>11 DEF M, facts, x, q

\* A fact that was there keeps its place when others are added.
LEMMA PlaceStays ==
    ASSUME NEW e \in Entity, NEW b \in Seq(FactInput), NEW A \in SUBSET DOMAIN b, NEW now \in Times,
           NEW x \in Texts(e)
    PROVE  TextIndex(EntityAfter(e, b, A, now), x) = TextIndex(e, x)
<1> DEFINE o == EntityAfter(e, b, A, now)
           closed == CloseSuperseded(e, b, A, now)
           new == NewFacts(b, A, now)
           q == TextIndex(e, x)
           p == TextIndex(o, x)
<1>1. o \in Entity /\ x \in Texts(o)
  BY EntityAfterIs, TextsAfter
<1>2. o.facts = closed \o new
  <2>1. o.facts = FactsAfter(e, b, A, now)
    BY EntityAfterIs
  <2> QED BY <2>1 DEF FactsAfter
<1>3. /\ closed \in Seq(Fact) /\ DOMAIN closed = DOMAIN e.facts
      /\ \A k \in DOMAIN e.facts : closed[k].text = e.facts[k].text
      /\ new \in Seq(Fact)
  <2>1. /\ closed \in Seq(Fact) /\ DOMAIN closed = DOMAIN e.facts
        /\ \A k \in DOMAIN e.facts : closed[k].text = e.facts[k].text
    BY ClosingTyped
  <2>2. new \in Seq(Fact)
    BY NewFactsTyped
  <2> QED BY <2>1, <2>2
<1>4. q \in DOMAIN e.facts /\ e.facts[q].text = x
      /\ \A k \in DOMAIN e.facts : e.facts[k].text = x => q <= k
  BY TextFound
<1> HIDE DEF o, closed, new, q
<1>5. /\ p \in DOMAIN o.facts /\ o.facts[p].text = x
      /\ \A k \in DOMAIN o.facts : o.facts[k].text = x => p <= k
  BY <1>1, TextFound
<1> HIDE DEF p
<1>6. /\ DOMAIN e.facts \subseteq DOMAIN o.facts
      /\ \A k \in DOMAIN e.facts : o.facts[k].text = e.facts[k].text
  <2>1. DOMAIN closed \subseteq DOMAIN (closed \o new)
        /\ \A i \in DOMAIN closed : (closed \o new)[i] = closed[i]
    BY <1>3, Joined
  <2> QED BY <1>2, <1>3, <2>1
<1>7. p <= q
  BY <1>4, <1>5, <1>6
<1>8. /\ DOMAIN e.facts = 1..Len(e.facts) /\ Len(e.facts) \in Nat
      /\ DOMAIN o.facts = 1..Len(o.facts) /\ Len(o.facts) \in Nat
  BY <1>1, Rows DEF Entity
<1>9. p \in DOMAIN e.facts
  BY <1>4, <1>5, <1>7, <1>8
<1>10. q <= p
  BY <1>4, <1>5, <1>6, <1>9
<1>11. q = p
  BY <1>4, <1>5, <1>7, <1>8, <1>10
<1> QED BY <1>11 DEF o, p, q

\* What an input makes of the entity o.
Noted(o, input, now) ==
    LET x == NewFact(input, now)
        closed == IF input.supersedes = None THEN o.facts
                  ELSE [o.facts EXCEPT ![TextIndex(o, input.supersedes)].to = x.from]
    IN [o EXCEPT !.facts = Append(closed, x), !.updated = now]

\* What one more input makes of the entity.
LEMMA EntityFurther ==
    ASSUME NEW g \in Graph, NEW e \in Entity, e = EntityOf(g, e.name),
           NEW b \in Seq(FactInput), ObservationsOK(g, b), NEW now \in Times,
           NEW n \in AddedTo(g, b, e.name),
           NEW A \in SUBSET (1..(n - 1)), A \subseteq AddedTo(g, b, e.name)
    PROVE  /\ b[n].supersedes # None => b[n].supersedes \in Texts(EntityAfter(e, b, A, now))
           /\ EntityAfter(e, b, A \cup {n}, now) = Noted(EntityAfter(e, b, A, now), b[n], now)
<1> DEFINE M == A \cup {n}
           sup == b[n].supersedes
           q == TextIndex(e, sup)
           x == NewFact(b[n], now)
           o == EntityAfter(e, b, A, now)
           facts == FactsAfter(e, b, A, now)
           more == FactsAfter(e, b, M, now)
           closed == IF sup = None THEN o.facts
                     ELSE [o.facts EXCEPT ![TextIndex(o, sup)].to = x.from]
<1>1. A \in SUBSET DOMAIN b /\ M # {}
  BY DEF AddedTo
<1>2. o \in Entity /\ o.facts = facts
  BY <1>1, EntityAfterIs
<1>3. more = Append(IF sup = None THEN facts ELSE ClosedAt(facts, q, x.from), x)
  BY FactsFurther
<1>4. ASSUME sup # None PROVE sup \in Texts(e) /\ sup \in Texts(o) /\ TextIndex(o, sup) = q
  <2>1. sup \in Texts(e)
    <3>1. sup # None => sup \in Texts(e)
      BY ClosedFurther
    <3> QED BY <1>4, <3>1
  <2>2. sup \in Texts(o)
    BY <1>1, <2>1, TextsAfter
  <2>3. TextIndex(o, sup) = q
    BY <1>1, <2>1, PlaceStays
  <2> QED BY <2>1, <2>2, <2>3
<1>5. closed = IF sup = None THEN facts ELSE ClosedAt(facts, q, x.from)
  <2> HIDE DEF o, facts, x
  <2> QED BY <1>2, <1>4 DEF ClosedAt
<1>6. EntityAfter(e, b, M, now) = [e EXCEPT !.facts = more, !.updated = now]
  BY <1>1 DEF EntityAfter
<1>7. [o EXCEPT !.facts = more, !.updated = now] = [e EXCEPT !.facts = more, !.updated = now]
  <2> HIDE DEF more
  <2>1. CASE A = {}
    <3>1. o = e
      BY <2>1 DEF EntityAfter
    <3> HIDE DEF o
    <3> QED BY <3>1
  <2>2. CASE A # {}
    <3>1. o = [e EXCEPT !.facts = facts, !.updated = now]
      BY <2>2 DEF EntityAfter
    <3> HIDE DEF facts, o
    <3> QED BY <3>1 DEF Entity
  <2> QED BY <2>1, <2>2
<1>8. more = Append(closed, x)
  BY <1>3, <1>5
<1>9. EntityAfter(e, b, M, now) = [o EXCEPT !.facts = Append(closed, x), !.updated = now]
  <2> HIDE DEF closed, more, o, x
  <2> QED BY <1>6, <1>7, <1>8
<1>10. sup # None => sup \in Texts(o)
  BY <1>4
<1>11. Noted(o, b[n], now) = [o EXCEPT !.facts = Append(closed, x), !.updated = now]
  BY DEF Noted
<1> HIDE DEF closed, more, o, x, M
<1> QED BY <1>9, <1>10, <1>11 DEF o, M

\* After any number of inputs the rows have the names they had.
LEMMA AfterIs ==
    ASSUME NEW g \in Graph, NEW b \in Seq(FactInput), NEW now \in Times, NEW n,
           NEW name, HasEntity(g, name)
    PROVE  LET h == GraphAfter(g, b, now, n)
               k == EntityIndex(g, name)
           IN /\ EntityIndex(h, name) = k /\ k \in DOMAIN g.entities /\ First(g, k)
              /\ g.entities[k] = EntityOf(g, name) /\ g.entities[k].name = name
              /\ g.entities[k] \in Entity
              /\ h.entities[k] = EntityAfter(g.entities[k], b, AddedUpTo(g, b, name, n), now)
<1> DEFINE h == GraphAfter(g, b, now, n)
           k == EntityIndex(g, name)
<1>1. /\ k \in DOMAIN g.entities /\ g.entities[k] = EntityOf(g, name)
      /\ g.entities[k].name = name /\ g.entities[k] \in Entity
  BY Looking
<1>2. First(g, k)
  BY <1>1 DEF First
<1>3. ASSUME NEW i \in DOMAIN g.entities
      PROVE  h.entities[i].name = g.entities[i].name
  <2> DEFINE A == AddedUpTo(g, b, g.entities[i].name, n)
  <2>1. A \in SUBSET DOMAIN b /\ g.entities[i] \in Entity
    <3>1. A \in SUBSET DOMAIN b
      BY DEF AddedUpTo, AddedTo
    <3> QED BY <3>1, Rows DEF Graph
  <2> HIDE DEF A
  <2>2. EntityAfter(g.entities[i], b, A, now).name = g.entities[i].name
    BY <2>1, EntityAfterIs
  <2>3. h.entities[i] = IF First(g, i) THEN EntityAfter(g.entities[i], b, A, now) ELSE g.entities[i]
    BY DEF GraphAfter, RowsAfter, A
  <2> QED BY <2>2, <2>3
<1>4. DOMAIN h.entities = DOMAIN g.entities
  BY DEF GraphAfter, RowsAfter
<1>5. h.entities[k] = EntityAfter(g.entities[k], b, AddedUpTo(g, b, name, n), now)
  <2> HIDE DEF k
  <2> QED BY <1>1, <1>2 DEF GraphAfter, RowsAfter
<1> HIDE DEF h, k
<1>6. Named(h, name) = Named(g, name)
  BY <1>3, <1>4 DEF Named
<1>7. EntityIndex(h, name) = k
  BY <1>6 DEF EntityIndex, k
<1> QED BY <1>1, <1>2, <1>5, <1>7 DEF h, k

\* One input more changes the entity it is about, if it is added, and no other.
LEMMA GraphFurther ==
    ASSUME NEW g \in Graph, NEW b \in Seq(FactInput), NEW now \in Times, NEW n \in DOMAIN b,
           HasEntity(g, b[n].entity)
    PROVE  LET h == GraphAfter(g, b, now, n - 1)
               name == b[n].entity
               k == EntityIndex(g, name)
               A == AddedUpTo(g, b, name, n - 1)
           IN GraphAfter(g, b, now, n) =
                 IF n \in AddedTo(g, b, name)
                 THEN [entities |-> [h.entities EXCEPT
                                       ![k] = EntityAfter(g.entities[k], b, A \cup {n}, now)],
                       relations |-> h.relations]
                 ELSE h
<1> DEFINE name == b[n].entity
           k == EntityIndex(g, name)
           A == AddedUpTo(g, b, name, n - 1)
           old == RowsAfter(g, b, now, n - 1)
           rows == RowsAfter(g, b, now, n)
           o == EntityAfter(g.entities[k], b, A \cup {n}, now)
<1>1. /\ k \in DOMAIN g.entities /\ First(g, k)
      /\ g.entities[k] = EntityOf(g, name) /\ g.entities[k].name = name
  BY AfterIs
<1>2. /\ DOMAIN old = DOMAIN g.entities /\ DOMAIN rows = DOMAIN g.entities
      /\ rows = [i \in DOMAIN g.entities |-> rows[i]]
      /\ old = [i \in DOMAIN g.entities |-> old[i]]
  BY DEF RowsAfter
<1>3. \A i \in DOMAIN g.entities :
         /\ rows[i] = IF First(g, i)
                      THEN EntityAfter(g.entities[i], b, AddedUpTo(g, b, g.entities[i].name, n), now)
                      ELSE g.entities[i]
         /\ old[i] = IF First(g, i)
                     THEN EntityAfter(g.entities[i], b, AddedUpTo(g, b, g.entities[i].name, n - 1), now)
                     ELSE g.entities[i]
  BY DEF RowsAfter
<1>4. \A other : other # name \/ n \notin AddedTo(g, b, name) =>
         AddedUpTo(g, b, other, n) = AddedUpTo(g, b, other, n - 1)
  <2> TAKE other
  <2> HAVE other # name \/ n \notin AddedTo(g, b, name)
  <2>1. n \notin AddedTo(g, b, other)
    BY DEF AddedTo
  <2> QED BY <2>1, AddedFurther
<1>5. \A i \in DOMAIN g.entities : First(g, i) /\ g.entities[i].name = name => i = k
  BY DEF First
<1> HIDE DEF rows, old, k
<1>6. ASSUME n \notin AddedTo(g, b, name) PROVE rows = old
  <2>1. \A i \in DOMAIN g.entities : rows[i] = old[i]
    BY <1>3, <1>4, <1>6
  <2> QED BY <1>2, <2>1
<1>7. ASSUME n \in AddedTo(g, b, name) PROVE rows = [old EXCEPT ![k] = o]
  <2>1. AddedUpTo(g, b, name, n) = A \cup {n}
    BY <1>7, AddedFurther
  <2>2. rows[k] = o
    BY <1>1, <1>3, <2>1
  <2>3. \A i \in DOMAIN g.entities : i # k => rows[i] = old[i]
    BY <1>3, <1>4, <1>5
  <2> HIDE DEF o
  <2> QED BY <1>1, <1>2, <2>2, <2>3
<1> HIDE DEF o, name
<1> DEFINE h == GraphAfter(g, b, now, n - 1)
<1>8. h = [entities |-> old, relations |-> g.relations]
      /\ GraphAfter(g, b, now, n) = [entities |-> rows, relations |-> g.relations]
  BY DEF GraphAfter, rows, old
<1> HIDE DEF h
<1>9. h.entities = old /\ h.relations = g.relations
  BY <1>8
<1>10. GraphAfter(g, b, now, n) =
          IF n \in AddedTo(g, b, name)
          THEN [entities |-> [h.entities EXCEPT ![k] = o], relations |-> h.relations]
          ELSE h
  BY <1>6, <1>7, <1>8, <1>9
<1> QED BY <1>10 DEF h, k, o, name

\* Where the applying loop is after n inputs.
Applying(g, b, now, n) == [graph |-> GraphAfter(g, b, now, n), panicked |-> FALSE]

\* Each round does with its input what the code does.
LEMMA ApplyingGoesOn ==
    ASSUME NEW g \in Graph, NEW b \in Seq(FactInput), ObservationsOK(g, b), NEW now \in Times,
           NEW n \in DOMAIN b
    PROVE  ApplyInput(Applying(g, b, now, n - 1), b[n], now) = Applying(g, b, now, n)
<1> DEFINE name == b[n].entity
           text == b[n].text
           sup == b[n].supersedes
           s == Applying(g, b, now, n - 1)
           h == GraphAfter(g, b, now, n - 1)
           k == EntityIndex(g, name)
           e == g.entities[k]
           A == AddedUpTo(g, b, name, n - 1)
           o == EntityAfter(e, b, A, now)
           observed == Noted(o, b[n], now)
           in == AddedTo(g, b, name)
<1>1. HasEntity(g, name)
  BY DEF ObservationsOK
<1>2. /\ EntityIndex(h, name) = k /\ k \in DOMAIN g.entities /\ First(g, k)
      /\ e = EntityOf(g, name) /\ e.name = name /\ e \in Entity /\ h.entities[k] = o
  BY <1>1, AfterIs
<1>3. /\ A \in SUBSET (1..(n - 1)) /\ A \in SUBSET DOMAIN b /\ A \subseteq in
  <2>1. A \in SUBSET (1..(n - 1)) /\ A \in SUBSET DOMAIN b
    BY AddedFurther
  <2>2. A \subseteq in
    BY DEF AddedUpTo
  <2> QED BY <2>1, <2>2
<1>4. text \in Texts(o) <=> n \notin in
  <2>1. Texts(o) = Texts(e) \cup {b[a].text : a \in A}
    <3> HIDE DEF A, e
    <3> QED BY <1>2, <1>3, TextsAfter
  <2>2. text \notin Texts(EntityOf(g, name)) \cup {b[a].text : a \in A} <=> n \in in
    BY AddedWhenNew
  <2> HIDE DEF o, e, A, in, text, name
  <2> QED BY <1>2, <2>1, <2>2
<1>5. ASSUME n \in in
      PROVE  /\ sup # None => sup \in Texts(o)
             /\ EntityAfter(e, b, A \cup {n}, now) = observed
  <2> HIDE DEF A, e
  <2>1. e = EntityOf(g, e.name) /\ n \in AddedTo(g, b, e.name) /\ A \subseteq AddedTo(g, b, e.name)
    BY <1>2, <1>3, <1>5
  <2> QED BY <1>2, <1>3, <2>1, EntityFurther
<1>6. GraphAfter(g, b, now, n) =
         IF n \in in
         THEN [entities |-> [h.entities EXCEPT ![k] = EntityAfter(e, b, A \cup {n}, now)],
               relations |-> h.relations]
         ELSE h
  BY <1>1, GraphFurther
<1>7. s = [graph |-> h, panicked |-> FALSE] /\ s.graph = h /\ ~s.panicked
      /\ Applying(g, b, now, n) = [graph |-> GraphAfter(g, b, now, n), panicked |-> FALSE]
  BY DEF Applying
<1> HIDE DEF s, h, k
<1>8. ApplyInput(s, b[n], now) =
         IF text \in Texts(o) THEN s
         ELSE IF sup # None /\ sup \notin Texts(o) THEN [s EXCEPT !.panicked = TRUE]
         ELSE [s EXCEPT !.graph.entities[k] = observed]
  <2>1. ApplyInput(s, b[n], now) =
           LET e2 == s.graph.entities[EntityIndex(s.graph, name)]
           IN IF s.panicked \/ text \in Texts(e2) THEN s
              ELSE IF sup # None /\ sup \notin Texts(e2) THEN [s EXCEPT !.panicked = TRUE]
              ELSE [s EXCEPT !.graph.entities[EntityIndex(s.graph, name)] = Noted(e2, b[n], now)]
    BY DEF ApplyInput, Noted
  <2>2. s.graph.entities[EntityIndex(s.graph, name)] = o /\ EntityIndex(s.graph, name) = k
    BY <1>2, <1>7
  <2> HIDE DEF o, name
  <2> QED BY <1>7, <2>1, <2>2
<1> HIDE DEF observed, o, text, sup, in
<1>9. CASE n \notin in
  BY <1>4, <1>6, <1>7, <1>8, <1>9 DEF s
<1>10. CASE n \in in
  <2> DEFINE more == [h.entities EXCEPT ![k] = observed]
  <2>1. ApplyInput(s, b[n], now) = [s EXCEPT !.graph.entities[k] = observed]
    BY <1>4, <1>5, <1>8, <1>10
  <2>2. h = [entities |-> h.entities, relations |-> h.relations]
    BY DEF h, GraphAfter
  <2>3. \A p : [[graph |-> h, panicked |-> p] EXCEPT !.graph.entities[k] = observed]
               = [graph |-> [entities |-> more, relations |-> h.relations], panicked |-> p]
    BY <2>2
  <2>4. [s EXCEPT !.graph.entities[k] = observed]
        = [graph |-> [entities |-> more, relations |-> h.relations], panicked |-> FALSE]
    BY <1>7, <2>3, Zenon
  <2>5. GraphAfter(g, b, now, n) = [entities |-> more, relations |-> h.relations]
    BY <1>5, <1>6, <1>10
  <2> QED BY <1>7, <2>1, <2>4, <2>5 DEF s
<1> QED BY <1>9, <1>10

\* The applying loop begins with the graph there is, and ends with that of
\* AddObservations.
LEMMA GraphAfterNone ==
    ASSUME NEW g \in Graph, NEW b \in Seq(FactInput), NEW now \in Times
    PROVE  GraphAfter(g, b, now, 0) = g
<1>1. \A name : AddedUpTo(g, b, name, 0) = {}
  <2>1. \A name : \A a \in AddedTo(g, b, name) : a \in 1..Len(b)
    BY Rows DEF AddedTo
  <2>2. \A a \in 1..Len(b) : ~(a <= 0)
    BY Rows
  <2> QED BY <2>1, <2>2 DEF AddedUpTo
<1>2. RowsAfter(g, b, now, 0) = [i \in DOMAIN g.entities |-> g.entities[i]]
  BY <1>1 DEF RowsAfter, EntityAfter
<1>3. g.entities \in Seq(Entity) /\ g = [entities |-> g.entities, relations |-> g.relations]
  BY DEF Graph
<1>4. g.entities = [i \in DOMAIN g.entities |-> g.entities[i]]
  BY <1>3
<1> QED BY <1>2, <1>3, <1>4 DEF GraphAfter

\* When the whole batch is applied, the graph is the one of the closed form.
LEMMA GraphAfterAll ==
    ASSUME NEW g \in Graph, NEW b \in Seq(FactInput), NEW now \in Times
    PROVE  GraphAfter(g, b, now, Len(b)) = AddObservations(g, b, now)
<1> DEFINE h == AddObservations(g, b, now)
<1>1. /\ h \in Graph /\ h.relations = g.relations /\ SameNames(g, h)
      /\ \A i \in DOMAIN g.entities :
            h.entities[i] = IF First(g, i) THEN Observed(g, g.entities[i], b, now)
                            ELSE g.entities[i]
  BY AddObservationsDoes
<1> HIDE DEF h
<1>2. \A name : AddedUpTo(g, b, name, Len(b)) = AddedTo(g, b, name)
  <2>1. \A name : \A a \in AddedTo(g, b, name) : a \in 1..Len(b)
    BY Rows DEF AddedTo
  <2>2. \A a \in 1..Len(b) : a <= Len(b)
    BY Rows
  <2> QED BY <2>1, <2>2 DEF AddedUpTo
<1>3. \A e : Observed(g, e, b, now) = EntityAfter(e, b, AddedTo(g, b, e.name), now)
  <2> TAKE e
  <2> DEFINE added == AddedTo(g, b, e.name)
             inputs == Retain(b, added)
  <2>1. [k \in DOMAIN inputs |-> NewFact(inputs[k], now)] = NewFacts(b, added, now)
    <3>1. /\ DOMAIN inputs = 1..Cardinality(added)
          /\ \A k \in 1..Cardinality(added) : inputs[k] = b[Nth(added, k)]
      BY DEF Retain
    <3> HIDE DEF inputs, added
    <3> QED BY <3>1 DEF NewFacts
  <2>2. Observed(g, e, b, now) =
           IF added = {} THEN e
           ELSE [e EXCEPT !.facts = CloseSuperseded(e, b, added, now)
                                    \o [k \in DOMAIN inputs |-> NewFact(inputs[k], now)],
                          !.updated = now]
    BY DEF Observed
  <2> HIDE DEF added, inputs
  <2>3. Observed(g, e, b, now) = EntityAfter(e, b, added, now)
    BY <2>1, <2>2 DEF EntityAfter, FactsAfter
  <2> QED BY <2>3 DEF added
<1>4. DOMAIN h.entities = DOMAIN g.entities
  BY <1>1 DEF SameNames
<1>5. h.entities \in Seq(Entity) /\ h = [entities |-> h.entities, relations |-> h.relations]
  BY <1>1 DEF Graph
<1>6. h.entities = [i \in DOMAIN g.entities |-> h.entities[i]]
  BY <1>4, <1>5
<1>7. \A i \in DOMAIN g.entities : RowsAfter(g, b, now, Len(b))[i] = h.entities[i]
  BY <1>1, <1>2, <1>3 DEF RowsAfter
<1>8. RowsAfter(g, b, now, Len(b)) = [i \in DOMAIN g.entities |-> RowsAfter(g, b, now, Len(b))[i]]
  BY DEF RowsAfter
<1>9. RowsAfter(g, b, now, Len(b)) = h.entities
  BY <1>6, <1>7, <1>8
<1>10. GraphAfter(g, b, now, Len(b)) = h
  BY <1>1, <1>5, <1>9 DEF GraphAfter
<1> QED BY <1>10 DEF h

\* The applying loop leaves what AddObservations says, and never panics.
LEMMA LoopAddIs ==
    ASSUME NEW g \in Graph, NEW b \in Seq(FactInput), ObservationsOK(g, b), NEW now \in Times
    PROVE  LoopAdd(g, b, now) = [graph |-> AddObservations(g, b, now), panicked |-> FALSE]
<1> DEFINE base == [graph |-> g, panicked |-> FALSE]
           Rounds(f) == f = [n \in 0..Len(b) |->
                               IF n = 0 THEN base ELSE ApplyInput(f[n - 1], b[n], now)]
           f == CHOOSE h : Rounds(h)
           e == [n \in 0..Len(b) |-> Applying(g, b, now, n)]
<1>1. Len(b) \in Nat /\ DOMAIN b = 1..Len(b)
  BY Rows
<1>2. LoopAdd(g, b, now) = f[Len(b)]
  BY DEF LoopAdd
<1>3. Applying(g, b, now, 0) = base
  BY GraphAfterNone DEF Applying
<1> HIDE DEF base
<1>4. \A n \in 0..Len(b) : e[n] = IF n = 0 THEN base ELSE ApplyInput(e[n - 1], b[n], now)
  <2> TAKE n \in 0..Len(b)
  <2>1. CASE n = 0
    BY <2>1, <1>3
  <2>2. CASE n # 0
    <3>1. n \in DOMAIN b /\ n - 1 \in 0..Len(b)
      BY <1>1, <2>2
    <3>2. ApplyInput(Applying(g, b, now, n - 1), b[n], now) = Applying(g, b, now, n)
      BY <3>1, ApplyingGoesOn
    <3> QED BY <2>2, <3>1, <3>2
  <2> QED BY <2>1, <2>2
<1>5. Rounds(e)
  <2>1. e = [n \in 0..Len(b) |-> e[n]]
    OBVIOUS
  <2> HIDE DEF e
  <2> QED BY <1>4, <2>1
<1>6. Rounds(f)
  <2> HIDE DEF Rounds, e
  <2> QED BY <1>5
<1>7. \A h : Rounds(h) => \A n \in 0..Len(b) :
                h[n] = IF n = 0 THEN base ELSE ApplyInput(h[n - 1], b[n], now)
  OBVIOUS
<1>8. /\ f[0] = e[0]
      /\ \A n \in 1..Len(b) : f[n - 1] = e[n - 1] => f[n] = e[n]
  <2> HIDE DEF f, e, Rounds
  <2> QED BY <1>1, <1>5, <1>6, <1>7
<1>9. f[Len(b)] = e[Len(b)]
  <2> HIDE DEF f, e
  <2> QED BY <1>1, <1>8, SameRounds
<1>10. f[Len(b)] = Applying(g, b, now, Len(b))
  <2> HIDE DEF f
  <2> QED BY <1>1, <1>9
<1> HIDE DEF f, e
<1> QED BY <1>2, <1>10, GraphAfterAll DEF Applying

\* In every graph that is reached, whatever the batch, add_observations accepts
\* what its validation accepts, and what was accepted is applied to the end: no
\* input finds its target gone, which would be a panic under the lock, and what
\* the loop leaves is what AddObservations says.
THEOREM WhatIsValidatedApplies == Spec => []AddObservationsMatchesLoop
<1>1. TypeOK => AddObservationsMatchesLoop
  <2> SUFFICES ASSUME TypeOK, NEW b \in ObservationBatches
               PROVE  /\ LoopValid(graph, b) = ObservationsOK(graph, b)
                      /\ ObservationsOK(graph, b) =>
                            LoopAdd(graph, b, clock) =
                               [graph |-> AddObservations(graph, b, clock), panicked |-> FALSE]
    BY DEF AddObservationsMatchesLoop
  <2>1. graph \in Graph /\ clock \in Times /\ b \in Seq(FactInput)
    BY ArgumentsTyped, GraphAssumption DEF TypeOK
  <2>2. LoopValid(graph, b) = ObservationsOK(graph, b)
    BY <2>1, LoopValidIs
  <2>3. ObservationsOK(graph, b) =>
           LoopAdd(graph, b, clock) =
              [graph |-> AddObservations(graph, b, clock), panicked |-> FALSE]
    BY <2>1, LoopAddIs
  <2> QED BY <2>2, <2>3
<1> QED BY <1>1, GraphTyped, PTL
=============================================================================
