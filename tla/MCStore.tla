------------------------------- MODULE MCStore -----------------------------
(***************************************************************************)
(* Store for TLC: two files, two threads, three mutations (two of them   *)
(* for one file), and a read of each file or, with few requests, of one.   *)
(***************************************************************************)
EXTENDS Store, FiniteSets, TLC

CONSTANTS f1, f2, p1, p2, m1, m2, m3, r1, r2, t1, t2

MCFiles == {f1, f2}
MCPaths == {p1, p2}
MCMutations == {m1, m2, m3}
MCRequests == MCMutations \cup {r1, r2}
MCFewRequests == MCMutations \cup {r1}
MCFileOf == [o \in Requests |-> IF o \in {m3, r2} THEN f2 ELSE f1]
MCPathOf == f1 :> p1 @@ f2 :> p2
MCAliasedPathOf == f1 :> p1 @@ f2 :> p1
MCThreads == {t1, t2}
ThreadSymmetry == Permutations(Threads)
=============================================================================
