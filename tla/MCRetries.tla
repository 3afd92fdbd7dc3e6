------------------------------ MODULE MCRetries ------------------------------
(***************************************************************************)
(* Three clients that create, relate and observe one entity: with the same *)
(* name but other facts, with the same text but another predecessor.       *)
(***************************************************************************)
EXTENDS Retries, TLC

CONSTANTS a, x, y, z, c1, c2, c3

ThreeClients == {c1, c2, c3}
ClientSymmetry == Permutations(Clients)

FactWith(text) == [text |-> text, from |-> 1, to |-> None, recorded |-> 1]
EntityWith(facts) ==
    [name |-> a, type |-> NoType, facts |-> facts, created |-> 1, updated |-> 1]
Create(facts) == [tool |-> "create_entities", batch |-> <<EntityWith(facts)>>]
Relate ==
    [tool |-> "create_relations",
     batch |-> <<[from |-> a, to |-> a, type |-> NoType, created |-> None, updated |-> None]>>]
Observe(text, target) ==
    [tool |-> "add_observations",
     batch |-> <<[entity |-> a, text |-> text, from |-> None, to |-> None,
                  supersedes |-> target]>>]

NoTypes == << >>
OneName == {a}
Wordings == {x, y, z}

NoGraph == [entities |-> << >>, relations |-> << >>]
AllCalls ==
    {Create(<<FactWith(x)>>), Create(<<FactWith(y)>>), Relate,
     Observe(y, None), Observe(y, x), Observe(z, x), Observe(z, y)}
=============================================================================
