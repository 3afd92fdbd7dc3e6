------------------------------ MODULE GraphOps ------------------------------
(***************************************************************************)
(* The operations of the knowledge graph, src/src/graph.rs, as operators   *)
(* from a graph to a graph.                                                *)
(*                                                                         *)
(*   graph    [entities, relations], two sequences in file order           *)
(*   entity   [name, type, facts, created, updated], facts a sequence      *)
(*   fact     [text, from, to], to = None while the fact is active         *)
(*   relation [from, to, type, created, updated]                           *)
(*                                                                         *)
(* Names, texts and types are values, times are numbers in the order of    *)
(* the ISO strings, None is a JSON null.  The loops of the code are given  *)
(* in closed form; GraphLoops has them loop by loop.                       *)
(***************************************************************************)
EXTENDS Integers, Sequences, FiniteSetsExt

CONSTANTS
    None,     \* Option::None
    NoType,   \* the empty entity type
    Lower,    \* str::to_lowercase, a function on types
    Title,    \* py_title, a function on types
    Aliases   \* entity_types.json, a function from some lowercased types

\* The members of s at the positions K, and those that pass a test, in order:
\* Vec::retain, Iterator::filter.
Nth(K, n) == CHOOSE i \in K : Cardinality({j \in K : j <= i}) = n
Retain(s, K) == [n \in 1..Cardinality(K) |-> s[Nth(K, n)]]
Where(s, Test(_)) == Retain(s, {i \in DOMAIN s : Test(s[i])})

-----------------------------------------------------------------------------
(* Looking things up                                                       *)

Named(g, n) == {i \in DOMAIN g.entities : g.entities[i].name = n}
HasEntity(g, n) == Named(g, n) # {}

\* Of several entities with one name every operation works on the first.
EntityIndex(g, n) == Min(Named(g, n))
EntityOf(g, n) == g.entities[EntityIndex(g, n)]

Texts(e) == {e.facts[i].text : i \in DOMAIN e.facts}
TextIndex(e, x) == Min({i \in DOMAIN e.facts : e.facts[i].text = x})
FactOf(e, x) == e.facts[TextIndex(e, x)]

IsActive(f) == f.to = None

Key(r) == <<r.from, r.to, r.type>>
Keys(g) == {Key(g.relations[i]) : i \in DOMAIN g.relations}

\* Mutant of NormalizeType: aliases are matched on the type as written.
NormalizeAsWritten(ty) ==
    IF ty = NoType THEN NoType
    ELSE IF ty \in DOMAIN Aliases THEN Aliases[ty]
    ELSE Title[ty]

NormalizeType(ty) ==
    IF ty = NoType THEN NoType
    ELSE IF Lower[ty] \in DOMAIN Aliases THEN Aliases[Lower[ty]]
    ELSE Title[ty]

-----------------------------------------------------------------------------
(* Creating.  A batch is compared with the graph, not with itself.         *)

CreateEntities(g, batch, now) ==
    LET new == Retain(batch, {i \in DOMAIN batch : ~HasEntity(g, batch[i].name)})
    IN [g EXCEPT !.entities = @ \o
          [i \in DOMAIN new |->
              [name |-> new[i].name, type |-> NormalizeType(new[i].type),
               facts |-> new[i].facts, created |-> now, updated |-> now]]]

CreateRelations(g, batch, now) ==
    LET new == Retain(batch, {i \in DOMAIN batch : Key(batch[i]) \notin Keys(g)})
    IN [g EXCEPT !.relations = @ \o
          [i \in DOMAIN new |->
              [new[i] EXCEPT !.created = now, !.updated = now]]]

-----------------------------------------------------------------------------
(* Observations.  An input is [entity, text, from, to, supersedes]; from,  *)
(* to and supersedes may be None.                                          *)

\* Mutant of Supersedes: duplicates are not skipped.
SupersedesAlways(g, batch) == {i \in DOMAIN batch : batch[i].supersedes # None}

\* The inputs whose supersedes is honoured: the others are skipped as
\* duplicates of a fact the entity already has.
Supersedes(g, batch) ==
    {i \in DOMAIN batch :
        /\ batch[i].supersedes # None
        /\ batch[i].text \notin Texts(EntityOf(g, batch[i].entity))}

\* Mutant of ObservationsOK: closing one fact twice in a call is not noticed.
ObservationsOKTwice(g, batch) ==
    /\ \A i \in DOMAIN batch : HasEntity(g, batch[i].entity)
    /\ \A i \in Supersedes(g, batch) :
          LET e == EntityOf(g, batch[i].entity)
          IN /\ batch[i].supersedes \in Texts(e)
             /\ IsActive(FactOf(e, batch[i].supersedes))

ObservationsOK(g, batch) ==
    /\ \A i \in DOMAIN batch : HasEntity(g, batch[i].entity)
    /\ \A i \in Supersedes(g, batch) :
          LET e == EntityOf(g, batch[i].entity)
          IN /\ batch[i].supersedes \in Texts(e)
             /\ IsActive(FactOf(e, batch[i].supersedes))
    /\ \A i, j \in Supersedes(g, batch) :
          /\ batch[i].entity = batch[j].entity
          /\ batch[i].supersedes = batch[j].supersedes
          => i = j

\* Mutant of AddedTo: the facts the entity already has are not looked at.
AddedToAnyway(g, batch, n) ==
    {i \in DOMAIN batch :
        /\ batch[i].entity = n
        /\ \A j \in 1..(i - 1) :
              batch[j].entity = n => batch[j].text # batch[i].text}

\* The inputs that are added to the entity called n: those whose text neither
\* it nor an earlier input for it has.
AddedTo(g, batch, n) ==
    {i \in DOMAIN batch :
        /\ batch[i].entity = n
        /\ batch[i].text \notin Texts(EntityOf(g, n))
        /\ \A j \in 1..(i - 1) :
              batch[j].entity = n => batch[j].text # batch[i].text}

\* Mutant of NewFact: a fact that is given no beginning has none.
NewFactUndated(input, now) ==
    [text |-> input.text, from |-> input.from, to |-> input.to, recorded |-> now]

\* Mutant of NewFact: the text of the superseded fact is stored.
NewFactOfTarget(input, now) ==
    [text |-> input.supersedes,
     from |-> IF input.from = None THEN now ELSE input.from,
     to |-> input.to, recorded |-> now]

NewFact(input, now) ==
    [text |-> input.text,
     from |-> IF input.from = None THEN now ELSE input.from,
     to |-> input.to, recorded |-> now]

\* Mutant of CloseSuperseded: facts are closed at the time of the call.
CloseAtNow(e, batch, added, now) ==
    [k \in DOMAIN e.facts |->
        IF \E i \in added : /\ batch[i].supersedes = e.facts[k].text
                            /\ TextIndex(e, e.facts[k].text) = k
        THEN [e.facts[k] EXCEPT !.to = now] ELSE e.facts[k]]

\* The facts of e once the added inputs that supersede one have closed it.
CloseSuperseded(e, batch, added, now) ==
    [k \in DOMAIN e.facts |->
        LET by == {i \in added : /\ batch[i].supersedes = e.facts[k].text
                                 /\ TextIndex(e, e.facts[k].text) = k}
        IN IF by = {} THEN e.facts[k]
           ELSE [e.facts[k] EXCEPT !.to = NewFact(batch[Min(by)], now).from]]

\* Mutant of Observed: supersedes is accepted and ignored.
ObservedNoClose(g, e, batch, now) ==
    LET inputs == Retain(batch, AddedTo(g, batch, e.name))
    IN IF inputs = << >> THEN e
       ELSE [e EXCEPT !.facts = @ \o [k \in DOMAIN inputs |-> NewFact(inputs[k], now)],
                      !.updated = now]

Observed(g, e, batch, now) ==
    LET added == AddedTo(g, batch, e.name)
        inputs == Retain(batch, added)
    IN IF added = {} THEN e
       ELSE [e EXCEPT
               !.facts = CloseSuperseded(e, batch, added, now) \o
                         [k \in DOMAIN inputs |-> NewFact(inputs[k], now)],
               !.updated = now]

AddObservations(g, batch, now) ==
    [g EXCEPT !.entities =
        [i \in DOMAIN @ |->
            IF i = EntityIndex(g, @[i].name)
            THEN Observed(g, @[i], batch, now) ELSE @[i]]]

\* Replaces the text of the first fact with text x; None if there is none.
CanUpdate(g, n, x) == HasEntity(g, n) /\ x \in Texts(EntityOf(g, n))

UpdateObservation(g, n, x, y, now) ==
    LET k == EntityIndex(g, n) IN
    [g EXCEPT !.entities[k].facts[TextIndex(EntityOf(g, n), x)].text = y,
              !.entities[k].updated = now]

\* pairs is a set of <<entity, text>>.
DeleteObservations(g, pairs, now) ==
    [g EXCEPT !.entities =
        [i \in DOMAIN @ |->
            LET e == @[i]
                kept == {k \in DOMAIN e.facts : <<e.name, e.facts[k].text>> \notin pairs}
            IN IF i # EntityIndex(g, e.name) \/ kept = DOMAIN e.facts THEN e
               ELSE [e EXCEPT !.facts = Retain(e.facts, kept), !.updated = now]]]

-----------------------------------------------------------------------------
(* Deleting                                                                *)

\* Mutant of DeleteEntities: the deletion does not cascade.
DeleteEntitiesOnly(g, names) ==
    [g EXCEPT !.entities =
        Retain(@, {i \in DOMAIN @ : @[i].name \notin names})]

DeleteEntities(g, names) ==
    [entities |-> Retain(g.entities,
        {i \in DOMAIN g.entities : g.entities[i].name \notin names}),
     relations |-> Retain(g.relations,
        {i \in DOMAIN g.relations : {g.relations[i].from, g.relations[i].to} \cap names = {}})]

DeleteRelations(g, keys) ==
    [g EXCEPT !.relations = Retain(@, {i \in DOMAIN @ : Key(@[i]) \notin keys})]

-----------------------------------------------------------------------------
(* Renaming and merging                                                    *)

Touches(r, n) == n \in {r.from, r.to}

\* Mutant of Repoint: both endpoints are tested by the first.
RepointByFrom(r, n, to) ==
    [r EXCEPT !.from = IF @ = n THEN to ELSE @, !.to = IF r.from = n THEN to ELSE @]

Repoint(r, n, to) ==
    [r EXCEPT !.from = IF @ = n THEN to ELSE @, !.to = IF @ = n THEN to ELSE @]

\* Mutant of CanRename: the new name may be taken.
CanRenameOver(g, n, to) == n # to /\ HasEntity(g, n)

CanRename(g, n, to) == n # to /\ HasEntity(g, n) /\ ~HasEntity(g, to)

\* Mutant of RenameEntity: the relations it rewrites keep their stamp.
RenameUnstamped(g, n, to, now) ==
    [entities |-> [g.entities EXCEPT ![EntityIndex(g, n)].name = to,
                                     ![EntityIndex(g, n)].updated = now],
     relations |-> [i \in DOMAIN g.relations |-> Repoint(g.relations[i], n, to)]]

RenameEntity(g, n, to, now) ==
    [entities |-> [g.entities EXCEPT ![EntityIndex(g, n)].name = to,
                                     ![EntityIndex(g, n)].updated = now],
     relations |-> [i \in DOMAIN g.relations |->
        IF Touches(g.relations[i], n)
        THEN [Repoint(g.relations[i], n, to) EXCEPT !.updated = now]
        ELSE g.relations[i]]]

CanMerge(g, source, target) ==
    source # target /\ HasEntity(g, source) /\ HasEntity(g, target)

\* Of two creation times the earliest that is not null.
Earliest(a, b) == IF a = None THEN b ELSE IF b = None THEN a ELSE Min({a, b})

\* Mutant of Dedupe: the first row of a key is kept, however recent.
DedupeFirst(rs) ==
    Retain(rs, {i \in DOMAIN rs : \A j \in 1..(i - 1) : Key(rs[j]) # Key(rs[i])})

\* Mutant of Dedupe: rows are re-pointed and no more.
DedupeNone(rs) == rs

\* One row for each key, at the place of the key's first row: the first of its
\* rows that has the earliest creation time, or the first row if none has one.
Dedupe(rs) ==
    LET rows(i) == {j \in DOMAIN rs : Key(rs[j]) = Key(rs[i])}
        dated(i) == {j \in rows(i) : rs[j].created # None}
        oldest(i) == {j \in dated(i) :
                        \A k \in dated(i) : rs[j].created <= rs[k].created}
        heads == {i \in DOMAIN rs : i = Min(rows(i))}
        survivor == [i \in DOMAIN rs |->
                        IF dated(i) = {} THEN rs[i] ELSE rs[Min(oldest(i))]]
    IN Retain(survivor, heads)

\* Mutant of Absorb: the source's facts are dropped with it.
AbsorbNothing(s, t, now) ==
    [t EXCEPT !.created = Earliest(s.created, t.created), !.updated = now]

Absorb(s, t, now) ==
    [t EXCEPT !.facts = @ \o Retain(s.facts,
                  {k \in DOMAIN s.facts : s.facts[k].text \notin Texts(t)}),
              !.created = Earliest(s.created, t.created),
              !.updated = now]

\* Mutant of MergeEntities: self-loops are dropped before re-pointing.
MergeLoopsFirst(g, source, target, now) ==
    LET merged == [g.entities EXCEPT ![EntityIndex(g, target)] =
                      Absorb(EntityOf(g, source), @, now)]
        noLoops == Retain(g.relations,
                      {i \in DOMAIN g.relations : g.relations[i].from # g.relations[i].to})
    IN [entities |-> Retain(merged, {i \in DOMAIN merged : merged[i].name # source}),
        relations |-> Dedupe([i \in DOMAIN noLoops |-> Repoint(noLoops[i], source, target)])]

MergeEntities(g, source, target, now) ==
    LET merged == [g.entities EXCEPT ![EntityIndex(g, target)] =
                      Absorb(EntityOf(g, source), @, now)]
        repointed == [i \in DOMAIN g.relations |->
                         Repoint(g.relations[i], source, target)]
        noLoops == Retain(repointed,
                      {i \in DOMAIN repointed : repointed[i].from # repointed[i].to})
    IN [entities |-> Retain(merged, {i \in DOMAIN merged : merged[i].name # source}),
        relations |-> Dedupe(noLoops)]

-----------------------------------------------------------------------------
(* Types                                                                   *)

Normalized(e, now) ==
    IF NormalizeType(e.type) = e.type THEN e
    ELSE [e EXCEPT !.type = NormalizeType(e.type), !.updated = now]

NormalizeAll(g, now) ==
    [g EXCEPT !.entities = [i \in DOMAIN @ |-> Normalized(@[i], now)]]
=============================================================================
