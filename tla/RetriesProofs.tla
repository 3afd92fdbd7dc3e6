---------------------------- MODULE RetriesProofs ----------------------------
(***************************************************************************)
(* What an acknowledgement is worth to clients that repeat their calls,    *)
(* proved for every number of clients, every call they may make and any    *)
(* number of failed saves, time-outs, late copies and restarts.            *)
(***************************************************************************)
EXTENDS Retries, GraphLemmas

\* g has all that the call o asked for.
Settled(g, o) ==
    /\ o.tool = "create_entities" => \A k \in DOMAIN o.batch : HasEntity(g, o.batch[k].name)
    /\ o.tool = "create_relations" => \A k \in DOMAIN o.batch : Key(o.batch[k]) \in Keys(g)
    /\ o.tool = "add_observations" => Holds(g, o.batch)

\* Of each acknowledged call, all is in g.
AllSettled(g) == \A c \in Clients : phase[c] = "ok" => Settled(g, call[c])

Typed ==
    /\ call \in [Clients -> Call]
    /\ phase \in [Clients -> {"new", "waiting", "retry", "ok", "refused"}]
    /\ memory \in Graph /\ disk \in Graph

SettledInv == Typed /\ AllSettled(memory) /\ AllSettled(disk)

-----------------------------------------------------------------------------
(* Calls                                                                   *)

\* A call is of one of three kinds.
LEMMA CallKinds ==
    ASSUME NEW o \in Call
    PROVE  \/ o.tool = "create_entities" /\ o.batch \in Seq(Entity)
           \/ o.tool = "create_relations" /\ o.batch \in Seq(Relation)
           \/ o.tool = "add_observations" /\ o.batch \in Seq(FactInput)
BY DEF Call

\* What each kind leaves.
LEMMA ResultKinds ==
    ASSUME NEW g, NEW o
    PROVE  /\ o.tool = "create_entities" => Result(g, o) = CreateEntities(g, o.batch, Now)
           /\ o.tool = "create_relations" => Result(g, o) = CreateRelations(g, o.batch, Now)
           /\ o.tool = "add_observations" => Result(g, o) = AddObservations(g, o.batch, Now)
BY DEF Result

\* What creations leave is a graph with all they asked for.
LEMMA CreationsMade ==
    ASSUME NEW g \in Graph
    PROVE  /\ \A b \in Seq(Entity) :
                 /\ CreateEntities(g, b, Now) \in Graph
                 /\ \A k \in DOMAIN b : HasEntity(CreateEntities(g, b, Now), b[k].name)
           /\ \A b \in Seq(Relation) :
                 /\ CreateRelations(g, b, Now) \in Graph
                 /\ \A k \in DOMAIN b : Key(b[k]) \in Keys(CreateRelations(g, b, Now))
<1>0. Now \in Times
  BY RetryAssumption
<1>1. ASSUME NEW b \in Seq(Entity)
      PROVE  /\ CreateEntities(g, b, Now) \in Graph
             /\ \A k \in DOMAIN b : HasEntity(CreateEntities(g, b, Now), b[k].name)
  <2> DEFINE h == CreateEntities(g, b, Now)
  <2>1. h \in Graph /\ \A k \in DOMAIN b : HasEntity(h, b[k].name)
    BY <1>0, CreateEntitiesDoes
  <2> QED BY <2>1
<1>2. ASSUME NEW b \in Seq(Relation)
      PROVE  /\ CreateRelations(g, b, Now) \in Graph
             /\ \A k \in DOMAIN b : Key(b[k]) \in Keys(CreateRelations(g, b, Now))
  <2> DEFINE h == CreateRelations(g, b, Now)
  <2>1. h \in Graph /\ \A k \in DOMAIN b : Key(b[k]) \in Keys(h)
    BY <1>0, CreateRelationsDoes
  <2> QED BY <2>1
<1> QED BY <1>1, <1>2

\* A call leaves a graph.
LEMMA ResultTyped ==
    ASSUME NEW g \in Graph, NEW o \in Call
    PROVE  Result(g, o) \in Graph
<1>0. Now \in Times
  BY RetryAssumption
<1>1. CASE o.tool = "create_entities" /\ o.batch \in Seq(Entity)
  BY <1>1, ResultKinds, CreationsMade
<1>2. CASE o.tool = "create_relations" /\ o.batch \in Seq(Relation)
  BY <1>2, ResultKinds, CreationsMade
<1>3. CASE o.tool = "add_observations" /\ o.batch \in Seq(FactInput)
  BY <1>0, <1>3, ResultKinds, AddObservationsDoes
<1> QED BY <1>1, <1>2, <1>3, CallKinds

\* A call that is settled is accepted and changes nothing.
LEMMA SettledIsDone ==
    ASSUME NEW g \in Graph, NEW o \in Call, Settled(g, o)
    PROVE  Accepted(g, o) /\ Result(g, o) = g
<1>1. CASE o.tool = "create_entities" /\ o.batch \in Seq(Entity)
  BY <1>1, ResultKinds, CreateNone DEF Settled, Accepted
<1>2. CASE o.tool = "create_relations" /\ o.batch \in Seq(Relation)
  BY <1>2, ResultKinds, RelateNone DEF Settled, Accepted
<1>3. CASE o.tool = "add_observations" /\ o.batch \in Seq(FactInput)
  BY <1>3, ResultKinds, ObserveNone DEF Settled, Accepted
<1> QED BY <1>1, <1>2, <1>3, CallKinds

\* A call that is made is settled.
LEMMA MadeIsSettled ==
    ASSUME NEW g \in Graph, NEW o \in Call, Accepted(g, o)
    PROVE  Settled(Result(g, o), o)
<1>0. Now \in Times
  BY RetryAssumption
<1>1. CASE o.tool = "create_entities" /\ o.batch \in Seq(Entity)
  BY <1>1, ResultKinds, CreationsMade DEF Settled
<1>2. CASE o.tool = "create_relations" /\ o.batch \in Seq(Relation)
  BY <1>2, ResultKinds, CreationsMade DEF Settled
<1>3. CASE o.tool = "add_observations" /\ o.batch \in Seq(FactInput)
  BY <1>0, <1>3, ResultKinds, ObservedHolds DEF Settled, Accepted
<1> QED BY <1>1, <1>2, <1>3, CallKinds

\* h has every name, key and text of g, the texts at the first entity of the
\* same name.
Extends(g, h) ==
    /\ \A n \in Names : HasEntity(g, n) =>
          HasEntity(h, n) /\ Texts(EntityOf(g, n)) \subseteq Texts(EntityOf(h, n))
    /\ Keys(g) \subseteq Keys(h)

\* Rows that stay are found as before.
LEMMA PrefixExtends ==
    ASSUME NEW g \in Graph, NEW h \in Graph,
           DOMAIN g.entities \subseteq DOMAIN h.entities,
           \A i \in DOMAIN g.entities : h.entities[i] = g.entities[i]
    PROVE  \A n \in Names : HasEntity(g, n) =>
              HasEntity(h, n) /\ EntityOf(h, n) = EntityOf(g, n)
<1> SUFFICES ASSUME NEW n \in Names, HasEntity(g, n)
             PROVE  HasEntity(h, n) /\ EntityOf(h, n) = EntityOf(g, n)
  OBVIOUS
<1>1. /\ EntityIndex(g, n) \in DOMAIN g.entities
      /\ g.entities[EntityIndex(g, n)].name = n
      /\ \A i \in DOMAIN g.entities : g.entities[i].name = n => EntityIndex(g, n) <= i
      /\ EntityOf(g, n) = g.entities[EntityIndex(g, n)]
  BY Looking
<1>2. h.entities[EntityIndex(g, n)].name = n /\ EntityIndex(g, n) \in DOMAIN h.entities
  BY <1>1
<1>3. HasEntity(h, n)
  BY <1>2 DEF HasEntity, Named
<1>4. /\ EntityIndex(h, n) \in DOMAIN h.entities
      /\ h.entities[EntityIndex(h, n)].name = n
      /\ \A i \in DOMAIN h.entities : h.entities[i].name = n => EntityIndex(h, n) <= i
      /\ EntityOf(h, n) = h.entities[EntityIndex(h, n)]
  BY <1>3, Looking
<1>5. /\ DOMAIN g.entities = 1..Len(g.entities) /\ Len(g.entities) \in Nat
      /\ DOMAIN h.entities = 1..Len(h.entities) /\ Len(h.entities) \in Nat
  BY Rows DEF Graph
<1>6. EntityIndex(h, n) <= EntityIndex(g, n)
  BY <1>2, <1>4
<1>7. EntityIndex(h, n) \in DOMAIN g.entities
  BY <1>1, <1>4, <1>5, <1>6
<1>8. EntityIndex(g, n) <= EntityIndex(h, n)
  BY <1>1, <1>4, <1>7
<1>9. EntityIndex(h, n) = EntityIndex(g, n)
  BY <1>1, <1>4, <1>5, <1>6, <1>8
<1> QED BY <1>1, <1>3, <1>4, <1>9

\* Relations that stay keep their keys.
LEMMA PrefixKeys ==
    ASSUME NEW g, NEW h, DOMAIN g.relations \subseteq DOMAIN h.relations,
           \A i \in DOMAIN g.relations : h.relations[i] = g.relations[i]
    PROVE  Keys(g) \subseteq Keys(h)
BY DEF Keys

\* Observations are added to the entity that is found, and it is found again.
LEMMA ObservationsExtend ==
    ASSUME NEW g \in Graph, NEW b \in Seq(FactInput)
    PROVE  Extends(g, AddObservations(g, b, Now))
<1> DEFINE h == AddObservations(g, b, Now)
<1>0. Now \in Times
  BY RetryAssumption
<1>1. /\ h \in Graph /\ h.relations = g.relations /\ SameNames(g, h)
      /\ \A i \in DOMAIN g.entities :
            h.entities[i] = IF First(g, i) THEN Observed(g, g.entities[i], b, Now)
                            ELSE g.entities[i]
  BY <1>0, AddObservationsDoes
<1> HIDE DEF h
<1>2. ASSUME NEW n \in Names, HasEntity(g, n)
      PROVE  HasEntity(h, n) /\ Texts(EntityOf(g, n)) \subseteq Texts(EntityOf(h, n))
  <2>1. /\ EntityIndex(g, n) \in DOMAIN g.entities
        /\ g.entities[EntityIndex(g, n)].name = n
        /\ EntityOf(g, n) \in Entity /\ EntityOf(g, n).name = n
        /\ EntityOf(g, n) = g.entities[EntityIndex(g, n)]
    BY <1>2, Looking
  <2>2. Named(h, n) = Named(g, n)
    BY <1>1 DEF Named, SameNames
  <2>3. HasEntity(h, n) /\ EntityIndex(h, n) = EntityIndex(g, n)
    BY <1>2, <2>2 DEF HasEntity, EntityIndex
  <2>4. EntityOf(h, n) = Observed(g, EntityOf(g, n), b, Now)
    BY <1>1, <2>1, <2>3 DEF First, EntityOf
  <2>5. Texts(EntityOf(g, n)) \subseteq Texts(Observed(g, EntityOf(g, n), b, Now))
    BY <1>0, <2>1, ObservedKeepsTexts
  <2> QED BY <2>3, <2>4, <2>5
<1> QED BY <1>1, <1>2 DEF Extends, Keys, h

\* Every call only adds names, keys and texts.
LEMMA ResultExtends ==
    ASSUME NEW g \in Graph, NEW o \in Call
    PROVE  Extends(g, Result(g, o))
<1>0. Now \in Times
  BY RetryAssumption
<1>1. CASE o.tool = "create_entities" /\ o.batch \in Seq(Entity)
  <2> DEFINE h == CreateEntities(g, o.batch, Now)
  <2>1. /\ h \in Graph /\ h.relations = g.relations
        /\ DOMAIN g.entities \subseteq DOMAIN h.entities
        /\ \A i \in DOMAIN g.entities : h.entities[i] = g.entities[i]
    BY <1>0, <1>1, CreateEntitiesDoes
  <2> HIDE DEF h
  <2>2. Extends(g, h)
    BY <2>1, PrefixExtends DEF Extends, Keys
  <2> QED BY <1>1, <2>2, ResultKinds DEF h
<1>2. CASE o.tool = "create_relations" /\ o.batch \in Seq(Relation)
  <2> DEFINE h == CreateRelations(g, o.batch, Now)
  <2>1. /\ h \in Graph /\ h.entities = g.entities
        /\ DOMAIN g.relations \subseteq DOMAIN h.relations
        /\ \A i \in DOMAIN g.relations : h.relations[i] = g.relations[i]
    BY <1>0, <1>2, CreateRelationsDoes
  <2> HIDE DEF h
  <2>2. Keys(g) \subseteq Keys(h)
    BY <2>1, PrefixKeys
  <2>3. \A n \in Names : HasEntity(g, n) =>
              HasEntity(h, n) /\ EntityOf(h, n) = EntityOf(g, n)
    BY <2>1, PrefixExtends
  <2>4. Extends(g, h)
    BY <2>2, <2>3 DEF Extends
  <2> QED BY <1>2, <2>4, ResultKinds DEF h
<1>3. CASE o.tool = "add_observations" /\ o.batch \in Seq(FactInput)
  BY <1>3, ObservationsExtend, ResultKinds
<1> QED BY <1>1, <1>2, <1>3, CallKinds

\* What is settled stays settled.
LEMMA SettledStays ==
    ASSUME NEW g, NEW h, Extends(g, h), NEW o \in Call, Settled(g, o)
    PROVE  Settled(h, o)
<1>1. CASE o.tool = "create_entities" /\ o.batch \in Seq(Entity)
  <2>1. \A k \in DOMAIN o.batch : o.batch[k] \in Entity
    BY <1>1, Rows, Zenon
  <2>2. \A k \in DOMAIN o.batch : o.batch[k].name \in Names
    BY <2>1 DEF Entity
  <2> QED BY <1>1, <2>2 DEF Settled, Extends
<1>2. CASE o.tool = "create_relations" /\ o.batch \in Seq(Relation)
  BY <1>2 DEF Settled, Extends
<1>3. CASE o.tool = "add_observations" /\ o.batch \in Seq(FactInput)
  <2>1. \A k \in DOMAIN o.batch : o.batch[k] \in FactInput
    BY <1>3, Rows, Zenon
  <2>2. \A k \in DOMAIN o.batch : o.batch[k].entity \in Names
    BY <2>1 DEF FactInput
  <2> QED BY <1>3, <2>2 DEF Settled, Extends, Holds
<1> QED BY <1>1, <1>2, <1>3, CallKinds
-----------------------------------------------------------------------------
(* Steps                                                                   *)

\* Requests that run leave in memory the graph there was, or what the call
\* leaves; in the file the one it held, or the one in memory.
LEMMA MutateLeaves ==
    ASSUME Typed, NEW c \in Clients, NEW outcome, Mutate(c, outcome)
    PROVE  /\ \/ memory' = memory
              \/ Accepted(memory, call[c]) /\ memory' = Result(memory, call[c])
           /\ disk' = disk \/ disk' = memory'
           /\ outcome = "ok" =>
                 /\ Accepted(memory, call[c]) /\ memory' = Result(memory, call[c])
                 /\ disk' = memory'
           /\ memory' \in Graph /\ disk' \in Graph
<1>1. call[c] \in Call /\ memory \in Graph /\ disk \in Graph
  BY DEF Typed
<1>2. Result(memory, call[c]) \in Graph
  BY <1>1, ResultTyped
<1> QED BY <1>1, <1>2 DEF Mutate, Saved

\* What was settled before a request ran is settled after it.
LEMMA MutateSettles ==
    ASSUME SettledInv, NEW c \in Clients, NEW outcome, Mutate(c, outcome)
    PROVE  /\ \A d \in Clients : phase[d] = "ok" =>
                 Settled(memory', call[d]) /\ Settled(disk', call[d])
           /\ outcome = "ok" => Settled(memory', call[c]) /\ Settled(disk', call[c])
<1>1. Typed /\ memory \in Graph /\ call \in [Clients -> Call]
  BY DEF SettledInv, Typed
<1>2. /\ \/ memory' = memory
         \/ Accepted(memory, call[c]) /\ memory' = Result(memory, call[c])
      /\ disk' = disk \/ disk' = memory'
      /\ outcome = "ok" =>
            /\ Accepted(memory, call[c]) /\ memory' = Result(memory, call[c])
            /\ disk' = memory'
  BY <1>1, MutateLeaves
<1>3. Extends(memory, Result(memory, call[c]))
  BY <1>1, ResultExtends
<1>4. ASSUME NEW d \in Clients, phase[d] = "ok" PROVE Settled(memory', call[d])
  <2>1. Settled(memory, call[d]) /\ call[d] \in Call
    BY <1>1, <1>4 DEF SettledInv, AllSettled
  <2>2. Settled(Result(memory, call[c]), call[d])
    BY <1>3, <2>1, SettledStays
  <2> QED BY <1>2, <2>1, <2>2
<1>5. ASSUME NEW d \in Clients, phase[d] = "ok" PROVE Settled(disk', call[d])
  BY <1>2, <1>4, <1>5 DEF SettledInv, AllSettled
<1>6. ASSUME outcome = "ok" PROVE Settled(memory', call[c]) /\ Settled(disk', call[c])
  BY <1>1, <1>2, <1>6, MadeIsSettled
<1> QED BY <1>4, <1>5, <1>6

\* No client has asked for anything at first.
LEMMA SettledInitially == Init => SettledInv
BY RetryAssumption DEF Init, SettledInv, AllSettled, Typed

\* Acknowledged calls stay settled, whatever is served, lost or given up.
LEMMA SettledStep == SettledInv /\ [Next]_vars => SettledInv'
<1> SUFFICES ASSUME SettledInv, [Next]_vars PROVE SettledInv'
  OBVIOUS
<1>0. Typed
  BY DEF SettledInv
<1>1. CASE UNCHANGED vars
  BY <1>1 DEF vars, SettledInv, AllSettled, Typed
<1>2. ASSUME NEW c \in Clients, Answer(c) PROVE SettledInv'
  <2>1. PICK outcome \in {"ok", "refused", "retry"} :
           Mutate(c, outcome) /\ phase' = [phase EXCEPT ![c] = outcome]
    BY <1>2 DEF Answer
  <2>2. memory' \in Graph /\ disk' \in Graph
    BY <1>0, <2>1, MutateLeaves
  <2>3. call' = call
    BY <1>2 DEF Answer
  <2>4. Typed'
    BY <1>0, <2>1, <2>2, <2>3 DEF Typed
  <2>5. /\ \A d \in Clients : phase[d] = "ok" =>
              Settled(memory', call[d]) /\ Settled(disk', call[d])
        /\ outcome = "ok" => Settled(memory', call[c]) /\ Settled(disk', call[c])
    BY <2>1, MutateSettles
  <2>6. \A d \in Clients : phase'[d] = "ok" =>
           phase[d] = "ok" \/ (d = c /\ outcome = "ok")
    BY <1>0, <2>1 DEF Typed
  <2>7. AllSettled(memory)' /\ AllSettled(disk)'
    BY <2>3, <2>5, <2>6 DEF AllSettled
  <2> QED BY <2>4, <2>7 DEF SettledInv
<1>3. ASSUME NEW c \in Clients, ServeCopy(c) PROVE SettledInv'
  <2>1. PICK outcome \in {"ok", "refused", "retry"} : Mutate(c, outcome)
    BY <1>3 DEF ServeCopy
  <2>2. memory' \in Graph /\ disk' \in Graph
    BY <1>0, <2>1, MutateLeaves
  <2>3. call' = call /\ phase' = phase
    BY <1>3 DEF ServeCopy
  <2>4. \A d \in Clients : phase[d] = "ok" =>
           Settled(memory', call[d]) /\ Settled(disk', call[d])
    BY <2>1, MutateSettles
  <2> QED BY <1>0, <2>2, <2>3, <2>4 DEF SettledInv, AllSettled, Typed
<1>4. ASSUME NEW c \in Clients, Send(c) \/ GiveUp(c) PROVE SettledInv'
  <2>1. /\ call' = call /\ memory' = memory /\ disk' = disk
        /\ phase' = [phase EXCEPT ![c] = "waiting"] \/ phase' = [phase EXCEPT ![c] = "retry"]
    BY <1>4 DEF Send, GiveUp
  <2>2. \A d \in Clients : phase'[d] = "ok" => phase[d] = "ok"
    BY <1>0, <2>1 DEF Typed
  <2> QED BY <1>0, <2>1, <2>2 DEF SettledInv, AllSettled, Typed
<1>5. CASE Restart
  <2>1. call' = call /\ memory' = disk /\ disk' = disk
    BY <1>5 DEF Restart
  <2>2. /\ phase' \in [Clients -> {"new", "waiting", "retry", "ok", "refused"}]
        /\ \A d \in Clients : phase'[d] = "ok" => phase[d] = "ok"
    BY <1>0, <1>5 DEF Restart, Typed
  <2> QED BY <1>0, <2>1, <2>2 DEF SettledInv, AllSettled, Typed
<1> QED BY <1>1, <1>2, <1>3, <1>4, <1>5 DEF Next

\* What an acknowledged call asked for is in the file and stays there: whatever
\* saves failed before and after, whichever copies are served late and however
\* often the process is restarted, the call could be made again and would
\* change nothing.
THEOREM SuccessIsDurable == Spec => []OkMeansDurable
<1>1. Init => SettledInv
  BY SettledInitially
<1>2. SettledInv /\ [Next]_vars => SettledInv'
  BY SettledStep
<1>3. SettledInv => OkMeansDurable
  <2> SUFFICES ASSUME SettledInv, NEW c \in Clients, phase[c] = "ok"
               PROVE  Done(disk, c) /\ Done(memory, c)
    BY DEF OkMeansDurable
  <2>1. /\ call[c] \in Call /\ memory \in Graph /\ disk \in Graph
        /\ Settled(memory, call[c]) /\ Settled(disk, call[c])
    BY DEF SettledInv, AllSettled, Typed
  <2> QED BY <2>1, SettledIsDone DEF Done
<1> QED BY <1>1, <1>2, <1>3, PTL DEF Spec

\* A client whose observations are in the file and in memory is not refused when
\* it asks again, though the facts they supersede are superseded by then.
THEOREM RecordedIsNotRefused == Spec => DoneIsNotRefused
<1>1. Init => SettledInv
  BY SettledInitially
<1>2. SettledInv /\ [Next]_vars => SettledInv'
  BY SettledStep
<1>3. SettledInv /\ [Next]_vars =>
        [ \A c \in Clients :
            /\ call[c].tool = "add_observations" /\ phase[c] # "refused"
            /\ Recorded(disk, c) /\ Recorded(memory, c)
            => phase'[c] # "refused" ]_vars
  <2> SUFFICES ASSUME SettledInv, Next, NEW c \in Clients,
                      call[c].tool = "add_observations", phase[c] # "refused",
                      Recorded(memory, c), phase'[c] = "refused"
               PROVE  FALSE
    OBVIOUS
  <2>0. /\ phase \in [Clients -> {"new", "waiting", "retry", "ok", "refused"}]
        /\ memory \in Graph /\ call[c] \in Call
    BY DEF SettledInv, Typed
  <2>1. Accepted(memory, call[c])
    <3>1. call[c].batch \in Seq(FactInput) /\ Holds(memory, call[c].batch)
      BY <2>0, CallKinds DEF Recorded, Holds
    <3> QED BY <2>0, <3>1, ObserveNone DEF Accepted
  <2>2. PICK d \in Clients : Answer(d)
    BY <2>0 DEF Next, ServeCopy, Send, GiveUp, Restart
  <2>3. PICK outcome \in {"ok", "refused", "retry"} :
           Mutate(d, outcome) /\ phase' = [phase EXCEPT ![d] = outcome]
    BY <2>2 DEF Answer
  <2>4. d = c /\ outcome = "refused"
    BY <2>0, <2>3
  <2> QED BY <2>1, <2>3, <2>4 DEF Mutate
<1> QED BY <1>1, <1>2, <1>3, PTL DEF Spec, DoneIsNotRefused

-----------------------------------------------------------------------------
(* Retries are invisible                                                   *)

\* The graphs that the calls of s go through, made once each and accepted.
Leads(f, s, g, cl) ==
    /\ f \in [0..Len(s) -> Graph] /\ f[0] = InitialGraph /\ f[Len(s)] = g
    /\ \A n \in 1..Len(s) : /\ Accepted(f[n - 1], cl[s[n]])
                            /\ f[n] = Result(f[n - 1], cl[s[n]])

\* s explains the graph g: it makes calls that were asked for, all that are
\* acknowledged, in an order that the clients may have seen, and it leaves g.
Story(s, g, cl, ph, bf) ==
    /\ s \in Seq(Clients)
    /\ \A i, j \in DOMAIN s : s[i] = s[j] => i = j
    /\ \A i \in DOMAIN s : ph[s[i]] # "new" /\ Settled(g, cl[s[i]])
    /\ \A c \in Clients : ph[c] = "ok" => \E i \in DOMAIN s : s[i] = c
    /\ \A i, j \in DOMAIN s : s[i] \in bf[s[j]] => i < j
    /\ \E f : Leads(f, s, g, cl)

\* Both graphs have a story; only those who have asked have copies under way,
\* and only who was acknowledged is known to have been.
StoryInv ==
    /\ SettledInv
    /\ copies \in [Clients -> Int] /\ before \in [Clients -> SUBSET Clients]
    /\ \A d \in Clients : phase[d] = "new" => copies[d] = 0
    /\ \A d \in Clients : \A e \in before[d] : phase[e] = "ok"
    /\ \E s : Story(s, memory, call, phase, before)
    /\ \E s : Story(s, disk, call, phase, before)

\* A call more leads further.
LEMMA LeadsFurther ==
    ASSUME NEW cl \in [Clients -> Call], NEW s \in Seq(Clients), NEW g \in Graph,
           NEW f, Leads(f, s, g, cl), NEW c \in Clients, Accepted(g, cl[c])
    PROVE  \E h : Leads(h, Append(s, c), Result(g, cl[c]), cl)
<1> DEFINE N == Len(s)
           g2 == Result(g, cl[c])
           t == Append(s, c)
           h == [n \in 0..(N + 1) |-> IF n = N + 1 THEN g2 ELSE f[n]]
<1>1. /\ N \in Nat /\ Len(t) = N + 1 /\ t[N + 1] = c
      /\ \A n \in 1..N : t[n] = s[n]
  BY AppendProperties, Rows
<1>2. /\ f \in [0..N -> Graph] /\ f[0] = InitialGraph /\ f[N] = g
      /\ \A n \in 1..N : Accepted(f[n - 1], cl[s[n]]) /\ f[n] = Result(f[n - 1], cl[s[n]])
  BY DEF Leads
<1>3. g2 \in Graph
  BY ResultTyped
<1> HIDE DEF t, g2, N
<1>4. \A n \in 0..(N + 1) : n = N + 1 \/ (n \in 0..N /\ n # N + 1)
  BY <1>1
<1>5. h \in [0..(N + 1) -> Graph]
  BY <1>2, <1>3, <1>4
<1>6. h[0] = InitialGraph /\ h[N] = g /\ h[N + 1] = g2
  BY <1>1, <1>2
<1>7. \A n \in 1..(N + 1) : Accepted(h[n - 1], cl[t[n]]) /\ h[n] = Result(h[n - 1], cl[t[n]])
  <2> TAKE n \in 1..(N + 1)
  <2>1. CASE n = N + 1
    <3>1. h[n - 1] = g /\ h[n] = g2 /\ t[n] = c
      BY <1>1, <1>6, <2>1
    <3> QED BY <3>1 DEF g2
  <2>2. CASE n # N + 1
    <3>1. n \in 1..N /\ n - 1 \in 0..N /\ n \in 0..N /\ n - 1 # N + 1
      BY <1>1, <2>2
    <3>2. h[n] = f[n] /\ h[n - 1] = f[n - 1] /\ t[n] = s[n]
      BY <1>1, <2>2, <3>1
    <3> QED BY <1>2, <3>1, <3>2
  <2> QED BY <2>1, <2>2
<1> HIDE DEF h
<1>8. Leads(h, t, g2, cl)
  BY <1>1, <1>5, <1>6, <1>7 DEF Leads
<1> QED BY <1>8 DEF t, g2

\* A request that runs is told at the end of the story, unless it is in it.
LEMMA StoryGrows ==
    ASSUME NEW cl \in [Clients -> Call], NEW ph, NEW bf, NEW g \in Graph,
           NEW s, Story(s, g, cl, ph, bf),
           \A d \in Clients : \A e \in bf[d] : ph[e] = "ok",
           NEW c \in Clients, ph[c] # "new", Accepted(g, cl[c])
    PROVE  \E t : /\ Story(t, Result(g, cl[c]), cl, ph, bf)
                  /\ \E i \in DOMAIN t : t[i] = c
<1> DEFINE g2 == Result(g, cl[c])
           N == Len(s)
           t == Append(s, c)
<1>1. /\ s \in Seq(Clients)
      /\ \A i, j \in DOMAIN s : s[i] = s[j] => i = j
      /\ \A i \in DOMAIN s : ph[s[i]] # "new" /\ Settled(g, cl[s[i]])
      /\ \A d \in Clients : ph[d] = "ok" => \E i \in DOMAIN s : s[i] = d
      /\ \A i, j \in DOMAIN s : s[i] \in bf[s[j]] => i < j
      /\ \E f : Leads(f, s, g, cl)
  BY DEF Story
<1>2. N \in Nat /\ DOMAIN s = 1..N /\ \A i \in DOMAIN s : s[i] \in Clients
  BY <1>1, Rows
<1>3. CASE \E i \in DOMAIN s : s[i] = c
  <2>1. Settled(g, cl[c]) /\ cl[c] \in Call
    BY <1>1, <1>3
  <2>2. g2 = g
    BY <2>1, SettledIsDone
  <2> HIDE DEF g2
  <2> QED BY <1>3, <2>2 DEF g2
<1>4. CASE ~\E i \in DOMAIN s : s[i] = c
  <2>1. /\ t \in Seq(Clients) /\ Len(t) = N + 1 /\ t[N + 1] = c
        /\ \A n \in 1..N : t[n] = s[n]
    BY <1>1, AppendProperties
  <2> HIDE DEF t
  <2>2. DOMAIN t = 1..(N + 1)
    BY <2>1, Rows
  <2>3. \A n \in 1..(N + 1) : n = N + 1 \/ n \in 1..N
    BY <1>2
  <2>4. Extends(g, g2) /\ Settled(g2, cl[c]) /\ \A d \in Clients : cl[d] \in Call
    BY ResultExtends, MadeIsSettled
  <2>5. \A d \in Clients : Settled(g, cl[d]) => Settled(g2, cl[d])
    BY <2>4, SettledStays
  <2> HIDE DEF g2, N
  <2>6. \A i, j \in DOMAIN t : t[i] = t[j] => i = j
    BY <1>1, <1>2, <1>4, <2>1, <2>2, <2>3
  <2>7. \A i \in DOMAIN t : ph[t[i]] # "new" /\ Settled(g2, cl[t[i]])
    BY <1>1, <1>2, <2>1, <2>2, <2>3, <2>4, <2>5
  <2>8. \A i \in DOMAIN s : i \in DOMAIN t /\ t[i] = s[i]
    BY <1>2, <2>1, <2>2
  <2>9. \A d \in Clients : ph[d] = "ok" => \E i \in DOMAIN t : t[i] = d
    BY <1>1, <2>8
  <2>10. ph[c] # "ok"
    BY <1>1, <1>4
  <2>11. ASSUME NEW i \in DOMAIN t, NEW j \in DOMAIN t, t[i] \in bf[t[j]] PROVE i < j
    <3>1. t[j] \in Clients
      BY <2>1, Rows
    <3>2. ph[t[i]] = "ok"
      BY <2>11, <3>1
    <3>3. i # N + 1
      BY <2>1, <2>10, <3>2
    <3>4. i \in 1..N
      BY <2>2, <2>3, <3>3
    <3>5. CASE j = N + 1
      BY <1>2, <3>4, <3>5
    <3>6. CASE j # N + 1
      <4>1. j \in 1..N
        BY <2>2, <2>3, <3>6
      <4> QED BY <1>1, <1>2, <2>1, <2>11, <3>4, <4>1
    <3> QED BY <3>5, <3>6
  <2>12. \E f : Leads(f, t, g2, cl)
    <3>1. PICK f : Leads(f, s, g, cl)
      BY <1>1
    <3>2. \E h : Leads(h, Append(s, c), Result(g, cl[c]), cl)
      BY <1>1, <3>1, LeadsFurther
    <3> QED BY <3>2 DEF t, g2
  <2>13. Story(t, g2, cl, ph, bf)
    BY <2>1, <2>6, <2>7, <2>9, <2>11, <2>12 DEF Story
  <2>14. N + 1 \in DOMAIN t
    BY <1>2, <2>2
  <2> QED BY <2>1, <2>13, <2>14 DEF g2
<1> QED BY <1>3, <1>4

\* A story stays one when somebody asks, who is not in it, gives up, or is
\* acknowledged, who is.
LEMMA StoryStays ==
    ASSUME NEW s, NEW g, NEW cl, NEW ph, NEW bf, Story(s, g, cl, ph, bf), NEW ph2, NEW bf2,
           \A d \in Clients : ph[d] # "new" => ph2[d] # "new" /\ bf2[d] = bf[d],
           \A d \in Clients : ph2[d] = "ok" => ph[d] = "ok" \/ \E i \in DOMAIN s : s[i] = d
    PROVE  Story(s, g, cl, ph2, bf2)
<1>1. \A i \in DOMAIN s : s[i] \in Clients
  BY Rows DEF Story
<1>2. \A i \in DOMAIN s : ph[s[i]] # "new"
  BY DEF Story
<1>3. \A i \in DOMAIN s : ph2[s[i]] # "new" /\ bf2[s[i]] = bf[s[i]]
  BY <1>1, <1>2
<1> QED BY <1>3 DEF Story

\* What a request that runs leaves has a story, in which it is when the client
\* is told of success.
LEMMA StoryServed ==
    ASSUME StoryInv, NEW c \in Clients, phase[c] # "new", NEW outcome, Mutate(c, outcome)
    PROVE  /\ \E s : /\ Story(s, memory', call, phase, before)
                     /\ outcome = "ok" => \E i \in DOMAIN s : s[i] = c
           /\ \E s : /\ Story(s, disk', call, phase, before)
                     /\ outcome = "ok" => \E i \in DOMAIN s : s[i] = c
<1>1. /\ Typed /\ memory \in Graph /\ call \in [Clients -> Call]
      /\ \A d \in Clients : \A e \in before[d] : phase[e] = "ok"
      /\ \E s : Story(s, memory, call, phase, before)
      /\ \E s : Story(s, disk, call, phase, before)
  BY DEF StoryInv, SettledInv, Typed
<1>2. /\ \/ memory' = memory
         \/ Accepted(memory, call[c]) /\ memory' = Result(memory, call[c])
      /\ disk' = disk \/ disk' = memory'
      /\ outcome = "ok" =>
            /\ Accepted(memory, call[c]) /\ memory' = Result(memory, call[c])
            /\ disk' = memory'
  BY <1>1, MutateLeaves
<1>3. ASSUME Accepted(memory, call[c])
      PROVE  \E s : /\ Story(s, Result(memory, call[c]), call, phase, before)
                    /\ \E i \in DOMAIN s : s[i] = c
  <2>1. PICK s : Story(s, memory, call, phase, before)
    BY <1>1
  <2> QED BY <1>1, <1>3, <2>1, StoryGrows
<1>4. \E s : /\ Story(s, memory', call, phase, before)
             /\ outcome = "ok" => \E i \in DOMAIN s : s[i] = c
  <2>1. CASE outcome = "ok"
    BY <1>2, <1>3, <2>1
  <2>2. CASE outcome # "ok" /\ memory' = memory
    BY <1>1, <2>2
  <2>3. CASE outcome # "ok" /\ Accepted(memory, call[c]) /\ memory' = Result(memory, call[c])
    BY <1>3, <2>3
  <2> QED BY <1>2, <2>1, <2>2, <2>3
<1>5. \E s : /\ Story(s, disk', call, phase, before)
             /\ outcome = "ok" => \E i \in DOMAIN s : s[i] = c
  <2>1. CASE disk' = memory'
    BY <1>4, <2>1
  <2>2. CASE disk' = disk /\ outcome # "ok"
    BY <1>1, <2>2
  <2> QED BY <1>2, <2>1, <2>2
<1> QED BY <1>4, <1>5

\* At first nothing has been called.
LEMMA StoryInitially == Init => StoryInv
<1> SUFFICES ASSUME Init PROVE StoryInv
  OBVIOUS
<1>1. SettledInv
  BY SettledInitially
<1>2. /\ phase = [c \in Clients |-> "new"] /\ copies = [c \in Clients |-> 0]
      /\ before = [c \in Clients |-> {}]
      /\ memory = InitialGraph /\ disk = InitialGraph
  BY DEF Init
<1> DEFINE f == [n \in 0..0 |-> InitialGraph]
<1>3. Leads(f, << >>, InitialGraph, call)
  <2>1. f \in [0..0 -> Graph] /\ f[0] = InitialGraph
    BY RetryAssumption
  <2> HIDE DEF f
  <2>2. Len(<< >>) = 0 /\ 1..0 = {}
    OBVIOUS
  <2> QED BY <2>1, <2>2 DEF Leads
<1> HIDE DEF f
<1>4. << >> \in Seq(Clients) /\ DOMAIN << >> = {}
  OBVIOUS
<1>5. Story(<< >>, InitialGraph, call, phase, before)
  BY <1>2, <1>3, <1>4 DEF Story
<1>6. /\ copies \in [Clients -> Int] /\ before \in [Clients -> SUBSET Clients]
      /\ \A d \in Clients : copies[d] = 0 /\ before[d] = {}
  BY <1>2
<1> QED BY <1>1, <1>2, <1>5, <1>6 DEF StoryInv

\* Every step goes on with a story: a request that runs is told last, and a
\* restart goes back to the story of the file.
LEMMA StoryStep == StoryInv /\ [Next]_vars => StoryInv'
<1> SUFFICES ASSUME StoryInv, [Next]_vars PROVE StoryInv'
  OBVIOUS
<1> DEFINE Told(s, g) == Story(s, g, call, phase, before)
<1>0. /\ SettledInv /\ SettledInv'
      /\ phase \in [Clients -> {"new", "waiting", "retry", "ok", "refused"}]
      /\ copies \in [Clients -> Int] /\ before \in [Clients -> SUBSET Clients]
      /\ \A d \in Clients : phase[d] = "new" => copies[d] = 0
      /\ \A d \in Clients : \A e \in before[d] : phase[e] = "ok"
      /\ \E s : Told(s, memory)
      /\ \E s : Told(s, disk)
  BY SettledStep DEF StoryInv, SettledInv, Typed
<1>1. CASE UNCHANGED vars
  BY <1>0, <1>1 DEF vars, StoryInv
<1>2. ASSUME NEW c \in Clients, Answer(c) PROVE StoryInv'
  <2>1. PICK outcome \in {"ok", "refused", "retry"} :
           Mutate(c, outcome) /\ phase' = [phase EXCEPT ![c] = outcome]
    BY <1>2 DEF Answer
  <2>2. phase[c] = "waiting" /\ call' = call /\ copies' = copies /\ before' = before
    BY <1>2 DEF Answer
  <2>3. /\ \E s : Told(s, memory') /\ (outcome = "ok" => \E i \in DOMAIN s : s[i] = c)
        /\ \E s : Told(s, disk') /\ (outcome = "ok" => \E i \in DOMAIN s : s[i] = c)
    BY <2>1, <2>2, StoryServed
  <2>4. /\ \A d \in Clients : phase[d] # "new" => phase'[d] # "new" /\ before[d] = before[d]
        /\ \A d \in Clients : phase'[d] = "new" => phase[d] = "new"
        /\ \A d \in Clients : phase[d] = "ok" => phase'[d] = "ok"
        /\ \A d \in Clients : phase'[d] = "ok" => phase[d] = "ok" \/ (d = c /\ outcome = "ok")
    BY <1>0, <2>1, <2>2
  <2>5. ASSUME NEW g, \E s : Told(s, g) /\ (outcome = "ok" => \E i \in DOMAIN s : s[i] = c)
        PROVE  \E s : Story(s, g, call, phase', before)
    <3>1. PICK s : Told(s, g) /\ (outcome = "ok" => \E i \in DOMAIN s : s[i] = c)
      BY <2>5
    <3>2. \A d \in Clients : phase'[d] = "ok" => phase[d] = "ok" \/ \E i \in DOMAIN s : s[i] = d
      BY <2>4, <3>1
    <3>3. Story(s, g, call, phase', before)
      BY <2>4, <3>1, <3>2, StoryStays
    <3> QED BY <3>3
  <2>6. /\ \E s : Story(s, memory', call, phase', before)
        /\ \E s : Story(s, disk', call, phase', before)
    BY <2>3, <2>5
  <2>7. \A d \in Clients : \A e \in before[d] : phase'[e] = "ok"
    BY <1>0, <2>4
  <2> QED BY <1>0, <2>2, <2>4, <2>6, <2>7 DEF StoryInv
<1>3. ASSUME NEW c \in Clients, ServeCopy(c) PROVE StoryInv'
  <2>1. PICK outcome \in {"ok", "refused", "retry"} : Mutate(c, outcome)
    BY <1>3 DEF ServeCopy
  <2>2. /\ call' = call /\ phase' = phase /\ before' = before
        /\ copies[c] > 0 /\ copies' = [copies EXCEPT ![c] = @ - 1]
    BY <1>3 DEF ServeCopy
  <2>3. phase[c] # "new"
    BY <1>0, <2>2
  <2>4. \E s : Told(s, memory')
    BY <2>1, <2>3, StoryServed
  <2>5. \E s : Told(s, disk')
    BY <2>1, <2>3, StoryServed
  <2>6. /\ copies' \in [Clients -> Int]
        /\ \A d \in Clients : phase'[d] = "new" => copies'[d] = 0
    BY <1>0, <2>2, <2>3
  <2> QED BY <1>0, <2>2, <2>4, <2>5, <2>6 DEF StoryInv
<1>4. ASSUME NEW c \in Clients, Send(c) PROVE StoryInv'
  <2>1. /\ call' = call /\ memory' = memory /\ disk' = disk /\ copies' = copies
        /\ phase[c] \in {"new", "retry"} /\ phase' = [phase EXCEPT ![c] = "waiting"]
        /\ before' = IF phase[c] = "new"
                     THEN [before EXCEPT ![c] = {d \in Clients : phase[d] = "ok"}] ELSE before
    BY <1>4 DEF Send
  <2>2. /\ \A d \in Clients : phase[d] # "new" => phase'[d] # "new" /\ before'[d] = before[d]
        /\ \A d \in Clients : phase'[d] = "new" => phase[d] = "new"
        /\ \A d \in Clients : phase'[d] = "ok" <=> phase[d] = "ok"
    BY <1>0, <2>1
  <2>3. /\ before' \in [Clients -> SUBSET Clients]
        /\ \A d \in Clients : \A e \in before'[d] : phase'[e] = "ok"
    BY <1>0, <2>1, <2>2
  <2>4. ASSUME NEW g, NEW s, Told(s, g) PROVE Story(s, g, call, phase', before')
    BY <2>2, <2>4, StoryStays
  <2>5. /\ \E s : Story(s, memory, call, phase', before')
        /\ \E s : Story(s, disk, call, phase', before')
    BY <1>0, <2>4
  <2> QED BY <1>0, <2>1, <2>2, <2>3, <2>5 DEF StoryInv
<1>5. ASSUME NEW c \in Clients, GiveUp(c) PROVE StoryInv'
  <2>1. /\ call' = call /\ memory' = memory /\ disk' = disk /\ before' = before
        /\ phase[c] = "waiting" /\ phase' = [phase EXCEPT ![c] = "retry"]
        /\ copies' = [copies EXCEPT ![c] = @ + 1]
    BY <1>5 DEF GiveUp
  <2>2. /\ \A d \in Clients : phase[d] # "new" => phase'[d] # "new" /\ before'[d] = before[d]
        /\ \A d \in Clients : phase'[d] = "new" => phase[d] = "new"
        /\ \A d \in Clients : phase'[d] = "ok" <=> phase[d] = "ok"
    BY <1>0, <2>1
  <2>3. /\ copies' \in [Clients -> Int]
        /\ \A d \in Clients : phase'[d] = "new" => copies'[d] = 0
        /\ \A d \in Clients : \A e \in before'[d] : phase'[e] = "ok"
    BY <1>0, <2>1, <2>2
  <2>4. ASSUME NEW g, NEW s, Told(s, g) PROVE Story(s, g, call, phase', before')
    BY <2>2, <2>4, StoryStays
  <2>5. /\ \E s : Story(s, memory, call, phase', before')
        /\ \E s : Story(s, disk, call, phase', before')
    BY <1>0, <2>4
  <2> QED BY <1>0, <2>1, <2>3, <2>5 DEF StoryInv
<1>6. CASE Restart
  <2>1. /\ call' = call /\ memory' = disk /\ disk' = disk /\ before' = before
        /\ phase' = [c \in Clients |-> IF phase[c] = "waiting" THEN "retry" ELSE phase[c]]
        /\ copies' = [c \in Clients |-> 0]
    BY <1>6 DEF Restart
  <2>2. /\ \A d \in Clients : phase[d] # "new" => phase'[d] # "new" /\ before'[d] = before[d]
        /\ \A d \in Clients : phase'[d] = "ok" <=> phase[d] = "ok"
    BY <1>0, <2>1
  <2>3. /\ copies' \in [Clients -> Int]
        /\ \A d \in Clients : phase'[d] = "new" => copies'[d] = 0
        /\ \A d \in Clients : \A e \in before'[d] : phase'[e] = "ok"
    BY <1>0, <2>1, <2>2
  <2>4. ASSUME NEW g, NEW s, Told(s, g) PROVE Story(s, g, call, phase', before')
    BY <2>2, <2>4, StoryStays
  <2>5. \E s : Story(s, disk, call, phase', before')
    BY <1>0, <2>4
  <2> QED BY <1>0, <2>1, <2>3, <2>5 DEF StoryInv
<1> QED BY <1>1, <1>2, <1>3, <1>4, <1>5, <1>6 DEF Next

\* A sequence without repetitions is among the orders of what is in it.
LEMMA OrderOfItsMembers ==
    ASSUME NEW s \in Seq(Clients), \A i, j \in DOMAIN s : s[i] = s[j] => i = j
    PROVE  /\ s \in SetToSeqs({s[i] : i \in DOMAIN s})
           /\ {s[i] : i \in DOMAIN s} \subseteq Clients
<1> DEFINE S == {s[i] : i \in DOMAIN s}
           N == Len(s)
<1>1. /\ N \in Nat /\ DOMAIN s = 1..N /\ s \in [1..N -> Clients]
      /\ \A i \in DOMAIN s : s[i] \in Clients
  BY Rows
<1>2. IsFiniteSet(1..N) /\ Cardinality(1..N) = N
  BY <1>1, FS_Interval
<1> HIDE DEF N
<1>3. s \in Surjection(1..N, S) /\ s \in Injection(1..N, S) /\ s \in [1..N -> S]
  BY <1>1 DEF Surjection, Injection, IsInjective
<1>4. S \subseteq Clients
  BY <1>1
<1> HIDE DEF S
<1>5. Cardinality(S) = N
  BY <1>2, <1>3, FS_Surjection
<1>6. s \in SetToSeqs(S)
  BY <1>1, <1>3, <1>5 DEF SetToSeqs
<1> QED BY <1>4, <1>6 DEF S

\* The calls of a story, made once each, leave its graph.
LEMMA StoryRuns ==
    ASSUME NEW s \in Seq(Clients), NEW g, NEW f, Leads(f, s, g, call)
    PROVE  RunOf(s) = [ok |-> TRUE, graph |-> g]
<1> DEFINE base == [ok |-> TRUE, graph |-> InitialGraph]
           Rounds(h) == h = [n \in 0..Len(s) |->
                               IF n = 0 THEN base ELSE MakeOne(h[n - 1], call[s[n]])]
           after == CHOOSE h : Rounds(h)
           e == [n \in 0..Len(s) |-> [ok |-> TRUE, graph |-> f[n]]]
<1>1. Len(s) \in Nat
  BY Rows
<1>2. RunOf(s) = after[Len(s)]
  BY DEF RunOf
<1>3. /\ f[0] = InitialGraph /\ f[Len(s)] = g
      /\ \A n \in 1..Len(s) : /\ Accepted(f[n - 1], call[s[n]])
                              /\ f[n] = Result(f[n - 1], call[s[n]])
  BY DEF Leads
<1>4. \A n \in 0..Len(s) : e[n] = IF n = 0 THEN base ELSE MakeOne(e[n - 1], call[s[n]])
  <2> TAKE n \in 0..Len(s)
  <2>1. CASE n = 0
    BY <1>1, <1>3, <2>1
  <2>2. CASE n # 0
    <3>1. n \in 1..Len(s) /\ n - 1 \in 0..Len(s)
      BY <1>1, <2>2
    <3>2. e[n] = [ok |-> TRUE, graph |-> f[n]] /\ e[n - 1] = [ok |-> TRUE, graph |-> f[n - 1]]
      BY <3>1
    <3> HIDE DEF e
    <3>3. Accepted(f[n - 1], call[s[n]]) /\ f[n] = Result(f[n - 1], call[s[n]])
      BY <1>3, <3>1
    <3>4. e[n - 1].ok /\ e[n - 1].graph = f[n - 1]
      BY <3>2
    <3>5. MakeOne(e[n - 1], call[s[n]]) = [ok |-> TRUE, graph |-> f[n]]
      BY <3>3, <3>4 DEF MakeOne
    <3> QED BY <2>2, <3>2, <3>5
  <2> QED BY <2>1, <2>2
<1> HIDE DEF base
<1>5. Rounds(e)
  <2>1. e = [n \in 0..Len(s) |-> e[n]]
    OBVIOUS
  <2> HIDE DEF e
  <2> QED BY <1>4, <2>1
<1>6. Rounds(after)
  <2> HIDE DEF Rounds, e
  <2> QED BY <1>5
<1>7. \A h : Rounds(h) => \A n \in 0..Len(s) :
                h[n] = IF n = 0 THEN base ELSE MakeOne(h[n - 1], call[s[n]])
  OBVIOUS
<1>8. /\ after[0] = e[0]
      /\ \A n \in 1..Len(s) : after[n - 1] = e[n - 1] => after[n] = e[n]
  <2> HIDE DEF after, e, Rounds
  <2> QED BY <1>1, <1>5, <1>6, <1>7
<1>9. after[Len(s)] = e[Len(s)]
  <2> HIDE DEF after, e
  <2> QED BY <1>1, <1>8, SameRounds
<1> HIDE DEF after, Rounds
<1>10. e[Len(s)] = [ok |-> TRUE, graph |-> g]
  <2>1. Len(s) \in 0..Len(s)
    BY <1>1
  <2>2. e[Len(s)] = [ok |-> TRUE, graph |-> f[Len(s)]]
    BY <2>1, Zenon
  <2> QED BY <1>3, <2>2
<1> HIDE DEF e
<1> QED BY <1>2, <1>9, <1>10

\* What has a story is explained.
LEMMA StoryExplains ==
    ASSUME NEW s, NEW g, Story(s, g, call, phase, before)
    PROVE  \E t \in Explanations : RunOf(t) = [ok |-> TRUE, graph |-> g]
<1>1. /\ s \in Seq(Clients)
      /\ \A i, j \in DOMAIN s : s[i] = s[j] => i = j
      /\ \A c \in Clients : phase[c] = "ok" => \E i \in DOMAIN s : s[i] = c
      /\ \A i, j \in DOMAIN s : s[i] \in before[s[j]] => i < j
      /\ \E f : Leads(f, s, g, call)
  BY DEF Story
<1>2. /\ s \in SetToSeqs({s[i] : i \in DOMAIN s})
      /\ {s[i] : i \in DOMAIN s} \subseteq Clients
  BY <1>1, OrderOfItsMembers
<1>3. Explains(s)
  BY <1>1 DEF Explains
<1>4. s \in Explanations
  BY <1>2, <1>3 DEF Explanations
<1>5. RunOf(s) = [ok |-> TRUE, graph |-> g]
  BY <1>1, StoryRuns
<1> QED BY <1>4, <1>5

\* However often calls are sent, served, lost with a failed save or a restart,
\* or served late: the file and the graph in memory are what some of the calls
\* would have left, each made once, the acknowledged ones among them and in the
\* order the clients could observe.
THEOREM RetriesLeaveNoTrace == Spec => []RetriesAreInvisible
<1>1. Init => StoryInv
  BY StoryInitially
<1>2. StoryInv /\ [Next]_vars => StoryInv'
  BY StoryStep
<1>3. StoryInv => RetriesAreInvisible
  BY StoryExplains DEF StoryInv, RetriesAreInvisible
<1> QED BY <1>1, <1>2, <1>3, PTL DEF Spec
=============================================================================
