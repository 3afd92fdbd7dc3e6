------------------------------- MODULE Retries -------------------------------
(***************************************************************************)
(* Clients that repeat a call until they are told how it came out, against *)
(* one data file: Store::mutate (src/src/store.rs) around the additive     *)
(* tools of src/src/mcp.rs, which are annotated idempotent so that clients *)
(* may do this.                                                            *)
(*                                                                         *)
(* A save may fail after the closure has changed the graph in memory, an   *)
(* answer may come too late for the client that gave up waiting, a copy of *)
(* the call may then be served after its successor, and the process may be *)
(* restarted at any time.  A mutation is one step, as Store shows it is    *)
(* for everybody who looks.                                                *)
(***************************************************************************)
EXTENDS GraphTypes, SequencesExt

CONSTANTS
    Clients,
    Calls,         \* [tool, batch]: what a client may want done
    InitialGraph,  \* what the file holds at first
    MaxFaults      \* bound on the failed saves, the timeouts and the restarts

Now == 1  \* time stamps are the subject of KnowledgeGraph

Call == [tool : {"create_entities"}, batch : Seq(Entity)] \cup
        [tool : {"create_relations"}, batch : Seq(Relation)] \cup
        [tool : {"add_observations"}, batch : Seq(FactInput)]

ASSUME RetryAssumption ==
    Calls \subseteq Call /\ InitialGraph \in Graph /\ Now \in Times

VARIABLES
    call,    \* what each client wants done
    phase,   \* "new", "waiting", "retry", or how it came out: "ok", "refused"
    copies,  \* requests of each client that it has given up waiting for
    memory,  \* Store.graph
    disk,    \* the graph in the data file
    faults,  \* how many there have been
    before   \* history: the clients that knew of success when one first asked

vars == <<call, phase, copies, memory, disk, faults, before>>

Init ==
    /\ call \in [Clients -> Calls]
    /\ phase = [c \in Clients |-> "new"]
    /\ copies = [c \in Clients |-> 0]
    /\ memory = InitialGraph /\ disk = InitialGraph
    /\ faults = 0
    /\ before = [c \in Clients |-> {}]

-----------------------------------------------------------------------------
(* The server                                                              *)

Accepted(g, o) == o.tool = "add_observations" => ObservationsOK(g, o.batch)

Result(g, o) ==
    CASE o.tool = "create_entities" -> CreateEntities(g, o.batch, Now)
      [] o.tool = "create_relations" -> CreateRelations(g, o.batch, Now)
      [] o.tool = "add_observations" -> AddObservations(g, o.batch, Now)

\* Mutant of Saved: a closure that changed nothing is not saved.
SavedIfChanged(g) == IF g = memory THEN disk ELSE g

\* save_graph writes what the closure left, whether it is new or not.
Saved(g) == g

Fault == faults < MaxFaults /\ faults' = faults + 1

\* Store::mutate for client c: the outcome, and what it leaves.
Mutate(c, outcome) ==
    LET g == Result(memory, call[c]) IN
    \/ /\ outcome = "refused" /\ ~Accepted(memory, call[c])
       /\ UNCHANGED <<memory, disk, faults>>
    \/ /\ outcome = "ok" /\ Accepted(memory, call[c])
       /\ memory' = g /\ disk' = Saved(g)
       /\ UNCHANGED faults
    \/ /\ outcome = "retry" /\ Accepted(memory, call[c])
       /\ memory' = g /\ Fault
       /\ UNCHANGED disk

\* The client is still there to take the answer; an error that is no refusal
\* makes it try again.
Answer(c) ==
    /\ phase[c] = "waiting"
    /\ \E outcome \in {"ok", "refused", "retry"} :
          Mutate(c, outcome) /\ phase' = [phase EXCEPT ![c] = outcome]
    /\ UNCHANGED <<call, copies, before>>

\* It is not; the handler runs to its end all the same.
ServeCopy(c) ==
    /\ copies[c] > 0 /\ copies' = [copies EXCEPT ![c] = @ - 1]
    /\ \E outcome \in {"ok", "refused", "retry"} : Mutate(c, outcome)
    /\ UNCHANGED <<call, phase, before>>

\* What is in memory only is lost, with all requests under way.
Restart ==
    /\ Fault
    /\ memory' = disk
    /\ phase' = [c \in Clients |-> IF phase[c] = "waiting" THEN "retry" ELSE phase[c]]
    /\ copies' = [c \in Clients |-> 0]
    /\ UNCHANGED <<call, disk, before>>

-----------------------------------------------------------------------------
(* The clients                                                             *)

Send(c) ==
    /\ phase[c] \in {"new", "retry"}
    /\ phase' = [phase EXCEPT ![c] = "waiting"]
    /\ before' = IF phase[c] = "new"
                 THEN [before EXCEPT ![c] = {d \in Clients : phase[d] = "ok"}] ELSE before
    /\ UNCHANGED <<call, copies, memory, disk, faults>>

GiveUp(c) ==
    /\ phase[c] = "waiting" /\ Fault
    /\ phase' = [phase EXCEPT ![c] = "retry"]
    /\ copies' = [copies EXCEPT ![c] = @ + 1]
    /\ UNCHANGED <<call, memory, disk, before>>

Next ==
    \/ \E c \in Clients : Answer(c) \/ ServeCopy(c) \/ Send(c) \/ GiveUp(c)
    \/ Restart

Spec == Init /\ [][Next]_vars

-----------------------------------------------------------------------------
\* The call of c can no longer change g.
Done(g, c) == Accepted(g, call[c]) /\ Result(g, call[c]) = g

\* A success is a success on disk: whatever saves failed before, the file holds
\* all that an acknowledged call asked for, also what an attempt whose save
\* failed had left in memory only, and a restart does not undo it.
OkMeansDurable ==
    \A c \in Clients : phase[c] = "ok" => Done(disk, c) /\ Done(memory, c)

\* The call o is made once more, after those that left r.
MakeOne(r, o) ==
    IF r.ok /\ Accepted(r.graph, o) THEN [ok |-> TRUE, graph |-> Result(r.graph, o)]
    ELSE [ok |-> FALSE, graph |-> r.graph]

\* What the calls of s leave, made once each and in that order.
RunOf(s) ==
    LET after[n \in 0..Len(s)] ==
            IF n = 0 THEN [ok |-> TRUE, graph |-> InitialGraph]
            ELSE MakeOne(after[n - 1], call[s[n]])
    IN after[Len(s)]

\* s makes every acknowledged call, and no call before one that had been
\* acknowledged when it was first sent.
Explains(s) ==
    /\ {c \in Clients : phase[c] = "ok"} \subseteq {s[i] : i \in DOMAIN s}
    /\ \A i, j \in DOMAIN s : s[i] \in before[s[j]] => i < j

Explanations == {s \in UNION {SetToSeqs(S) : S \in SUBSET Clients} : Explains(s)}

\* Retries are invisible: the file, and the graph that requests are served
\* from, are what some of the calls, made once each, would have left, the
\* acknowledged ones among them and in the order the clients could observe;
\* however often each was sent and served, and whichever attempts were lost.
RetriesAreInvisible ==
    \A g \in {memory, disk} : \E s \in Explanations : RunOf(s) = [ok |-> TRUE, graph |-> g]

\* A client whose observations are in the file and in memory is not refused
\* when it asks again, although what they supersede is superseded by then: it
\* could not tell that from a call that never was made.
Recorded(g, c) ==
    \A i \in DOMAIN call[c].batch :
        /\ HasEntity(g, call[c].batch[i].entity)
        /\ call[c].batch[i].text \in Texts(EntityOf(g, call[c].batch[i].entity))

DoneIsNotRefused ==
    [][ \A c \in Clients :
          /\ call[c].tool = "add_observations" /\ phase[c] # "refused"
          /\ Recorded(disk, c) /\ Recorded(memory, c)
          => phase'[c] # "refused" ]_vars
=============================================================================
