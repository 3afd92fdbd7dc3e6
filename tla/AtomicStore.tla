---------------------------- MODULE AtomicStore ----------------------------
(***************************************************************************)
(* What the store promises its clients, without threads, locks or files.   *)
(* Each logical file has the graph that requests are served from and the   *)
(* graph that a restart would find.  A mutation becomes durable first and  *)
(* visible next, one at a time, and is acknowledged when it is both; one   *)
(* whose save fails is visible without being durable until a later save,   *)
(* and is never acknowledged; a restart serves the durable graph.  Only a  *)
(* file that is missed when it is first used, or a power loss, takes       *)
(* durable mutations away, and "lost" tells which.                         *)
(***************************************************************************)
CONSTANTS Files, Mutations, FileOf

VARIABLES served, durable, lost, acked

avars == <<served, durable, lost, acked>>

AInit ==
    /\ served = [f \in Files |-> {}]
    /\ durable = [f \in Files |-> {}]
    /\ lost = [f \in Files |-> {}]
    /\ acked = {}

\* A save puts the whole served graph, with m, in the file.  The previous one
\* must have been published: saves of one file are serialized.
Persist(m) ==
    LET f == FileOf[m] IN
    /\ m \notin served[f] \cup acked
    /\ durable[f] \subseteq served[f] \cup lost[f]
    /\ durable' = [durable EXCEPT ![f] = served[f] \cup {m}]
    /\ UNCHANGED <<served, lost, acked>>

\* m is seen by every request from here on; nothing else appears with it.
\* It is in the file, or its save has failed.
Publish(m) ==
    LET f == FileOf[m] IN
    /\ m \notin served[f] \cup acked
    /\ durable[f] \subseteq served[f] \cup {m} \cup lost[f]
    /\ served' = [served EXCEPT ![f] = served[f] \cup {m}]
    /\ UNCHANGED <<durable, lost, acked>>

\* Only what is both visible and durable is reported as done.
Acknowledge(m) ==
    /\ m \in served[FileOf[m]] /\ m \in durable[FileOf[m]]
    /\ acked' = acked \cup {m}
    /\ UNCHANGED <<served, durable, lost>>

\* A file that has served nothing since the last restart but what it holds is
\* taken for a missing one: its graph is hidden, and goes with the next save.
Miss(f) ==
    /\ served[f] = durable[f]
    /\ served' = [served EXCEPT ![f] = {}]
    /\ lost' = [lost EXCEPT ![f] = @ \cup durable[f]]
    /\ UNCHANGED <<durable, acked>>

Restart ==
    /\ served' = durable
    /\ lost' = [f \in Files |-> lost[f] \ durable[f]]
    /\ UNCHANGED <<durable, acked>>

\* A power loss brings back some earlier state of the files.
Rollback(kept) ==
    /\ \A f \in Files : kept[f] \subseteq durable[f] \cup lost[f]
    /\ served' = kept
    /\ durable' = kept
    /\ lost' = [f \in Files |-> (lost[f] \cup durable[f]) \ kept[f]]
    /\ UNCHANGED acked

ANext ==
    \/ \E m \in Mutations : Persist(m) \/ Publish(m) \/ Acknowledge(m)
    \/ \E f \in Files : Miss(f)
    \/ Restart
    \/ \E kept \in [Files -> SUBSET Mutations] : Rollback(kept)

ASpec == AInit /\ [][ANext]_avars
=============================================================================
