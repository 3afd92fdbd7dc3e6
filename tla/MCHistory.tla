------------------------------ MODULE MCHistory ------------------------------
(***************************************************************************)
(* Lines of facts small enough for TLC: an entity with up to four facts    *)
(* and another that may be merged into it.  The times of the graph are the *)
(* places of the written instants in the order of their strings.           *)
(***************************************************************************)
EXTENDS GraphHistory, Instants, SequencesExt

CONSTANTS
    a, b, x, y, z, w,
    Written  \* the instants that occur

ASSUME WrittenAssumption == \A v \in Written : v \in Accepted

\* One day: the date, its beginning in seconds, the same by the server's clock,
\* and a client's half a second later.
Day(date) == [date |-> date, padded |-> TRUE, clock |-> Absent, fraction |-> Absent,
              sign |-> Plus, offset |-> 0]
InSeconds == [Day(1) EXCEPT !.clock = 0]
OfServer == NowIso(1, 0, 0)
HalfPast == [InSeconds EXCEPT !.fraction = 1]

UtcForms == {Day(1), InSeconds, OfServer, HalfPast}

\* The day after, written with one digit, and the tenth.
UnpaddedForms == {OfServer, [Day(2) EXCEPT !.padded = FALSE], Day(10)}

Place(v) == Cardinality({u \in Written : Before(u, v)}) + 1
Places == {Place(v) : v \in Written}
ServerClock == {Place(OfServer)}
FirstPlace == Min(Places)
LastPlace == Max(Places)
Instant == [t \in Places |-> TimeOf(CHOOSE v \in Written : Place(v) = t)]

TwoNames == {a, b}
Wordings == {x, y, z, w}

NoBatches == {}
NoTypes == << >>

FactFrom(t, from) == [text |-> t, from |-> from, to |-> None, recorded |-> None]
EntityWith(n, facts) ==
    [name |-> n, type |-> NoType, facts |-> facts, created |-> None, updated |-> None]

\* The first fact is dated or, from a legacy file, undated; the other entity's
\* fact may have the text of one to come.
Beginning(from) ==
    [entities |-> <<EntityWith(b, <<FactFrom(y, FirstPlace)>>), EntityWith(a, <<FactFrom(x, from)>>)>>,
     relations |-> << >>]
Beginnings == {Beginning(None), Beginning(Place(InSeconds))}
Undated == {Beginning(None)}

Input(t, from, target) ==
    [entity |-> a, text |-> t, from |-> from, to |-> None, supersedes |-> target]
SingleInputs ==
    {Input(t, f, s) : t \in {x, y, z}, f \in {FirstPlace, LastPlace, None}, s \in Wordings \cup {None}}
Ending(i) == [i EXCEPT !.to = LastPlace]
Records ==
    {<<i>> : i \in SingleInputs} \cup
    {<<Ending(Input(t, None, x))>> : t \in {y, z}} \cup
    {<<Input(t, None, x), Input(u, FirstPlace, None)>> : t, u \in {y, z}}
Rewordings == {<<a, x, w>>, <<a, y, x>>}
IntoA == {<<b, a>>}

Pages ==
    {[query |-> needle, entity |-> a, asOf |-> None, since |-> s, until |-> None,
      superseded |-> all, ascending |-> up, limit |-> n] :
        needle \in {None, {x, z}}, s \in {None, 2}, all \in BOOLEAN,
        up \in BOOLEAN, n \in {1, 2}}
=============================================================================
