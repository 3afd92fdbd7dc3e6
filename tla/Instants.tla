------------------------------ MODULE Instants -------------------------------
(***************************************************************************)
(* Instants as clients write them and validate_instant (src/src/mcp.rs)    *)
(* accepts them, as now_iso (src/src/graph.rs) writes them, and as         *)
(* search_facts compares them: as strings.                                 *)
(*                                                                         *)
(*   instant  [date, padded, clock, fraction, sign, offset]                *)
(*                                                                         *)
(* A date is its number, which digits of fixed width order as; a month or  *)
(* day below ten may have been written with one digit (not padded).        *)
(* 2026-05-01 has neither clock nor fraction (Absent).  Otherwise the      *)
(* clock is in seconds, the fraction has all its digits or is Absent, and  *)
(* the zone is Plus or Minus with an offset, or Zulu.  A date counts as    *)
(* its midnight in UTC.                                                    *)
(***************************************************************************)
EXTENDS Integers, Sequences

CONSTANTS
    DaySeconds,   \* seconds of a day
    HourSeconds,  \* seconds of an hour
    Precision     \* values of a fraction of a second

ASSUME InstantAssumption ==
    /\ DaySeconds \in Nat \ {0} /\ HourSeconds \in Nat \ {0}
    /\ Precision \in Nat \ {0}

Absent == -1

\* The characters that may follow the seconds, in their order as characters.
Plus == 0
Minus == 1
Dot == 2
Zulu == 3

\* The end of a field that lacks its second digit: before every digit.
End == -1

Date == [date : Nat, padded : BOOLEAN,
         clock : {Absent}, fraction : {Absent}, sign : {Plus}, offset : {0}]
DateTime == [date : Nat, padded : {TRUE}, clock : 0..(DaySeconds - 1),
             fraction : {Absent} \cup 0..(Precision - 1),
             sign : {Plus, Minus, Zulu}, offset : Nat]

\* validate_instant: a date as chrono reads %Y-%m-%d, which asks for no padding,
\* or RFC 3339.
Accepted == {w \in Date : ~w.padded => w.date < 10}
                \cup {w \in DateTime : w.sign = Zulu => w.offset = 0}

\* Mutant of NowIso: seconds, and a Z.
NowIsoZulu(date, clock, fraction) ==
    [date |-> date, padded |-> TRUE, clock |-> clock, fraction |-> Absent,
     sign |-> Zulu, offset |-> 0]

\* now_iso: all digits, and +00:00.
NowIso(date, clock, fraction) ==
    [date |-> date, padded |-> TRUE, clock |-> clock, fraction |-> fraction,
     sign |-> Plus, offset |-> 0]

\* The last digits of the date.
Digits(w) == IF w.padded THEN <<w.date \div 10, w.date % 10>> ELSE <<w.date, End>>

\* The string, as far as the order of strings goes: a shorter one that begins
\* another comes before it, and after the seconds comes a dot or the zone.
Spelling(w) ==
    Digits(w) \o IF w.fraction = Absent
                 THEN <<w.clock, w.sign, w.offset, 0, 0>>
                 ELSE <<w.clock, Dot, w.fraction, w.sign, w.offset>>

\* v < w as strings.
Before(v, w) ==
    \E i \in 1..7 :
        /\ Spelling(v)[i] < Spelling(w)[i]
        /\ \A j \in 1..(i - 1) : Spelling(v)[j] = Spelling(w)[j]

\* The instant that w stands for, in fractions of a second.
TimeOf(w) ==
    LET local == w.date * DaySeconds + (IF w.clock = Absent THEN 0 ELSE w.clock)
        behind == w.offset * HourSeconds
        utc == IF w.sign = Minus THEN local + behind ELSE local - behind
    IN utc * Precision + (IF w.fraction = Absent THEN 0 ELSE w.fraction)

\* What the server writes, dates with all their digits, and the instants of
\* clients that write UTC as the server does, with a fraction or without.
Canonical == {w \in Accepted : w.padded /\ w.sign = Plus /\ w.offset = 0}
=============================================================================
