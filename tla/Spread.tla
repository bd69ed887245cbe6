------------------------------- MODULE Spread --------------------------------
(***************************************************************************)
(* POST .../batch-schedule-spread of src/routes/campaigns.js: companies    *)
(* are planned perDay at a time over business days.                        *)
(*                                                                         *)
(* A calendar day is its number, counted from a Sunday: the arithmetic of  *)
(* Date.UTC carries over months and years as addition carries here.        *)
(***************************************************************************)
EXTENDS Naturals, FiniteSets

CONSTANTS
    Starts,     \* start_date
    Counts,     \* how many of the companies asked for have consent
    Paces       \* per_day

ASSUME SpreadConstants == Starts \subseteq Nat /\ Counts \subseteq Nat /\ Paces \subseteq Nat \ {0}

VARIABLES
    batch,      \* the last request answered: [start, count, perDay]
    planned     \* the day given to the i-th company of it

spreadVars == <<batch, planned>>

DayOfWeek(d) == d % 7
Weekend(d) == DayOfWeek(d) \in {0, 6}

\* Sunday and Saturday become the Monday after.
ToMonday(d) == IF DayOfWeek(d) = 0 THEN d + 1 ELSE IF DayOfWeek(d) = 6 THEN d + 2 ELSE d

\* Mutated form of the operator after the next: a remainder that ends on a Sunday is
\* moved by two days.
AddOverSunday(d, n) ==
    LET e == ToMonday(d) + (n \div 5) * 7 + (n % 5) IN IF DayOfWeek(e) = 6 THEN e + 2 ELSE e

\* Another: weeks of six days.
AddSixDayWeeks(d, n) == ToMonday(ToMonday(d) + (n \div 6) * 7 + (n % 6))

\* Whole weeks, then the remainder, pushed off a weekend it ends on: a
\* remainder that passes over a weekend is not lengthened by it.
AddBusinessDays(d, n) == ToMonday(ToMonday(d) + (n \div 5) * 7 + (n % 5))

\* The n-th business day from the first one not before d, by counting.
NthBusinessDay(d, n) ==
    CHOOSE e \in d..(d + 2 * n + 4) :
        ~Weekend(e) /\ Cardinality({x \in d..e : ~Weekend(x)}) = n + 1

\* The i-th company is planned offset days from the start.
OffsetOf(i, perDay) == i \div perDay

-----------------------------------------------------------------------------
SpreadTypeOK ==
    /\ batch \in [start : Starts, count : Counts, perDay : Paces]
    /\ planned \in [0..(batch.count - 1) -> Nat]

Answer(start, count, perDay) ==
    [i \in 0..(count - 1) |-> AddBusinessDays(start, OffsetOf(i, perDay))]

SpreadInit ==
    /\ batch \in [start : Starts, count : Counts, perDay : Paces]
    /\ planned = Answer(batch.start, batch.count, batch.perDay)

SpreadNext ==
    \E start \in Starts, count \in Counts, perDay \in Paces :
        /\ batch' = [start |-> start, count |-> count, perDay |-> perDay]
        /\ planned' = Answer(start, count, perDay)

SpreadSpec == SpreadInit /\ [][SpreadNext]_spreadVars

-----------------------------------------------------------------------------
On(d) == {i \in DOMAIN planned : planned[i] = d}

\* campaigns.js:1130: "perDay al giorno, solo giorni lavorativi".
PerDayKept == \A i \in DOMAIN planned : Cardinality(On(planned[i])) <= batch.perDay

\* Nothing is planned on a weekend or before the start, and the order of the
\* list is the order of the days.
BusinessDaysInOrder ==
    /\ \A i \in DOMAIN planned : planned[i] >= batch.start /\ ~Weekend(planned[i])
    /\ \A i, j \in DOMAIN planned : i <= j => planned[i] <= planned[j]

\* From a Monday the days are the ones a count finds: what the code gets wrong
\* is a later start, whose remainder steps over a weekend.
MondayCounted ==
    DayOfWeek(ToMonday(batch.start)) = 1 =>
        \A i \in DOMAIN planned :
            planned[i] = NthBusinessDay(batch.start, OffsetOf(i, batch.perDay))
=============================================================================
