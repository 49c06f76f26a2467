------------------------------- MODULE Judge -------------------------------
(***************************************************************************)
(* compare_results of execution/judge.py: when the rows a submission gave  *)
(* count as the rows that were wanted. Rows have two values; None is Null. *)
(***************************************************************************)
EXTENDS Platform, Sequences

CONSTANTS
    Columns,    \* headers of a result
    Numbers,    \* values that are not None
    MaxRows     \* bound: rows of a result

ASSUME JudgeAssumption == Numbers \subseteq Int /\ MaxRows \in Nat

VARIABLES got, expected, ordered, verdict

judgeVars == <<got, expected, ordered, verdict>>

Row     == (Numbers \cup {Null}) \X (Numbers \cup {Null})
Results == [columns : Columns, rows : UNION {[1..n -> Row] : n \in 0..MaxRows}]

JudgeInit == got \in Results /\ expected \in Results /\ ordered \in BOOLEAN /\ verdict = Null

(* Python compares tuples where they first differ, and fails there on None.*)
First(r, s)      == IF r[1] # s[1] THEN 1 ELSE 2
Comparable(r, s) == r # s => r[First(r, s)] # Null /\ s[First(r, s)] # Null
Less(r, s)       == r # s /\ r[First(r, s)] < s[First(r, s)]

(* sorted() raises when any two rows are not comparable: what it has not   *)
(* ordered yet would lie next to each other.                               *)
Sortable(rows) == \A i, j \in DOMAIN rows : Comparable(rows[i], rows[j])

(* sorted() is stable: equal rows stay in their order.                     *)
Before(rows, i, j) == Less(rows[i], rows[j]) \/ (rows[i] = rows[j] /\ i < j)

Place(rows, i) == 1 + Cardinality({j \in DOMAIN rows : Before(rows, j, i)})

Sorted(rows) ==
    [k \in DOMAIN rows |-> rows[CHOOSE i \in DOMAIN rows : Place(rows, i) = k]]

(* Both are sorted, or the exception leaves the order as it is. Mutated    *)
(* form: the expected rows are taken as they come.                         *)
GotRows == IF ~ordered /\ Sortable(got.rows) THEN Sorted(got.rows) ELSE got.rows

AsTheyCome == expected.rows
ExpectedRows ==
    IF ~ordered /\ Sortable(got.rows) /\ Sortable(expected.rows)
    THEN Sorted(expected.rows) ELSE expected.rows

Correct ==
    /\ got.columns = expected.columns
    /\ Len(got.rows) = Len(expected.rows)
    /\ GotRows = ExpectedRows

Compare ==
    /\ verdict = Null
    /\ verdict' = Correct
    /\ UNCHANGED <<got, expected, ordered>>

JudgeSpec == JudgeInit /\ [][Compare]_judgeVars

----------------------------------------------------------------------------
Times(r, rows) == Cardinality({i \in DOMAIN rows : rows[i] = r})
SameRows == \A r \in Row : Times(r, got.rows) = Times(r, expected.rows)

(* Nothing is accepted but the rows that were wanted, in their order where *)
(* it counts; and where it does not, every order is accepted, unless rows  *)
(* differ first where one of them holds None: no two such can be sorted,   *)
(* and the order counts after all (compare_results).                       *)
VerdictIsFair ==
    verdict # Null =>
        /\ verdict => got.columns = expected.columns /\ SameRows
        /\ verdict /\ ordered => got.rows = expected.rows
        /\ got.columns = expected.columns /\ SameRows
               /\ ((~ordered /\ Sortable(expected.rows)) \/ got.rows = expected.rows) => verdict
=============================================================================
