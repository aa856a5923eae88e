------------------------------- MODULE Filters -------------------------------
(***************************************************************************)
(* The filters a secondary index is asked with, over an unsigned integer   *)
(* attribute: what the caller means by one, and what FixupFilter           *)
(* (secondary/secondary.cpp) and FixupFilterSettings (common/filter.cpp)   *)
(* make of it before a reader sees it.  The values and the ends of a filter *)
(* are of a wider, signed type than the attribute.                         *)
(***************************************************************************)
EXTENDS ValueBlocks, SequencesExt

CONSTANTS
    TypeMax,            \* UINT_MAX: the largest value of the attribute's type
    WideMin, WideMax,   \* INT64_MIN, INT64_MAX: the limits of a filter
    Ends                \* the ends a range may have, within the limits

ASSUME RangeAssumption ==
    /\ TypeMax \in Nat /\ \A i \in DOMAIN Values : Values[i] <= TypeMax
    /\ {WideMin, WideMax} \subseteq Int /\ WideMin < 0 /\ TypeMax < WideMax
    /\ Ends \subseteq WideMin .. WideMax

\* The conversion of a value of the wider type to the attribute's.
Narrow(x) == x % (TypeMax + 1)
----------------------------------------------------------------------------
(* VALUES. *)

\* Mutant: values outside the attribute are kept whatever the filter.
RemoveOutOfRangeValuesNever(dValues, bExclude) == dValues

\* What lies outside the least and the greatest value of the column is removed from
\* a filter that includes its values.  One that excludes them keeps them all, even
\* those outside the attribute's type, which narrow to some value of it.
RemoveOutOfRangeValues(dValues, bExclude) ==
    IF bExclude THEN dValues ELSE {v \in dValues : Values[1] <= v /\ v <= Last(Values)}
----------------------------------------------------------------------------
(* RANGE, and NOTNULL, which becomes a range without ends. *)

Filter == [min : Ends, max : Ends, leftClosed : BOOLEAN, rightClosed : BOOLEAN,
           leftUnbounded : BOOLEAN, rightUnbounded : BOOLEAN]

\* What the caller means.
Matches(f, v) ==
    /\ f.leftUnbounded \/ f.min < v \/ (f.leftClosed /\ f.min = v)
    /\ f.rightUnbounded \/ v < f.max \/ (f.rightClosed /\ f.max = v)

FixupLeft(f) ==
    IF f.min < 0
    THEN [f EXCEPT !.min = WideMin, !.leftUnbounded = TRUE, !.leftClosed = FALSE]
    ELSE f
FixupRight(f) ==
    IF f.max > TypeMax
    THEN [f EXCEPT !.max = WideMax, !.rightUnbounded = TRUE, !.rightClosed = FALSE]
    ELSE f

\* A filter whose lower end is negative, or whose upper end is too large for the
\* type, is unbounded there.
FixupFilterSettings(f) == FixupRight(FixupLeft(f))
=============================================================================
