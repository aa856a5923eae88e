----------------------------- MODULE RowStream -----------------------------
(***************************************************************************)
(* The contract of common::BlockIterator_i, the only interface through     *)
(* which the daemon reads rows out of this library (common/blockiterator.h).*)
(* An iterator owes its caller a set of row ids.  GetNextRowIdBlock pays   *)
(* some of them off, in ascending order and without gaps; HintRowID lets   *)
(* the caller waive every row below a row id; and neither may answer       *)
(* "no more rows" while a row is still owed.  A block may hold rows nobody *)
(* asked for (the bounds of a query only select whole blocks), but never a *)
(* row at or below one handed out before.                                  *)
(***************************************************************************)
EXTENDS Integers

CONSTANTS
    Row,                \* the row ids of the shard
    HintRow             \* the row ids a caller may hint

VARIABLES
    owed,               \* rows of the answer neither returned nor waived
    front,              \* every row returned so far is below front
    ended               \* a call has answered "no more rows"

streamVars == <<owed, front, ended>>

Init ==
    /\ owed \in SUBSET Row
    /\ front = 0
    /\ ended = FALSE

\* GetNextRowIdBlock returns true and a block of rows from front to last, with
\* every row owed up to last in it, and perhaps others.
Deliver ==
    \E last \in Row :
        /\ ~ended
        /\ last >= front
        /\ \A r \in owed : r <= last => r >= front
        /\ front' = last + 1
        /\ owed' = {r \in owed : r > last}
        /\ UNCHANGED ended

\* GetNextRowIdBlock returns false.
Exhaust ==
    /\ owed = {}
    /\ ended' = TRUE
    /\ UNCHANGED <<owed, front>>

\* HintRowID ( r ): the caller will not ask for rows below r any more.  It may
\* answer false only if that leaves nothing owed.
Hint ==
    \E r \in HintRow :
        /\ owed' = {x \in owed : x >= r}
        /\ UNCHANGED front
        /\ \/ UNCHANGED ended
           \/ owed' = {} /\ ended' = TRUE

\* The iterator is pointed at another list of rows.
Restart ==
    /\ owed' \in SUBSET Row
    /\ front' = 0
    /\ ended' = FALSE

Next == Deliver \/ Exhaust \/ Hint \/ Restart

Spec == Init /\ [][Next]_streamVars
=============================================================================
