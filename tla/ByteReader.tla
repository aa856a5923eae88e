----------------------------- MODULE ByteReader -----------------------------
(***************************************************************************)
(* What the code that parses a file relies on in util::FileReader_c and    *)
(* util::MappedReader_c (util/reader.h): a position in the file, reads     *)
(* that give the bytes there and move on, and an error flag that stays.  A *)
(* read fails only at the end of the file or if the system fails it.       *)
(***************************************************************************)
EXTENDS Integers, Sequences

CONSTANTS
    MaxLen,             \* the longest read
    Lost                \* what a failed read gives: nothing to rely on

VARIABLES
    file,               \* the bytes
    pos,                \* the position
    failed,             \* the error flag
    got,                \* the bytes of the last read
    disturbed           \* the system failed a read, or cut it short, in the last call

readerVars == <<file, pos, failed, got, disturbed>>

Init ==
    /\ pos = 0
    /\ failed = FALSE
    /\ got = << >>
    /\ disturbed = FALSE

\* A read succeeds, an empty one anywhere; a number read after an error is 0 all the same.
Take ==
    \E n \in 0..MaxLen :
        /\ n = 0 \/ pos + n <= Len(file)
        /\ pos' = pos + n
        /\ \/ got' = SubSeq(file, pos + 1, pos + n)
           \/ failed /\ got' = Lost
        /\ disturbed' \in BOOLEAN
        /\ UNCHANGED <<file, failed>>

\* A read fails, and the flag says so.
Fail ==
    \E n \in 0..MaxLen :
        /\ pos + n > Len(file) \/ disturbed'
        /\ pos' \in pos..(pos + n)
        /\ failed' = TRUE
        /\ got' = Lost
        /\ disturbed' \in BOOLEAN
        /\ UNCHANGED file

SeekTo ==
    /\ pos' \in Nat
    /\ UNCHANGED <<file, failed, got, disturbed>>

\* A call begins, or the system disturbs it.
Progress ==
    /\ disturbed' \in BOOLEAN
    /\ UNCHANGED <<file, pos, failed, got>>

Next == Take \/ Fail \/ SeekTo \/ Progress

Spec == Init /\ [][Next]_readerVars
=============================================================================
