----------------------------- MODULE IndexLife -----------------------------
(***************************************************************************)
(* What the owner of a secondary index relies on, from its file to the     *)
(* queries: the file is there as a whole or not at all; an attribute whose  *)
(* column was updated stays disabled, with its whole family, for as long as *)
(* the index is open, and after a save for as long as the file lives.       *)
(***************************************************************************)
CONSTANTS
    Attr,           \* the attributes of the index
    Family          \* with every attribute, the ones that are disabled with it

VARIABLES
    whole,          \* whether there is a complete file
    open,           \* whether an index is open over it
    onDisk,         \* the attributes the file has as disabled
    inMemory        \* the ones the open index has as disabled

vars == <<whole, open, onDisk, inMemory>>

Init == ~whole /\ ~open /\ onDisk = {} /\ inMemory = {}

Publish ==
    /\ ~whole
    /\ whole' = TRUE
    /\ UNCHANGED <<open, onDisk, inMemory>>

Discard ==
    /\ whole /\ ~open
    /\ whole' = FALSE /\ onDisk' = {}
    /\ UNCHANGED <<open, inMemory>>

Open ==
    /\ whole /\ ~open
    /\ open' = TRUE /\ inMemory' = onDisk
    /\ UNCHANGED <<whole, onDisk>>

Update(a) ==
    /\ open
    /\ inMemory' = inMemory \cup Family[a]
    /\ UNCHANGED <<whole, open, onDisk>>

Save ==
    /\ open
    /\ onDisk' = inMemory
    /\ UNCHANGED <<whole, open, inMemory>>

Crash ==
    /\ open
    /\ open' = FALSE /\ inMemory' = {}
    /\ UNCHANGED <<whole, onDisk>>

Next == Publish \/ Discard \/ Open \/ Save \/ Crash \/ \E a \in Attr : Update(a)

Spec == Init /\ [][Next]_vars
=============================================================================
