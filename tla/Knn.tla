-------------------------------- MODULE Knn --------------------------------
(***************************************************************************)
(* The life of a vector index after its build (see KnnBuilder): Save,      *)
(* knn::KNN_c::Load, the search of HNSWIndex_c, and the iterator over what *)
(* it finds (knn/iterator.cpp).  A document may have several vectors; then *)
(* the file holds a map from vector ids to documents, which the filter of  *)
(* a search and the graph itself go through, so that a document is found   *)
(* once.  The graph and its approximate search are hnswlib: a search may   *)
(* find any of the documents the filter allows, in any order.              *)
(***************************************************************************)
EXTENDS KnnBuilder, Integers

CONSTANTS
    StorageVersion,     \* STORAGE_VERSION, of the library that loads
    Filters,            \* the sets of rows a filter may allow
    Results,            \* how many results may be asked for
    RadixThreshold,     \* RADIX_THRESHOLD (128)
    Radix, Passes,      \* the values of a digit of a row id (256), and its digits (4)
    DocsPerChunk,       \* DOCS_PER_CHUNK (1000)
    Hints               \* the rows a caller may hint

ASSUME SearchAssumption ==
    /\ StorageVersion \in Nat
    /\ Results \subseteq Nat /\ Hints \subseteq Nat
    /\ RadixThreshold \in Nat /\ Radix \in Nat \ {0} /\ Passes \in Nat
    /\ DocsPerChunk \in Nat \ {0}

VARIABLES
    file,               \* the file of the index
    index,              \* the loaded index
    filter,             \* the filter of the last search, Nothing when it had none
    collected,          \* m_dCollected: the documents found, by row id
    iIndex,             \* m_iIndex
    found,              \* history: what the last search found
    hint,               \* history: the largest row hinted since
    returned,           \* history: the rows returned since
    front,              \* history: one past the last row returned, or -1 once a row
                        \* came again or after a larger one
    ended               \* history: a call answered "no more rows"

iterator == <<filter, collected, iIndex, found, hint, returned, front, ended>>
vars == <<buildVars, file, index, iterator>>

InitAll ==
    /\ Init
    /\ file = Nothing /\ index = Nothing
    /\ filter = Nothing
    /\ collected = << >> /\ iIndex = 0
    /\ found = {} /\ hint = 0 /\ returned = {} /\ front = 0 /\ ended = FALSE

Build == BuildNext /\ UNCHANGED <<file, index, iterator>>
----------------------------------------------------------------------------
(* Save and Load. *)

\* The map of a multi attribute: the document of every vector id.
VidToRowid ==
    LET map[rows \in 0 .. NumDocs] ==
            IF rows = 0 THEN << >>
            ELSE map[rows - 1] \o [i \in 1 .. counts[rows - 1] |-> rows - 1]
    IN  map[NumDocs]

\* The encoding is finalized, which lets go of the pool and its file, and everything
\* is written.
Save ==
    /\ Added
    /\ phase' = "saved"
    /\ pool' = << >>
    /\ file' = [version |-> build.version, multi |-> build.multi, quantized |-> Quantized,
                map |-> IF build.multi THEN VidToRowid ELSE << >>, graph |-> graph]
    /\ UNCHANGED <<build, training, threads, graph, index, iterator>>

\* The file is not opened, or a write fails.
SaveFails ==
    /\ Added
    /\ phase' = "failed"
    /\ UNCHANGED <<build, training, pool, threads, graph, file, index, iterator>>

\* The versions that can be read, and quantization only since 3.
Readable ==
    /\ file.version >= 2 /\ file.version <= StorageVersion
    /\ file.version = 2 => ~file.quantized

\* A file of another version is refused, and so is one that cannot be read.
LoadRefuses ==
    /\ phase = "saved"
    /\ phase' = "refused"
    /\ UNCHANGED <<build, training, pool, threads, graph, file, index, iterator>>

Load ==
    /\ phase = "saved" /\ Readable
    /\ phase' = "loaded"
    /\ index' = [map |-> IF file.version >= 4 /\ file.multi THEN file.map ELSE << >>,
                 graph |-> file.graph]
    /\ UNCHANGED <<build, training, pool, threads, graph, file, iterator>>
----------------------------------------------------------------------------
(* Search. *)

\* The graph has the map as its groups, and answers with the group of what it finds.
RowOf(id) == IF index.map = << >> THEN id ELSE index.map[id + 1]

\* Mutant: the filter is asked about the vector id.
IsAllowedById(id) == filter' = Nothing \/ id \in filter'

\* HNSWFilterWrapper_c, or no filter.
IsAllowed(id) == filter' = Nothing \/ RowOf(id) \in filter'

\* searchKnn: up to k documents, each once.
SearchKnn(k) ==
    {rows \in SUBSET {RowOf(id) : id \in {id \in DOMAIN index.graph : IsAllowed(id)}} :
        Cardinality(rows) <= k}

\* One pass of the radix sort: the entries by their digit, in the order they had.
Digit(row, pass) == (row \div Radix ^ pass) % Radix
SortPass(rows, pass) ==
    FoldLeft(\o, << >>,
        [d \in 1 .. Radix |-> SelectSeq(rows, LAMBDA row : Digit(row, pass) = d - 1)])

SortByRowID(rows) ==
    IF Len(rows) < RadixThreshold THEN SortSeq(rows, LAMBDA a, b : a < b)
    ELSE FoldLeft(SortPass, rows, [p \in 1 .. Passes |-> p - 1])

\* CreateIterator: the constructor of RowidIteratorKNN_c searches and sorts.
CreateIterator ==
    /\ phase = "loaded"
    /\ filter' \in Filters \cup {Nothing}
    /\ \E k \in Results :
          /\ found' \in SearchKnn(k)
          /\ \E raw \in SetToSeqs(found') : collected' = SortByRowID(raw)
    /\ iIndex' = 0
    /\ hint' = 0 /\ returned' = {} /\ front' = 0 /\ ended' = FALSE
    /\ UNCHANGED <<buildVars, file, index>>
----------------------------------------------------------------------------
(* The iterator. *)

InOrderFrom(row, chunk) ==
    row <= chunk[1] /\ \A i \in 2 .. Len(chunk) : chunk[i - 1] < chunk[i]

GetNextRowIdBlock ==
    LET size == IF Len(collected) - iIndex > DocsPerChunk THEN DocsPerChunk
                ELSE Len(collected) - iIndex
        chunk == SubSeq(collected, iIndex + 1, iIndex + size)
    IN  /\ phase = "loaded"
        /\ iIndex' = iIndex + size
        /\ IF size = 0
           THEN ended' = TRUE /\ UNCHANGED <<returned, front>>
           ELSE /\ returned' = returned \cup ToSet(chunk)
                /\ front' = IF front >= 0 /\ InOrderFrom(front, chunk) THEN chunk[size] + 1 ELSE -1
                /\ UNCHANGED ended
        /\ UNCHANGED <<buildVars, file, index, filter, collected, found, hint>>

\* Mutant: the search for the row starts at the first document found.
NotBelowFromStart(r) == {i \in 0 .. Len(collected) - 1 : collected[i + 1] >= r}

\* The places lower_bound can answer with.
NotBelow(r) == {i \in iIndex .. Len(collected) - 1 : collected[i + 1] >= r}

HintRowID ==
    /\ phase = "loaded"
    /\ \E r \in Hints :
          /\ hint' = IF r > hint THEN r ELSE hint
          /\ IF iIndex < Len(collected) /\ NotBelow(r) # {}
             THEN iIndex' = Min(NotBelow(r)) /\ UNCHANGED ended
             ELSE iIndex' = Len(collected) /\ ended' = TRUE
    /\ UNCHANGED <<buildVars, file, index, filter, collected, found, returned, front>>

Next ==
    \/ Build \/ Save \/ SaveFails \/ LoadRefuses \/ Load
    \/ CreateIterator \/ GetNextRowIdBlock \/ HintRowID

Spec == InitAll /\ [][Next]_vars
----------------------------------------------------------------------------
(* Properties. *)

\* However documents were spread over threads and ids, a loaded index holds every
\* vector of every document under an id that leads back to that document; and what a
\* search finds are documents with a vector, which the filter of the caller allows.
FindsItsDocs ==
    phase = "loaded" =>
        /\ {index.graph[id] : id \in DOMAIN index.graph} = AllVectors
        /\ \A id \in DOMAIN index.graph : RowOf(id) = index.graph[id].row
        /\ \A row \in found :
              /\ \E v \in AllVectors : v.row = row
              /\ filter = Nothing \/ row \in filter

\* The iterator keeps the contract of BlockIterator_i: the documents found are handed
\* out once and by row id, in chunks, whatever is hinted in between.
Owed == {row \in found : row >= hint /\ row \notin returned}
Stream == INSTANCE RowStream WITH Row <- 0 .. Radix ^ Passes - 1, HintRow <- Hints, owed <- Owed
ImplementsStream == Stream!Spec
=============================================================================
