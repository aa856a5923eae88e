----------------------------- MODULE KnnBuilder -----------------------------
(***************************************************************************)
(* knn::HNSWIndexBuilder_c and its quantizer (knn/knn.cpp,                 *)
(* knn/quantizer.cpp): the build of the vector index of one attribute.     *)
(* All documents are shown to Train by one thread; FinalizeTraining sizes  *)
(* what the vectors need; then several threads call AddDoc, each with a    *)
(* BuildContext_t of its own.  A vector that is quantized to one bit per    *)
(* dimension is compared, while the graph is built, by its four-bit form,  *)
(* which lies in a pool that all threads write and read without a lock:    *)
(* addPoint of one vector fetches the entries of others.                   *)
(* Vectors stand for their codes: what matters is which one is where.      *)
(***************************************************************************)
EXTENDS Naturals, Sequences, FiniteSets, SequencesExt

CONSTANTS
    Thread,             \* the threads that add documents
    Builds,             \* what may be built: [multi, quantization, counts, version]
    Ids,                \* 2^32, the number of vector ids
    Nothing             \* no vector; an entry of the pool nobody has written

\* counts[row + 1] is the number of vectors of a document; it is 1 if the attribute
\* is not multi, which it cannot be before version 4 of the format.
ASSUME BuildsAssumption ==
    /\ Ids \in Nat \ {0}
    /\ \A b \in Builds :
          /\ b.multi \in BOOLEAN
          /\ b.quantization \in {"NONE", "BIT1", "BIT8"}
          /\ b.counts \in Seq(Nat)
          /\ ~b.multi => \A i \in DOMAIN b.counts : b.counts[i] = 1
          /\ b.version \in Nat /\ (b.version < 4 => ~b.multi)

VARIABLES
    build,              \* the attribute and its documents: fixed
    phase,              \* "train", "add", "save"; see Knn for what follows
    trained,            \* the documents Train has seen, from the first
    counts,             \* m_dCounts
    overflow,           \* m_bCountOverflow
    base,               \* m_dBase, and m_pAlg when it is not empty
    totalVecs,          \* m_uTotalVecs of the quantizer
    finalized,          \* m_bFinalized of the quantizer
    fetcher,            \* the distance function can reach the pool
    pool,               \* m_tBuffer4Bit: the vector behind each entry
    todo,               \* the documents no thread has taken
    work,               \* per thread: the vectors left of its document
    step,               \* per thread: what it does with the first of them
    context,            \* per thread: m_dQuantized of its BuildContext_t
    graph               \* the graph: the vector stored under each id

training == <<trained, counts, overflow, base, totalVecs, finalized, fetcher>>
threads == <<todo, work, step, context>>
buildVars == <<build, phase, training, pool, threads, graph>>

NumDocs == Len(build.counts)
Docs == 0 .. NumDocs - 1
Quantized == build.quantization # "NONE"
HasPool == build.quantization = "BIT1"

Vector(row, slot) == [row |-> row, slot |-> slot]
VectorsOf(row) == [i \in 1 .. build.counts[row + 1] |-> Vector(row, i - 1)]
AllVectors == UNION {ToSet(VectorsOf(row)) : row \in Docs}

\* The function f with x mapped to y.
Put(f, x, y) == [z \in DOMAIN f \cup {x} |-> IF z = x THEN y ELSE f[z]]

Init ==
    /\ build \in Builds
    /\ phase = "train"
    /\ trained = 0
    /\ counts = IF build.multi THEN [row \in Docs |-> 0] ELSE << >>
    /\ overflow = FALSE
    /\ base = << >>
    /\ totalVecs = NumDocs
    /\ finalized = FALSE /\ fetcher = FALSE
    /\ pool = << >>
    /\ todo = Docs
    /\ work = [t \in Thread |-> << >>]
    /\ step = [t \in Thread |-> "idle"]
    /\ context = [t \in Thread |-> Nothing]
    /\ graph = << >>
----------------------------------------------------------------------------
(* Training. *)

\* Train: the count of the vectors of a row is kept in 32 bits.
Train ==
    /\ phase = "train" /\ trained < NumDocs
    /\ trained' = trained + 1
    /\ IF build.multi
       THEN /\ counts' = [counts EXCEPT ![trained] = build.counts[trained + 1] % Ids]
            /\ overflow' = (overflow \/ build.counts[trained + 1] >= Ids)
       ELSE UNCHANGED <<counts, overflow>>
    /\ UNCHANGED <<build, phase, base, totalVecs, finalized, fetcher, pool, threads, graph>>

\* m_dBase: the first id of each row, and the total.
Base == LET first[row \in 0 .. NumDocs] ==
                IF row = 0 THEN 0 ELSE first[row - 1] + counts[row - 1]
        IN  first

\* Rows with too many vectors end the build.
TooMany == build.multi /\ (overflow \/ Base[NumDocs] >= Ids)

\* Mutant: the size given to the constructor, the number of documents, is kept.
TotalVectorsOfDocs == totalVecs

\* SetTotalVectors, for a quantizer that has something to encode.
TotalVectors ==
    IF build.multi /\ Quantized /\ Base[NumDocs] > 0 THEN Base[NumDocs] ELSE totalVecs

\* What FinalizeTraining leaves of the bases, whether it succeeds or not.
SetBase == base' = IF build.multi THEN Base ELSE base

TrainingRefused ==
    /\ phase = "train" /\ trained = NumDocs
    /\ TooMany
    /\ SetBase
    /\ phase' = "failed"
    /\ UNCHANGED <<build, trained, counts, overflow, totalVecs, finalized, fetcher,
                   pool, threads, graph>>

\* The vectors the quantizer has seen.
TrainedVecs == Cardinality(AllVectors)

\* The file of the pool cannot be made, sized or mapped.  The caller may try again.
TrainingFails ==
    /\ phase = "train" /\ trained = NumDocs
    /\ ~TooMany
    /\ HasPool /\ ~finalized /\ TrainedVecs > 0
    /\ SetBase
    /\ totalVecs' = TotalVectors
    /\ UNCHANGED <<build, phase, trained, counts, overflow, finalized, fetcher,
                   pool, threads, graph>>

FinalizeTraining ==
    /\ phase = "train" /\ trained = NumDocs
    /\ ~TooMany
    /\ SetBase
    /\ totalVecs' = TotalVectors
    /\ finalized' = Quantized
    /\ fetcher' = HasPool
    /\ pool' = IF HasPool /\ TrainedVecs > 0
               THEN [id \in 0 .. totalVecs' - 1 |-> Nothing] ELSE pool
    /\ phase' = "add"
    /\ UNCHANGED <<build, trained, counts, overflow, threads, graph>>
----------------------------------------------------------------------------
(* Adding documents. *)

\* AddDoc by thread t, which goes through the vectors of the row.
AddDoc(t) ==
    /\ phase = "add" /\ step[t] = "idle"
    /\ \E row \in todo :
          /\ todo' = todo \ {row}
          /\ work' = [work EXCEPT ![t] = VectorsOf(row)]
          /\ step' = IF VectorsOf(row) = << >> THEN step ELSE [step EXCEPT ![t] = "encode"]
    /\ UNCHANGED <<build, phase, training, pool, context, graph>>

\* The id of a vector, under which it lies in the graph and in the pool.
VecID(v) == IF build.multi THEN base[v.row] + v.slot ELSE v.row

\* Encode writes the four-bit form into the pool; past its end lies other memory.
EncodeToPool(t) ==
    /\ step[t] = "encode" /\ HasPool
    /\ LET v == Head(work[t])
       IN  pool' = IF VecID(v) \in DOMAIN pool THEN Put(pool, VecID(v), v) ELSE pool
    /\ step' = [step EXCEPT ![t] = "quantize"]
    /\ UNCHANGED <<build, phase, training, todo, work, context, graph>>

\* ... and the form that is stored into the context; without a quantizer the context
\* holds the vector itself, or its normalized copy.
Encode(t) ==
    /\ step[t] = IF HasPool THEN "quantize" ELSE "encode"
    /\ work[t] # << >>
    /\ context' = [context EXCEPT ![t] = Head(work[t])]
    /\ step' = [step EXCEPT ![t] = "add"]
    /\ UNCHANGED <<build, phase, training, pool, todo, work, graph>>

\* addPoint, for which others' entries are fetched as well; then the next vector.
AddPoint(t) ==
    /\ step[t] = "add"
    /\ graph' = Put(graph, VecID(Head(work[t])), context[t])
    /\ work' = [work EXCEPT ![t] = Tail(@)]
    /\ step' = [step EXCEPT ![t] = IF Len(work[t]) > 1 THEN "encode" ELSE "idle"]
    /\ UNCHANGED <<build, phase, training, pool, todo, context>>

AddVector(t) == EncodeToPool(t) \/ Encode(t) \/ AddPoint(t)

\* The caller waits for its threads before it saves.
Added ==
    /\ phase = "add"
    /\ todo = {} /\ \A t \in Thread : step[t] = "idle"

BuildNext ==
    \/ Train \/ TrainingRefused \/ TrainingFails \/ FinalizeTraining
    \/ \E t \in Thread : AddDoc(t) \/ AddVector(t)
----------------------------------------------------------------------------
(* Properties. *)

\* Whatever the threads do, each vector another thread can meet in the graph has its
\* own four-bit form in the pool, and the distance function can fetch it: no distance
\* is taken to a form that is missing, half of another document's, or out of bounds.
FetchesOwnCode ==
    phase = "add" /\ HasPool =>
        \A id \in DOMAIN graph :
            /\ fetcher
            /\ id \in DOMAIN pool
            /\ pool[id] = graph[id]
=============================================================================
