------------------------------- MODULE MCKnn -------------------------------
(* Small instances of Knn: documents with no, one and several vectors, row  *)
(* ids of two digits of three, one build with more vectors than there are   *)
(* ids, and files of every version.                                        *)
EXTENDS Knn

CONSTANTS t1, t2

MCBuilds ==
    {[multi |-> TRUE, quantization |-> "BIT1", counts |-> <<2, 0, 1, 2>>, version |-> 4],
     [multi |-> TRUE, quantization |-> "BIT8", counts |-> <<0, 1, 2, 1>>, version |-> 4],
     [multi |-> TRUE, quantization |-> "NONE", counts |-> <<1, 3, 0, 1, 1>>, version |-> 4],
     [multi |-> TRUE, quantization |-> "BIT1", counts |-> <<0, 0>>, version |-> 4],
     [multi |-> TRUE, quantization |-> "BIT1", counts |-> <<1, 9>>, version |-> 4],
     [multi |-> TRUE, quantization |-> "NONE", counts |-> <<5, 4>>, version |-> 4],
     [multi |-> FALSE, quantization |-> "BIT1", counts |-> <<1, 1, 1, 1>>, version |-> 4],
     [multi |-> FALSE, quantization |-> "NONE", counts |-> << >>, version |-> 4]} \cup
    {[multi |-> FALSE, quantization |-> q, counts |-> <<1, 1>>, version |-> v] :
        q \in {"NONE", "BIT8"}, v \in {1, 2, 3, 5}}

MCFilters == {{}, {1, 3}, {0, 2, 4}, {2, 3, 4}}
=============================================================================
