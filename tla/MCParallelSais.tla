---------------------------- MODULE MCParallelSais ----------------------------
(* Small instances of ParallelSais for TLC. *)
EXTENDS ParallelSais

CONSTANTS
  Lengths,      \* lengths of the texts, the sentinel included
  RunLength     \* a length of which only texts of at most three runs are taken

Runs(x) == Cardinality({ p \in 1 .. Len(x) - 1 : x[p] # x[p + 1] })

ASSUME ByteAssumption == ByteBits \in Nat \ {0}

MCTexts ==
  UNION { TextsOfLength(k, K) : k \in Lengths }
    \cup { x \in TextsOfLength(RunLength, K) : Runs(x) <= 3 }

=============================================================================
