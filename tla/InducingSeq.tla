----------------------------- MODULE InducingSeq -----------------------------
(***************************************************************************)
(* Sequential induced sorting of one pass: what a pass of the pipeline in  *)
(* parallel_sais.hpp promises.  The scan visits the cells of SA one by one *)
(* (left to right for L-types, right to left for S-types); a visited       *)
(* suffix p puts suffix p-1, if it has the type of the pass, at the head   *)
(* (tail) of the bucket of its first character.                            *)
(*                                                                         *)
(* This is the algorithm the source keeps, commented out, as               *)
(* induce_L_Types_sequential / induce_S_Types_sequential.                  *)
(***************************************************************************)
EXTENDS SaisText

CONSTANTS
  K,       \* alphabet size with the sentinel
  None     \* static_cast<sa_index>(-1), an empty cell

VARIABLES
  s, t,        \* text and suffix types
  SA,          \* the suffix array under construction
  buckets,     \* next free cell of every bucket
  type,        \* L_Type or S_Type
  scanned      \* number of cells the scan has passed

vars == << s, t, SA, buckets, type, scanned >>

ScanCell ==
  IF type = L_Type THEN scanned ELSE Len(s) - 1 - scanned

\* The suffix the visited cell induces, if any.
Inducible(v) ==
  /\ v - 1 \in Positions(s)
  /\ t[v - 1] = type

InduceCell ==
  LET pos == SA[ScanCell] - 1
      chr == At(s, pos)
      idx == IF type = L_Type THEN buckets[chr] ELSE buckets[chr] - 1
  IN  IF Inducible(SA[ScanCell])
        THEN /\ SA' = [ SA EXCEPT ![idx] = pos ]
             /\ buckets' = [ buckets EXCEPT
                   ![chr] = IF type = L_Type THEN @ + 1 ELSE @ - 1 ]
        ELSE UNCHANGED << SA, buckets >>

Visit ==
  /\ scanned < Len(s)
  /\ InduceCell
  /\ scanned' = scanned + 1
  /\ UNCHANGED << s, t, type >>

\* The next pass: the buckets are generated afresh.
NextPass ==
  /\ scanned = Len(s)
  /\ type = L_Type
  /\ type' = S_Type
  /\ buckets' = generate_buckets(s, K, TRUE)
  /\ scanned' = 0
  /\ UNCHANGED << s, t, SA >>

Next == Visit \/ NextPass

\* The pass over the cells begins with the LMS suffixes in their buckets; how
\* they got there is the caller's business.
Init ==
  /\ type = L_Type
  /\ scanned = 0
  /\ t = Types(s)
  /\ buckets = generate_buckets(s, K, FALSE)

Spec == Init /\ [][Next]_vars

=============================================================================
