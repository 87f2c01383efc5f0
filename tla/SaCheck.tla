------------------------------- MODULE SaCheck -------------------------------
(***************************************************************************)
(* util/sa_check.hpp: is an array the suffix array of a text?  Everything  *)
(* that the program reports about a construction rests on this check.      *)
(*   naive    sort the suffixes and compare;                               *)
(*   sorter   sort (value, place) pairs by value, which must give every    *)
(*            position once; then, in the order of the array, compare      *)
(*            neighbours by first character and by the place of what       *)
(*            follows it;                                                  *)
(*   fast     compare neighbouring suffixes in full.                       *)
(* The text has no sentinel: a suffix is smaller than its extensions.      *)
(* The loops are sequential and leave at the first fault.                  *)
(***************************************************************************)
EXTENDS Integers, Sequences, FiniteSets

CONSTANTS
  Characters,
  MaxLength,
  MaxIndex       \* the largest value of sa_index_type

CheckAssumption ==
  /\ Characters \subseteq Nat
  /\ MaxLength \in Nat
  /\ MaxIndex \in Nat
  /\ MaxLength + 1 <= MaxIndex      \* can_represent_all_values(sa.size() + 1)

VARIABLES
  text,
  sa,
  check,         \* "naive", "sorter" or "fast"
  place,         \* "begin", "sort", "permutation", "order", "neighbours" or "done"
  i,
  P,             \* places by text position, as the first sort leaves them
  result

vars == << text, sa, check, place, i, P, result >>

N == Len(text)
Positions == 0 .. N - 1
At(x, k) == x[k + 1]

\* Suffix p is smaller than suffix q.
SuffixLess(p, q) ==
  \E k \in 0 .. N :
    /\ p + k <= N /\ q + k < N
    /\ \A j \in 0 .. k - 1 : At(text, p + j) = At(text, q + j)
    /\ p + k = N \/ At(text, p + k) < At(text, q + k)

IsPermutation ==
  Len(sa) = N /\ { sa[k] : k \in 1 .. Len(sa) } = Positions

IsSuffixArray ==
  IsPermutation /\ \A k \in 1 .. N - 1 : SuffixLess(sa[k], sa[k + 1])

Arrays(m) == [1 .. m -> 0 .. MaxIndex]

Init ==
  /\ text \in UNION { [1 .. m -> Characters] : m \in 0 .. MaxLength }
  /\ sa \in UNION { Arrays(m) : m \in { N - 1, N, N + 1 } \cap 0 .. MaxLength }
  /\ check \in { "naive", "sorter", "fast" }
  /\ place = "begin"
  /\ i = 0
  /\ P = << >>
  /\ result = "ok"

Report(res) == result' = res /\ place' = "done"

CompareLengths ==
  /\ place = "begin"
  /\ IF Len(sa) # N THEN Report("wrong_length")
     ELSE /\ result' = result
          /\ place' = [ naive |-> "sort", sorter |-> "permutation",
                        fast |-> "neighbours" ][check]
  /\ i' = IF check = "fast" THEN 1 ELSE 0
  /\ UNCHANGED << text, sa, check, P >>

-----------------------------------------------------------------------------
(* sa_check_naive_sorter *)

CompareWithSorted ==
  LET naive == [ k \in Positions |-> CHOOSE p \in Positions :
                   k = Cardinality({ q \in Positions : SuffixLess(q, p) }) ]
  IN  /\ place = "sort"
      /\ Report(IF \A k \in Positions : naive[k] = At(sa, k) THEN "ok"
                ELSE "not_suffix_sorted")
      /\ UNCHANGED << text, sa, check, i, P >>

-----------------------------------------------------------------------------
(* sa_check_sorter *)

\* The sort is not stable: places with the same value come in any order.
SortByPosition ==
  /\ place = "permutation"
  /\ P = << >>
  /\ N > 0
  /\ \E p \in [Positions -> 1 .. N] :
       /\ \A k, l \in Positions : k < l => At(sa, p[k] - 1) <= At(sa, p[l] - 1)
       /\ \A k, l \in Positions : k # l => p[k] # p[l]
       /\ P' = p
  /\ UNCHANGED << text, sa, check, place, i, result >>

ComparePosition ==
  /\ place = "permutation"
  /\ N = 0 \/ P # << >>
  /\ IF i = N THEN place' = "order" /\ i' = 1 /\ UNCHANGED result
     ELSE IF At(sa, P[i] - 1) # i THEN Report("not_a_permutation") /\ i' = i
     ELSE i' = i + 1 /\ UNCHANGED << place, result >>
  /\ UNCHANGED << text, sa, check, P >>

\* Faulty variant: the character alone.
Triple_Character(p) == << At(text, p), 0 >>

\* What the order of a suffix depends on: its first character and the place,
\* in the array, of the suffix after it; 0 for the empty one.
Triple(p) == << At(text, p), IF p + 1 < N THEN P[p + 1] ELSE 0 >>

Greater(a, b) == a[1] > b[1] \/ (a[1] = b[1] /\ a[2] > b[2])

\* S[i - 1] and S[i] in the order of the array.
CompareTriples ==
  /\ place = "order"
  /\ IF i >= N THEN Report("ok") /\ i' = i
     ELSE IF Greater(Triple(At(sa, i - 1)), Triple(At(sa, i)))
       THEN Report("not_suffix_sorted") /\ i' = i
     ELSE i' = i + 1 /\ UNCHANGED << place, result >>
  /\ UNCHANGED << text, sa, check, P >>

-----------------------------------------------------------------------------
(* sa_check_fast *)

\* Faulty variant: equal suffixes are accepted.
CompareNeighbours_OrEqual ==
  /\ place = "neighbours"
  /\ IF i >= N THEN Report("ok") /\ i' = i
     ELSE IF At(sa, i - 1) >= N \/ At(sa, i) >= N
       THEN Report("not_a_permutation") /\ i' = i
     ELSE IF SuffixLess(At(sa, i), At(sa, i - 1))
       THEN Report("not_suffix_sorted") /\ i' = i
     ELSE i' = i + 1 /\ UNCHANGED << place, result >>
  /\ UNCHANGED << text, sa, check, P >>

CompareNeighbours ==
  /\ place = "neighbours"
  /\ IF i >= N THEN Report("ok") /\ i' = i
     ELSE IF At(sa, i - 1) >= N \/ At(sa, i) >= N
       THEN Report("not_a_permutation") /\ i' = i
     ELSE IF ~SuffixLess(At(sa, i - 1), At(sa, i))
       THEN Report("not_suffix_sorted") /\ i' = i
     ELSE i' = i + 1 /\ UNCHANGED << place, result >>
  /\ UNCHANGED << text, sa, check, P >>

Terminating == place = "done" /\ UNCHANGED vars

Next ==
  \/ CompareLengths
  \/ CompareWithSorted
  \/ SortByPosition \/ ComparePosition \/ CompareTriples
  \/ CompareNeighbours
  \/ Terminating

Spec == Init /\ [][Next]_vars /\ WF_vars(Next)

-----------------------------------------------------------------------------
(* Properties *)

\* The checks by sorting accept suffix arrays and nothing else, although the
\* second never compares two suffixes.
SorterIsExact ==
  place = "done" /\ check \in { "naive", "sorter" } => (result = "ok" <=> IsSuffixArray)

\* So does the fast check when there are neighbours to compare.
FastIsExact ==
  place = "done" /\ check = "fast" /\ N # 1 => (result = "ok" <=> IsSuffixArray)

=============================================================================
