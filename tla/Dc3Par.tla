------------------------------- MODULE Dc3Par -------------------------------
(***************************************************************************)
(* saca/dc3_par.hpp and dc3_par2.hpp: the difference cover modulo 3 with   *)
(* parallel loops, a parallel prefix sum for the names (version 1) or the  *)
(* sequential one (version 2), and util::merge_sa_dc_parallel_opt for the  *)
(* merge, of which ParallelMerge shows that it is a merge.                 *)
(*                                                                         *)
(* A call's frame in mem also has the version.                             *)
(***************************************************************************)
EXTENDS Dc3

CONSTANTS
  Versions,    \* a subset of {1, 2}
  CUTOFF       \* shorter prefix sums are sequential (2048 in the code)

CallOf(version, s) ==
  [ s |-> s, triplets_12 |-> << >>, t_12 |-> << >>, version |-> version ]

\* Triplets into the slots i - i / 3 - 1, then sorted.
determine_triplets_par(s) ==
  LET slots == [ k \in 0 .. size_12(s) - 1 |->
        LET i == CHOOSE i \in 1 .. Len(s) - 3 : i % 3 # 0 /\ i - (i \div 3) - 1 = k
        IN  Triplet(s, i) \o << i >> ]
      sorted == SortSeq([ k \in 1 .. size_12(s) |-> slots[k - 1] ], LexLess)
  IN  [ k \in 0 .. size_12(s) - 1 |-> sorted[k + 1][4] ]

\* An element of the prefix sum: the first and the last triplet's position,
\* the number of names, and whether two equal triplets were met on the way.
Element(first, last, names, recursion_) == << first, last, names, recursion_ >>

add(s, a, b) ==
  LET equal == Triplet(s, a[2]) = Triplet(s, b[1])
  IN  Element(a[1], b[2], a[3] + b[3] - IF equal THEN 1 ELSE 0, a[4] \/ b[4] \/ equal)

RECURSIVE Sums(_, _, _, _)
Sums(s, sum, elements, result) ==
  IF elements = << >> THEN result
  ELSE LET next == add(s, sum, Head(elements))
       IN  Sums(s, next, Tail(elements), Append(result, next))

\* The inclusive prefix sums of the elements << position, position, 1 >>.
\* Below the cutoff the first element is added to the identity << 0, 0, 0 >>.
PrefixSums(s, triplets_12) ==
  LET elements == [ k \in 1 .. Cardinality(DOMAIN triplets_12) |->
                      Element(triplets_12[k - 1], triplets_12[k - 1], 1, FALSE) ]
  IN  IF Len(elements) < CUTOFF
        THEN Sums(s, Element(0, 0, 0, FALSE), elements, << >>)
        ELSE Sums(s, Head(elements), Tail(elements), << Head(elements) >>)

\* Names and whether there is a recursive call.
determine_leq_par(s, triplets_12) ==
  LET size == size_12(s)
      sums == PrefixSums(s, triplets_12)
  IN  [ t_12 |-> [ k \in 0 .. size - 1 |->
                     sums[1 + CHOOSE i \in 0 .. size - 1 : PlaceOf(size, triplets_12[i]) = k][3] ],
        recursion |-> size > 0 /\ sums[size][4] ]

\* DC3-Parallel-V2 has the sequential naming of DC3.
determine_leq_2(s, triplets_12) ==
  [ t_12 |-> determine_leq(s, triplets_12), recursion |-> recursion(s, triplets_12) ]

\* The multiples of 3, those with a ranked position behind them in one loop
\* and the others in a second one, into the slots i / 3, then sorted.
induce_sa_dc_par(s, isa_12) ==
  LET ranked == 3 * start_pos_mod_2(Cardinality(DOMAIN isa_12))
      slot(k) == << At(s, 3 * k), IF 3 * k < ranked THEN isa_12[k] ELSE 0, 3 * k >>
      slots == [ k \in 1 .. (Len(s) \div 3) |-> slot(k - 1) ]
      sorted == SortSeq(slots, LexLess)
  IN  [ k \in 0 .. Len(slots) - 1 |-> sorted[k + 1][3] ]

\* The spans that are merged: without the first sentinel's suffix.
Merged(s, sa_0, sa_12, isa_12) ==
  LET rest(array, from) ==
        [ k \in 1 .. Cardinality(DOMAIN array) - from |-> array[k + from - 1] ]
      sa_0_span == rest(sa_0, IF Len(s) % 3 = 0 THEN 1 ELSE 0)
      sa_12_span == rest(sa_12, IF Len(s) % 3 = 0 THEN 0 ELSE 1)
      lt == { << x, y >> \in { sa_0[k] : k \in DOMAIN sa_0 } \X { sa_12[k] : k \in DOMAIN sa_12 } :
                Before(s, isa_12, x, y) }
  IN  MergedFrom(sa_0_span, sa_12_span, lt, << >>)

-----------------------------------------------------------------------------
\* A text of one character is not sorted at all: the array stays as it is.
construct_sa_par ==
  /\ pc = "start"
  /\ IF Len(text) + EXTRA_SENTINELS > 4
       THEN /\ \E version \in Versions :
                 mem' = << CallOf(version, WithSentinels(text, EXTRA_SENTINELS)) >>
            /\ Goto("sort")
       ELSE Goto("done") /\ UNCHANGED mem
  /\ UNCHANGED << text, SA >>

\* The names of a call, and its recursive call if some are equal.
Reduced(triplets, leq) ==
  LET frame == [ top EXCEPT !.triplets_12 = triplets, !.t_12 = leq.t_12 ]
      reduced == [ k \in 1 .. size_12(top.s) |-> leq.t_12[k - 1] ] \o Zeros(3)
  IN  /\ IF leq.recursion
           THEN mem' = Append(WithTop(frame), CallOf(top.version, reduced)) /\ UNCHANGED pc
           ELSE mem' = WithTop(frame) /\ Goto("merge")
      /\ UNCHANGED << text, SA >>

SortTriplets1 ==
  /\ pc = "sort" /\ top.version = 1
  /\ \E triplets \in { determine_triplets_par(top.s) } :
       \E leq \in { determine_leq_par(top.s, triplets) } : Reduced(triplets, leq)

SortTriplets2 ==
  /\ pc = "sort" /\ top.version = 2
  /\ \E triplets \in { determine_triplets_par(top.s) } :
       \E leq \in { determine_leq_2(top.s, triplets) } : Reduced(triplets, leq)

MergePar ==
  /\ pc = "merge"
  /\ \E merged \in { Merged(top.s, induce_sa_dc_par(top.s, top.t_12), top.triplets_12, top.t_12) } :
       SA' = [ c \in DOMAIN SA |->
                 IF c - EXTRA_SENTINELS \in 0 .. Len(merged) - 1
                   THEN At(merged, c - EXTRA_SENTINELS) ELSE SA[c] ]
  /\ mem' = SubSeq(mem, 1, Len(mem) - 1)
  /\ Goto(IF Len(mem) = 1 THEN "done" ELSE "ranks")
  /\ UNCHANGED text

\* determine_sa: isa_12 is the span of the names, which the ranks replace; a
\* position that is not in sa_12 keeps its name.
determine_sa_par(sa_12, names) ==
  [ k \in DOMAIN names |->
      IF \E i \in DOMAIN sa_12 : sa_12[i] = k
        THEN 1 + CHOOSE i \in DOMAIN sa_12 : sa_12[i] = k ELSE names[k] ]

\* The order of the triplets from the ranks; a rank 0 is an index before the
\* array's first.
TakeRanksPar ==
  /\ pc = "ranks"
  /\ \E ranks \in { determine_sa_par([ k \in 0 .. size_12(top.s) - 1 |-> SA[EXTRA_SENTINELS + k] ],
                                      top.t_12) } :
       LET size == size_12(top.s)
           half == start_pos_mod_2(size)
           positionOf(k) == IF k < half THEN 3 * k + 1 ELSE 3 * (k - half) + 2
           order == [ i \in 0 .. size - 1 |->
             IF \E k \in 0 .. size - 1 : ranks[k] - 1 = i
               THEN positionOf(CHOOSE k \in 0 .. size - 1 : ranks[k] - 1 = i)
               ELSE top.triplets_12[i] ]
       IN  IF \E k \in 0 .. size - 1 : ranks[k] = 0
             THEN Goto("failed") /\ UNCHANGED mem
             ELSE Goto("merge") /\ mem' = WithTop([ top EXCEPT !.triplets_12 = order, !.t_12 = ranks ])
  /\ UNCHANGED << text, SA >>

NextPar == construct_sa_par \/ SortTriplets1 \/ SortTriplets2 \/ TakeRanksPar \/ MergePar

-----------------------------------------------------------------------------
\* No index leaves its array.
NeverFails == pc # "failed"

=============================================================================
