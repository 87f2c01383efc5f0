--------------------------------- MODULE Dc3 ---------------------------------
(***************************************************************************)
(* saca/dc3.hpp: difference cover modulo 3.  The positions that are no     *)
(* multiple of 3 are sorted by three characters and, if two triplets are   *)
(* equal, by a recursive call on the text of their names; the others       *)
(* follow from them; the two orders are merged.                            *)
(*                                                                         *)
(* mem is the stack of the calls of construct_sa_dc3, the innermost last.  *)
(* A call keeps its text s, triplets_12 and t_12 (names, then ranks).      *)
(***************************************************************************)
EXTENDS Saca

EXTRA_SENTINELS == 3

top == mem[Len(mem)]
Call(s) == [ s |-> s, triplets_12 |-> << >>, t_12 |-> << >> ]
WithTop(frame) == [ mem EXCEPT ![Len(mem)] = frame ]

\* Number of positions below size - 2 that are no multiple of 3.
size_12(s) == (2 * (Len(s) - 2)) \div 3

\* First place in t_12 of the positions that leave 2 modulo 3.
start_pos_mod_2(size) == (size \div 2) + (size % 2)

\* Place in t_12 of a position that is no multiple of 3.
PlaceOf(size, p) ==
  (p \div 3) + IF p % 3 = 1 THEN 0 ELSE start_pos_mod_2(size)

Triplet(s, p) == << At(s, p), At(s, p + 1), At(s, p + 2) >>

\* The positions 1, 2, 4, 5, ... by their triplets, equal ones by position.
determine_triplets(s) ==
  Arranged({ i \in 1 .. Len(s) - 3 : i % 3 # 0 },
           LAMBDA i, j : LexLess(Triplet(s, i) \o << i >>, Triplet(s, j) \o << j >>))

\* Faulty variant: the halves of the names meet at size / 2 for odd sizes, too.
determine_leq_OddHalf(s, triplets_12) ==
  LET size == Cardinality(DOMAIN triplets_12)
      name(i) == 1 + Cardinality({ k \in 1 .. i :
        Triplet(s, triplets_12[k]) # Triplet(s, triplets_12[k - 1]) })
      place(p) == (p \div 3) + IF p % 3 = 1 THEN 0 ELSE size \div 2
  IN  [ k \in 0 .. size - 1 |->
          IF \E i \in 0 .. size - 1 : place(triplets_12[i]) = k
            THEN name(CHOOSE i \in 0 .. size - 1 : place(triplets_12[i]) = k)
            ELSE 0 ]

\* Names in ascending order, equal triplets alike, by place.
determine_leq(s, triplets_12) ==
  LET size == Cardinality(DOMAIN triplets_12)
      name(i) == 1 + Cardinality({ k \in 1 .. i :
        Triplet(s, triplets_12[k]) # Triplet(s, triplets_12[k - 1]) })
  IN  [ k \in 0 .. size - 1 |->
          name(CHOOSE i \in 0 .. size - 1 : PlaceOf(size, triplets_12[i]) = k) ]

\* Whether two of the triplets are equal.
recursion(s, triplets_12) ==
  \E i \in DOMAIN triplets_12 :
    /\ i + 1 \in DOMAIN triplets_12
    /\ Triplet(s, triplets_12[i]) = Triplet(s, triplets_12[i + 1])

\* Ranks from 1: the inverse of a suffix array.
determine_sa(sa_12) ==
  [ p \in DOMAIN sa_12 |-> 1 + CHOOSE i \in DOMAIN sa_12 : sa_12[i] = p ]

\* The multiples of 3 by their character and the rank of the next position;
\* the last one may have no ranked position behind it.
induce_sa_dc(s, isa_12) ==
  LET size == Cardinality(DOMAIN isa_12)
      key(i) == << At(s, i),
                   IF i < 3 * start_pos_mod_2(size) THEN isa_12[i \div 3] ELSE 0,
                   i >>
  IN  Arranged({ i \in 0 .. Len(s) - 3 : i % 3 = 0 },
               LAMBDA i, j : LexLess(key(i), key(j)))

\* comp of the merge: position a, a multiple of 3, is before b, which is none.
\* One character, or two, decide; then the ranks of the positions behind them,
\* of which those that do not exist count as the smallest.
Before(s, isa_12, a, b) ==
  LET size == Cardinality(DOMAIN isa_12)
      n == IF b % 3 = 1 THEN 1 ELSE 2
      t_0 == SubSeq(s, a + 1, a + n)
      t_12 == SubSeq(s, b + 1, b + n)
      i == PlaceOf(size, a + n)
      j == PlaceOf(size, b + n)
      rank(k) == IF i >= size \/ j >= size THEN isa_12[0] ELSE isa_12[k]
  IN  \/ LexLess(t_0, t_12)
      \/ /\ t_0 = t_12
         /\ (2 * (b + n)) \div 3 < size
         /\ (2 * (a + n)) \div 3 >= size \/ rank(i) < rank(j)

\* The first sentinel's suffix is the smallest of its array and left out.
merge_sa_dc(s, sa_0, sa_12, isa_12) ==
  LET from0 == IF Len(s) % 3 = 0 THEN 1 ELSE 0
      span(array, from) == [ k \in 1 .. Cardinality(DOMAIN array) - from |-> array[k + from - 1] ]
      lt == { << a, b >> \in { sa_0[k] : k \in DOMAIN sa_0 } \X { sa_12[k] : k \in DOMAIN sa_12 } :
                Before(s, isa_12, a, b) }
  IN  MergedFrom(span(sa_0, from0), span(sa_12, 1 - from0), lt, << >>)

-----------------------------------------------------------------------------
Init ==
  /\ text \in Texts
  /\ SA = InitialArray(EXTRA_SENTINELS)
  /\ pc = "start"
  /\ mem = << >>

construct_sa ==
  /\ pc = "start"
  /\ IF Len(text) # 0
       THEN /\ mem' = << Call(WithSentinels(text, EXTRA_SENTINELS)) >>
            /\ Goto("sort")
       ELSE Goto("done") /\ UNCHANGED mem
  /\ UNCHANGED << text, SA >>

\* Phase 1.
SortTriplets ==
  /\ pc = "sort"
  /\ LET triplets == determine_triplets(top.s)
         names == determine_leq(top.s, triplets)
         frame == [ top EXCEPT !.triplets_12 = triplets, !.t_12 = names ]
         reduced == [ k \in 1 .. size_12(top.s) |-> names[k - 1] ] \o Zeros(3)
     IN  IF recursion(top.s, triplets)
           THEN mem' = Append(WithTop(frame), Call(reduced)) /\ UNCHANGED pc
           ELSE mem' = WithTop(frame) /\ Goto("merge")
  /\ UNCHANGED << text, SA >>

\* Phase 2 after a recursive call: the ranks are those of the call's result,
\* which lies at the front of out_sa.
TakeRanks ==
  /\ pc = "ranks"
  /\ LET size == size_12(top.s)
         ranks == determine_sa([ k \in 0 .. size - 1 |-> SA[EXTRA_SENTINELS + k] ])
         positionOf(k) ==
           IF k < start_pos_mod_2(size) THEN 3 * k + 1
           ELSE 3 * (k - start_pos_mod_2(size)) + 2
         order == [ i \in 0 .. size - 1 |->
           positionOf(CHOOSE k \in 0 .. size - 1 : ranks[k] - 1 = i) ]
     IN  mem' = WithTop([ top EXCEPT !.triplets_12 = order, !.t_12 = ranks ])
  /\ Goto("merge")
  /\ UNCHANGED << text, SA >>

\* Phase 3, and the return from the call.
Merge ==
  /\ pc = "merge"
  /\ LET merged == merge_sa_dc(top.s, induce_sa_dc(top.s, top.t_12),
                               top.triplets_12, top.t_12)
     IN  SA' = [ c \in DOMAIN SA |->
                   IF c - EXTRA_SENTINELS \in 0 .. Len(merged) - 1
                     THEN At(merged, c - EXTRA_SENTINELS) ELSE SA[c] ]
  /\ mem' = SubSeq(mem, 1, Len(mem) - 1)
  /\ Goto(IF Len(mem) = 1 THEN "done" ELSE "ranks")
  /\ UNCHANGED text

Next == construct_sa \/ SortTriplets \/ TakeRanks \/ Merge

Spec == Init /\ [][Next]_vars

-----------------------------------------------------------------------------
ResultIsSuffixArray == pc = "done" => IsResult(SA, EXTRA_SENTINELS)

\* The text of a recursive call has the order of the suffixes it stands for.
ReductionKeepsOrder ==
  pc = "sort" /\ Len(mem) > 1 =>
    LET caller == mem[Len(mem) - 1].s
        size == Len(top.s) - 3
        positionOf(k) ==
          IF k < start_pos_mod_2(size) THEN 3 * k + 1
          ELSE 3 * (k - start_pos_mod_2(size)) + 2
    IN  \A k, l \in 0 .. size - 1 :
          SuffixBefore(top.s, k, l) <=>
            SuffixBefore(caller, positionOf(k), positionOf(l))

=============================================================================
