------------------------------- MODULE Dc3Lite -------------------------------
(***************************************************************************)
(* saca/dc3_lite.hpp: the difference cover modulo 3 within three arrays,   *)
(* u, new_text and out_sa (SA).  A recursive call works on the rear parts  *)
(* of all three, and its text is the rear of new_text, which it overwrites *)
(* itself; what the caller still needs is saved at the fronts of u and     *)
(* out_sa meanwhile.                                                       *)
(*                                                                         *)
(* mem.calls holds the offsets of the active calls' slices, the innermost  *)
(* last.                                                                   *)
(***************************************************************************)
EXTENDS Saca, SequencesExt

EXTRA_SENTINELS == 0

from == mem.calls[Len(mem.calls)]
size == Len(text) - from

\* A slice of an array, and an array with some of its cells replaced; both
\* count from the call's offset.
Slice(array, left, right) == [ k \in 0 .. right - left - 1 |-> array[from + left + k] ]
Put(array, left, values) ==
  [ c \in DOMAIN array |-> IF c - from - left \in DOMAIN values THEN values[c - from - left] ELSE array[c] ]

\* The call's text: the caller's names, but for the outermost call.
call_text == IF from = 0 THEN text ELSE [ k \in 1 .. size |-> mem.new_text[from + k - 1] ]

start_pos_of_0 == (size \div 3) + IF size % 3 > 0 THEN 1 ELSE 0
start_pos_of_1 == ((2 * size) \div 3) + IF size % 3 > 0 THEN 1 ELSE 0
text_1_size == size - start_pos_of_0
start_pos_mod_2 == (text_1_size \div 2) + (text_1_size % 2)

retrieve_triplets(s, i) == SubSeq(s, i + 1, IF i + 3 < Len(s) THEN i + 3 ELSE Len(s))

\* Faulty variant: the last triplet has the name of an equal one.
SmallerTriplet_NoDummy(s, i, j) == LexLess(retrieve_triplets(s, i), retrieve_triplets(s, j))

\* Triplets in lexicographic order; of equal ones the text's last is smaller,
\* which stands for the dummy triplet of other versions.
SmallerTriplet(s, i, j) ==
  \/ LexLess(retrieve_triplets(s, i), retrieve_triplets(s, j))
  \/ retrieve_triplets(s, i) = retrieve_triplets(s, j) /\ i + 3 = Len(s) /\ i # j

\* radixsort_for_big_alphabet with the triplets' keys; equal ones in any order.
SortedTriplets(s) ==
  Arranged(0 .. Len(s) - 1,
           LAMBDA i, j : \/ SmallerTriplet(s, i, j)
                         \/ ~ SmallerTriplet(s, j, i) /\ i > j)

\* Names for the entries of an order, equal neighbours alike, from 1.
RECURSIVE NamesOf(_, _, _)
NamesOf(order, smaller, k) ==
  IF k = 0 THEN << 1 >>
  ELSE LET names == NamesOf(order, smaller, k - 1)
       IN  Append(names, names[k] + IF << order[k - 1], order[k] >> \in smaller THEN 1 ELSE 0)

-----------------------------------------------------------------------------
Init ==
  /\ text \in Texts
  /\ SA = InitialArray(EXTRA_SENTINELS)
  /\ pc = "call"
  /\ mem = [ u |-> Array(Len(text), 0), new_text |-> Array(Len(text), 0), calls |-> << 0 >> ]

\* The innermost call returns.
Return(array) ==
  /\ SA' = array
  /\ IF Len(mem.calls) = 1
       THEN Goto("done") /\ UNCHANGED mem
       ELSE /\ mem' = [ mem EXCEPT !.calls = Front(@) ]
            /\ Goto("restore")

\* Texts of up to two characters end the recursion.
ShortText ==
  /\ pc = "call"
  /\ size < 3
  /\ Return(CASE size = 0 -> SA
              [] size = 1 -> Put(SA, 0, Array(1, 0))
              [] size = 2 ->
                   LET first == IF LexLess(call_text, Tail(call_text)) THEN 0 ELSE 1
                   IN  Put(SA, 0, [ k \in 0 .. 1 |-> IF k = 0 THEN first ELSE 1 - first ]))
  /\ UNCHANGED text

\* All triplets are sorted and named; the names go to new_text, those of the
\* positions 0, 3, ... first, then 1, 4, ... and 2, 5, ...
SortTriplets ==
  /\ pc = "call"
  /\ size >= 3
  /\ \E order \in { SortedTriplets(call_text) } :
     \E names \in { NamesOf(order, { << i, j >> \in (0 .. size - 1) \X (0 .. size - 1) :
                                       SmallerTriplet(call_text, i, j) }, size - 1) } :
       LET ranks == [ i \in 0 .. size - 1 |-> names[1 + CHOOSE k \in 0 .. size - 1 : order[k] = i] ]
           place(k) == IF k < start_pos_of_0 THEN 3 * k
                       ELSE IF k < start_pos_of_1 THEN 3 * (k - start_pos_of_0) + 1
                       ELSE 3 * (k - start_pos_of_1) + 2
       IN  /\ mem' = [ mem EXCEPT !.u = Put(mem.u, 0, order),
                                  !.new_text = Put(mem.new_text, 0, [ k \in 0 .. size - 1 |-> ranks[place(k)] ]) ]
           /\ SA' = Put(SA, 0, ranks)
  /\ Goto("reduce")
  /\ UNCHANGED text

\* The place of position i, no multiple of 3, in text_1.
PlaceOf(i) == (i \div 3) + IF i % 3 = 1 THEN 0 ELSE start_pos_mod_2

\* Names of the triplets of text_1 among each other, by place.
t_12 ==
  LET order == SelectSeq([ k \in 1 .. size |-> mem.u[from + k - 1] ], LAMBDA i : i % 3 # 0)
      name(i) == mem.new_text[from + start_pos_of_0 + PlaceOf(i)]
      ranks == NamesOf([ k \in 0 .. Len(order) - 1 |-> order[k + 1] ],
                       { << i, j >> \in Range(order) \X Range(order) : name(i) < name(j) }, Len(order) - 1)
  IN  [ k \in 0 .. text_1_size - 1 |-> ranks[CHOOSE c \in 1 .. Len(order) : PlaceOf(order[c]) = k] ]

\* With equal names: text_1 is saved at the fronts of u and out_sa, replaced by
\* t_12 and sorted by a recursive call.
Recurse ==
  /\ pc = "reduce"
  /\ \E names \in { t_12 } :
       /\ Cardinality(Range(names)) < text_1_size
       /\ mem' = [ u |-> Put(mem.u, 0, Slice(mem.new_text, start_pos_of_0, start_pos_of_1)),
                   new_text |-> Put(mem.new_text, start_pos_of_0, names),
                   calls |-> Append(mem.calls, from + start_pos_of_0) ]
       /\ SA' = Put(Put(SA, 0, names), 0, Slice(mem.new_text, start_pos_of_1, size))
  /\ Goto("call")
  /\ UNCHANGED text

\* With different names: they are the ranks.
Unique ==
  /\ pc = "reduce"
  /\ \E names \in { t_12 } :
       LET sa_12 == [ i \in 0 .. text_1_size - 1 |-> CHOOSE k \in DOMAIN names : names[k] = i + 1 ]
       IN  /\ Cardinality(Range(names)) = text_1_size
           /\ mem' = [ mem EXCEPT !.u = Put(@, 0, sa_12) ]
           /\ SA' = Put(Put(SA, 0, names), start_pos_of_0, sa_12)
  /\ Goto("induce")
  /\ UNCHANGED text

\* Faulty variant: the saved half of text_1 is not copied back.
Restore_OneHalf ==
  /\ pc = "restore"
  /\ mem' = [ mem EXCEPT !.new_text =
       Put(@, start_pos_of_0, Slice(mem.u, 0, start_pos_mod_2)) ]
  /\ Goto("induce")
  /\ UNCHANGED << text, SA >>

\* After the recursive call text_1 is copied back.
Restore ==
  /\ pc = "restore"
  /\ mem' = [ mem EXCEPT !.new_text =
       Put(Put(@, start_pos_of_0, Slice(mem.u, 0, start_pos_mod_2)),
           start_pos_of_1, Slice(SA, 0, text_1_size \div 2)) ]
  /\ Goto("induce")
  /\ UNCHANGED << text, SA >>

\* The ranks of text_1 into the rear of u, and the order of the other positions
\* (util::induce_sa_dc) with their ranks into the fronts of out_sa and u.
Induce ==
  /\ pc = "induce"
  /\ LET sa_12 == Slice(SA, start_pos_of_0, size)
         isa_12 == [ k \in DOMAIN sa_12 |-> CHOOSE i \in DOMAIN sa_12 : sa_12[i] = k ]
         name(i) == mem.new_text[from + i]
         sa_0 == Arranged(0 .. start_pos_of_0 - 1,
           LAMBDA i, j : \/ name(i) < name(j)
                         \/ name(i) = name(j) /\ (IF start_pos_mod_2 <= i THEN TRUE
                              ELSE start_pos_mod_2 > j /\ isa_12[i] < isa_12[j]))
         isa_0 == [ k \in DOMAIN sa_0 |-> CHOOSE i \in DOMAIN sa_0 : sa_0[i] = k ]
     IN  /\ mem' = [ mem EXCEPT !.u = Put(Put(@, start_pos_of_0, isa_12), 0, isa_0) ]
         /\ SA' = Put(SA, 0, sa_0)
  /\ Goto("merge")
  /\ UNCHANGED text

\* Whether the i-th position of text_0 comes before the j-th of text_1: by
\* their names, or by the ranks of the positions one or two further on.
Before(i, j) ==
  LET name_0 == mem.new_text[from + i]
      name_1 == mem.new_text[from + start_pos_of_0 + j]
      rank(k) == mem.u[from + start_pos_of_0 + k]
      lesser_suf ==
        IF j < start_pos_mod_2
          THEN IF i < text_1_size /\ start_pos_mod_2 + j < text_1_size
                 THEN rank(i) < rank(start_pos_mod_2 + j)
                 ELSE i = text_1_size
          ELSE IF start_pos_mod_2 + i < text_1_size /\ j - start_pos_mod_2 + 1 < start_pos_mod_2
                 THEN rank(start_pos_mod_2 + i) < rank(j - start_pos_mod_2 + 1)
                 ELSE start_pos_mod_2 + i = text_1_size
  IN  name_0 < name_1 \/ (name_0 = name_1 /\ lesser_suf)

\* The merge computes positions in the merged order; the suffix array is the
\* inverse of the resulting ranks, translated to positions of the call's text.
Merge ==
  /\ pc = "merge"
  /\ \E merged \in { MergedFrom([ k \in 1 .. start_pos_of_0 |-> << 0, SA[from + k - 1] >> ],
                                [ k \in 1 .. text_1_size |-> << 1, SA[from + start_pos_of_0 + k - 1] >> ],
                                { << << 0, i >>, << 1, j >> >> :
                                    << i, j >> \in { p \in (0 .. start_pos_of_0 - 1) \X (0 .. text_1_size - 1) :
                                                       Before(p[1], p[2]) } }, << >>) } :
       LET position(entry) ==
             IF entry[1] = 0 THEN 3 * entry[2]
             ELSE IF entry[2] < start_pos_mod_2 THEN 3 * entry[2] + 1
             ELSE 3 * (entry[2] - start_pos_mod_2) + 2
       IN  Return(Put(SA, 0, [ k \in 0 .. size - 1 |-> position(merged[k + 1]) ]))
  /\ UNCHANGED text

Next == ShortText \/ SortTriplets \/ Recurse \/ Unique \/ Restore \/ Induce \/ Merge

Spec == Init /\ [][Next]_vars

-----------------------------------------------------------------------------
ResultIsSuffixArray == pc = "done" => IsResult(SA, EXTRA_SENTINELS)

\* After the recursive calls, which have used the same arrays, the outermost
\* call finds the names of its triplets again.
NamesSurviveRecursion ==
  pc \in { "induce", "merge" } /\ from = 0 =>
    LET place(i) == IF i % 3 = 0 THEN i \div 3 ELSE start_pos_of_0 + PlaceOf(i)
    IN  \A i, j \in 0 .. size - 1 :
          mem.new_text[place(i)] < mem.new_text[place(j)] <=> SmallerTriplet(text, i, j)

=============================================================================
