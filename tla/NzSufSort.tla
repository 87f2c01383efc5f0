------------------------------ MODULE NzSufSort ------------------------------
(***************************************************************************)
(* saca/nzSufSort.hpp and nzSufSort_par.hpp: only the S-type suffixes are  *)
(* sorted, by a difference cover modulo 3 of their numbers, and the others *)
(* are induced.  There is no memory but out_sa (SA): between two phases    *)
(* that use its front as slices, the cells at L-type positions hold sorted *)
(* positions and the cells at S-type positions hold names or ranks, by the *)
(* position of the cell.  A text with more S-type than L-type positions is *)
(* turned around, and so is its array in the end.                          *)
(***************************************************************************)
EXTENDS Saca, SequencesExt

EXTRA_SENTINELS == 3

n == Len(text) + EXTRA_SENTINELS
max_character_value == IF text = << >> THEN 0 ELSE CHOOSE c \in Range(text) : \A d \in Range(text) : d <= c

\* S-type positions of t, from the right; what is behind the text is smaller
\* than every character but the sentinel.
STypes(t) ==
  LET s_type[i \in 0 .. Len(t)] ==
        IF i = Len(t) THEN TRUE
        ELSE LET last_char == IF i + 1 < Len(t) THEN At(t, i + 1) ELSE 0
             IN  At(t, i) < last_char \/ (At(t, i) = last_char /\ s_type[i + 1])
  IN  { i \in 0 .. Len(t) - 1 : s_type[i] }

Reverted(t) == [ i \in DOMAIN t |-> max_character_value - t[i] + 1 ]

t == mem.t
count == Len(mem.s)

\* S-type positions in ascending, L-type positions in descending order.
L == mem.l
mod_0 == (count \div 3) + IF count % 3 > 0 THEN 1 ELSE 0
mod_1 == (count \div 3) + IF count % 3 > 1 THEN 1 ELSE 0
mod_2 == count \div 3
mod_12 == mod_1 + mod_2

\* calculate_p_0 and calculate_p_12: every third S-type position.
Third(r, size) == [ k \in 1 .. size |-> mem.s[3 * (k - 1) + r + 1] ]
p_0 == Third(0, mod_0)
p_12 == Third(1, mod_1) \o Third(2, mod_2)

Down(first, last) == [ k \in 1 .. first - last + 1 |-> first - k + 1 ]
Slice(array, left, right) == [ k \in 1 .. right - left |-> array[left + k - 1] ]
Put(array, left, values) ==
  [ c \in DOMAIN array |-> IF c - left + 1 \in DOMAIN values THEN values[c - left + 1] ELSE array[c] ]

\* Cells are copied one after the other, as long as both sequences last.
Move(array, source, target) ==
  LET steps == IF Len(source) < Len(target) THEN Len(source) ELSE Len(target)
      after[k \in 0 .. steps] ==
        IF k = 0 THEN array ELSE [ after[k - 1] EXCEPT ![target[k]] = after[k - 1][source[k]] ]
  IN  after[steps]

\* Faulty variant: the shorter one is smaller, as in other orders.
comp_z_strings_ShorterFirst(a, b) == LexLess(a, b)

\* comp_z_strings: of two strings that go on alike the longer one is smaller.
comp_z_strings(a, b) ==
  LET length == IF Len(a) <= Len(b) THEN Len(a) ELSE Len(b)
  IN  \/ LexLess(SubSeq(a, 1, length), SubSeq(b, 1, length))
      \/ SubSeq(a, 1, length) = SubSeq(b, 1, length) /\ Len(a) > Len(b)

\* The end of the text from position i to the next S-type position, found by
\* its characters: over the run that does not ascend, and back over its end.
NextS(i) ==
  IF i = n - 1 THEN i
  ELSE IF At(t, i) = At(t, i + 1) THEN i + 1
  ELSE LET k == CHOOSE k \in i + 2 .. n :
                  /\ k = n \/ At(t, k - 1) < At(t, k)
                  /\ \A j \in i + 2 .. k - 1 : At(t, j - 1) >= At(t, j)
       IN  CHOOSE j \in i + 1 .. k - 1 :
             /\ j = i + 1 \/ At(t, j - 1) > At(t, j)
             /\ \A l \in j + 1 .. k - 1 : At(t, l - 1) <= At(t, l)

retrieve_s_string(i, number) ==
  LET end[c \in 0 .. number] == IF c = 0 THEN i ELSE NextS(end[c - 1])
  IN  SubSeq(t, i + 1, end[number] + 1)

\* Z_3-strings reach to the third S-type position behind, the last one of each
\* group to the end of the text.
ZString(group, k) ==
  SubSeq(t, group[k] + 1, IF k = Len(group) THEN n ELSE group[k + 1] + 1)

\* msd_radixsort with the strings' characters as keys: if all of them are last
\* ones nothing but the first character is compared.
Sorted(groups) ==
  LET entries == UNION { { << g, k >> : k \in DOMAIN groups[g] } : g \in DOMAIN groups }
      string(e) == ZString(groups[e[1]], e[2])
      key(e) == IF \A g \in DOMAIN groups : Len(groups[g]) <= 1 THEN << Head(string(e)) >> ELSE string(e)
      order == Arranged(entries, LAMBDA d, e :
                 \/ comp_z_strings(key(d), key(e))
                 \/ ~ comp_z_strings(key(e), key(d)) /\ LexLess(d, e))
  IN  [ k \in 1 .. Cardinality(entries) |-> groups[order[k - 1][1]][order[k - 1][2]] ]

Lengths(group) == [ k \in DOMAIN group |-> Len(ZString(group, k)) ]

\* Names from 1 for sorted positions, the same for neighbours of which the
\* first is not smaller.
Names(order) ==
  LET string == [ k \in DOMAIN order |-> retrieve_s_string(order[k], 3) ]
      name[k \in DOMAIN order] ==
        IF k = 1 THEN 1 ELSE name[k - 1] + IF comp_z_strings(string[k - 1], string[k]) THEN 1 ELSE 0
  IN  name

\* Names into the cells of their positions, which are S-type cells.
Named(array, order) ==
  LET names == Names(order)
  IN  [ c \in DOMAIN array |->
          IF c \in Range(order) THEN names[CHOOSE k \in DOMAIN order : order[k] = c] ELSE array[c] ]

-----------------------------------------------------------------------------
Init ==
  /\ text \in Texts
  /\ SA = InitialArray(EXTRA_SENTINELS)
  /\ pc = "count"
  /\ mem = << >>

\* With too many S-type positions the characters are turned around, by which
\* S-type positions become L-type and L-type positions S-type.
CountSTypes ==
  /\ pc = "count"
  /\ LET original == WithSentinels(text, EXTRA_SENTINELS)
         is_text_reverted == Cardinality(STypes(original)) > n \div 2
         used == IF is_text_reverted THEN Reverted(original) ELSE original
     IN  mem' = [ t |-> used, is_text_reverted |-> is_text_reverted, s |-> Ascending(STypes(used)),
                  l |-> Reverse(Ascending((0 .. n - 1) \ STypes(used))),
                  taken_0 |-> 0, taken_12 |-> 0 ]
  /\ Goto("sort_12")
  /\ UNCHANGED << text, SA >>

Sort12 ==
  /\ pc = "sort_12"
  /\ \E order \in { Sorted(<< Third(1, mod_1), Third(2, mod_2) >>) } :
       SA' = Put(Put(Put(SA, 0, order), mod_12, Lengths(Third(1, mod_1)) \o Lengths(Third(2, mod_2))),
                 2 * mod_12, order)
  /\ Goto("name_12")
  /\ UNCHANGED << text, mem >>

\* calculate_t_12, first half: the sorted positions go to L-type cells, and
\* their names to the cells of the positions.
Name12 ==
  /\ pc = "name_12"
  /\ \E order \in { Slice(SA, 0, mod_12) } :
       SA' = Named(Move(Put(SA, 0, Reverse(order)), Down(mod_12 - 1, 0), L), order)
  /\ Goto("reduce_12")
  /\ UNCHANGED << text, mem >>

\* calculate_t_12, second half: the names of the numbers 1 modulo 3, then 2, go
\* to L-type cells, these to the array's end, and from there to its front.
Reduce12 ==
  /\ pc = "reduce_12"
  /\ LET to_l_cells == Move(SA, Reverse(Third(1, mod_1)) \o Reverse(Third(2, mod_2)), L)
         to_end == Move(to_l_cells, L, Down(n - 1, 0))
         to_front == Move(to_end, Down(n - 1, n - mod_12), Reverse(Down(mod_12 - 1, 0)))
     IN  SA' = Put(Put(to_front, 0, Reverse(Slice(to_front, 0, mod_1))),
                   mod_1, Reverse(Slice(to_front, mod_1, mod_12)))
  /\ Goto("recurse")
  /\ UNCHANGED << text, mem >>

t_12 == Slice(SA, 0, mod_12)

\* With equal names lightweight_dc3 sorts t_12, with u and v behind it.
Recurse ==
  /\ pc = "recurse"
  /\ \E names \in { t_12 } :
       LET sa == IF IsInjective(names)
                   THEN [ k \in DOMAIN names |-> (CHOOSE i \in DOMAIN names : names[i] = k) - 1 ]
                   ELSE LET order == SuffixesInOrder(names) IN [ k \in DOMAIN names |-> order[k - 1] ]
       IN  SA' = Put(SA, 0, sa)
  /\ Goto("sort_0")
  /\ UNCHANGED << text, mem >>

Sort0 ==
  /\ pc = "sort_0"
  /\ \E order \in { Sorted(<< p_0 >>) } :
       SA' = Put(Put(Put(SA, mod_12, order), mod_12 + mod_0, order), mod_12 + 2 * mod_0, Lengths(p_0))
  /\ Goto("name_0")
  /\ UNCHANGED << text, mem >>

\* calculate_t_0, first half, which moves SA_12 to L-type cells, too.
Name0 ==
  /\ pc = "name_0"
  /\ \E order \in { Slice(SA, mod_12, count) } :
       SA' = Named(Move(Put(SA, mod_12, Reverse(order)), Down(count - 1, 0), L), order)
  /\ Goto("reduce_0")
  /\ UNCHANGED << text, mem >>

\* calculate_t_0, second half.
Reduce0 ==
  /\ pc = "reduce_0"
  /\ LET to_l_cells == Move(SA, Reverse(p_0), L)
         to_end == Move(to_l_cells, L, Down(n - 1, 0))
     IN  SA' = Move(Move(to_end, Down(n - 1, n - mod_0), Down(count - 1, mod_12)),
                    Down(n - mod_0 - 1, n - count), Down(mod_12 - 1, 0))
  /\ Goto("induce_0")
  /\ UNCHANGED << text, mem >>

\* util::induce_sa_dc with the ranks of SA_12 behind the slices in use.
Induce0 ==
  /\ pc = "induce_0"
  /\ LET sa_12 == t_12
         isa_12 == [ i \in 0 .. mod_12 - 1 |-> (CHOOSE k \in DOMAIN sa_12 : sa_12[k] = i) - 1 ]
         t_0(i) == SA[mod_12 + i]
         start_pos_mod_2 == (mod_12 \div 2) + (mod_12 % 2)
         order == Arranged(0 .. mod_0 - 1, LAMBDA i, j :
                    \/ t_0(i) < t_0(j)
                    \/ t_0(i) = t_0(j) /\ (IF start_pos_mod_2 <= i THEN TRUE
                                           ELSE start_pos_mod_2 > j /\ isa_12[i] < isa_12[j]))
         sa_0 == [ k \in 1 .. mod_0 |-> order[k - 1] ]
     IN  SA' = Put(Put(SA, mod_12, sa_0), count + mod_0, [ k \in 1 .. mod_12 |-> isa_12[k - 1] ])
  /\ Goto("positions")
  /\ UNCHANGED << text, mem >>

\* Numbers become positions; SA_0 goes to the front, SA_12 behind it, both of
\* them the other way round.
UpdatePositions ==
  /\ pc = "positions"
  /\ LET sa_0 == [ k \in 1 .. mod_0 |-> p_0[SA[mod_12 + k - 1] + 1] ]
         sa_12 == [ k \in 1 .. mod_12 |-> p_12[SA[k - 1] + 1] ]
         swapped == Reverse(sa_0) \o Reverse(sa_12)
     IN  SA' = Put(Put(SA, count, swapped), 0, swapped)
  /\ Goto("spread")
  /\ UNCHANGED << text, mem >>

\* The cell of SA_0's first entry; those of SA_12 are on its right.
h == IF mod_0 = 0 THEN 0 ELSE L[mod_12 + 1]

\* SA_12 and SA_0 go to L-type cells, and the numbers of these cells to the
\* cells of the positions.
Spread ==
  /\ pc = "spread"
  /\ LET moved == Move(SA, Down(count - 1, 0), L)
         used == { L[k] : k \in 1 .. count }
     IN  SA' = [ c \in DOMAIN SA |->
                   IF \E l \in used : moved[l] = c THEN CHOOSE l \in used : moved[l] = c ELSE moved[c] ]
  /\ Goto("merge")
  /\ UNCHANGED << text, mem >>

\* The next cells of both arrays, and their order: the strings up to the first
\* or second S-type position behind, then the cells of these.
cell_0 == L[mod_12 + mem.taken_0 + 1]
cell_12 == L[mem.taken_12 + 1]

Smaller0 ==
  LET i == SA[cell_0]
      j == SA[cell_12]
      residue_1 == SA[j + Len(retrieve_s_string(j, 1)) - 1] > h
      string(pos) == retrieve_s_string(pos, IF residue_1 THEN 1 ELSE 2)
      behind(pos) == SA[pos + Len(string(pos)) - 1]
  IN  \/ comp_z_strings(string(i), string(j))
      \/ ~ comp_z_strings(string(j), string(i)) /\ behind(i) > behind(j)

\* One entry gets its number in the merged order, in its own cell.
Merge ==
  /\ pc = "merge"
  /\ mem.taken_0 + mem.taken_12 < count
  /\ LET zero == mem.taken_12 = mod_12 \/ (mem.taken_0 < mod_0 /\ Smaller0)
     IN  /\ SA' = [ SA EXCEPT ![IF zero THEN cell_0 ELSE cell_12] = mem.taken_0 + mem.taken_12 ]
         /\ mem' = IF zero THEN [ mem EXCEPT !.taken_0 = @ + 1 ] ELSE [ mem EXCEPT !.taken_12 = @ + 1 ]
  /\ UNCHANGED << text, pc >>

\* From the cells of the positions over the L-type cells to ranks, from these
\* at the end of the array to the order at its front.
Collect ==
  /\ pc = "merge"
  /\ mem.taken_0 + mem.taken_12 = count
  /\ LET ranks == [ c \in DOMAIN SA |-> IF c \in Range(mem.s) THEN SA[SA[c]] ELSE SA[c] ]
     IN  SA' = Move(ranks, Reverse(mem.s), Down(n - 1, 0))
  /\ Goto("invert")
  /\ UNCHANGED << text, mem >>

isa_012 == Slice(SA, n - count, n)

Invert ==
  /\ pc = "invert"
  /\ LET ranks == isa_012
         sa_012 == [ r \in 1 .. count |-> (CHOOSE k \in 1 .. count : ranks[k] = r - 1) ]
     IN  SA' = Put(Put(SA, n - count, mem.s), 0, [ r \in 1 .. count |-> mem.s[sa_012[r]] ])
  /\ Goto("induce")
  /\ UNCHANGED << text, mem >>

BucketStart(c) == Cardinality({ i \in DOMAIN t : t[i] < c })
BucketEnd(c) == Cardinality({ i \in DOMAIN t : t[i] <= c }) - 1
UNDEFINED == n

\* left_induction_scan: S-type suffixes to the ends of their buckets ...
RECURSIVE MoveToEnds(_, _, _)
MoveToEnds(array, i, buckets) ==
  IF i < 0 THEN array
  ELSE LET c == At(t, array[i])
           moved == IF buckets[c] = i THEN array
                    ELSE [ array EXCEPT ![buckets[c]] = array[i], ![i] = UNDEFINED ]
       IN  MoveToEnds(moved, i - 1, [ buckets EXCEPT ![c] = IF @ > 0 THEN @ - 1 ELSE @ ])

\* ... and from left to right each suffix induces the L-type one before it.
RECURSIVE InduceL(_, _, _)
InduceL(array, i, buckets) ==
  IF i = n THEN array
  ELSE LET pre_pos == array[i] - 1
           c == At(t, pre_pos)
           current == At(t, array[i])
       IN  IF /\ array[i] \notin { UNDEFINED, 0 }
              /\ c > current \/ (c = current /\ i < buckets[current])
             THEN InduceL([ array EXCEPT ![buckets[c]] = pre_pos ], i + 1, [ buckets EXCEPT ![c] = @ + 1 ])
             ELSE InduceL(array, i + 1, buckets)

Induce ==
  /\ pc = "induce"
  /\ LET Characters == 0 .. max_character_value + 1
         cleared == [ c \in DOMAIN SA |-> IF c < count THEN SA[c] ELSE UNDEFINED ]
         placed == MoveToEnds(cleared, count - 1, [ c \in Characters |-> BucketEnd(c) ])
     IN  SA' = InduceL(placed, 0, [ c \in Characters |-> BucketStart(c) ])
  /\ Goto("revert")
  /\ UNCHANGED << text, mem >>

RevertResult ==
  /\ pc = "revert"
  /\ SA' = IF mem.is_text_reverted THEN [ c \in DOMAIN SA |-> SA[n - 1 - c] ] ELSE SA
  /\ Goto("done")
  /\ UNCHANGED << text, mem >>

Next ==
  \/ CountSTypes \/ Sort12 \/ Name12 \/ Reduce12 \/ Recurse \/ Sort0 \/ Name0 \/ Reduce0
  \/ Induce0 \/ UpdatePositions \/ Spread \/ Merge \/ Collect \/ Invert \/ Induce \/ RevertResult

Spec == Init /\ [][Next]_vars

-----------------------------------------------------------------------------
ResultIsSuffixArray == pc = "done" => IsResult(SA, EXTRA_SENTINELS)

\* The text given to lightweight_dc3 orders the sorted positions as the text
\* does, but for the sentinels.
ReductionKeepsOrder ==
  pc = "recurse" =>
    \A i, j \in 1 .. mod_12 :
      p_12[i] < Len(text) /\ p_12[j] < Len(text) =>
        (SuffixBefore(t_12, i - 1, j - 1) <=> SuffixBefore(t, p_12[i], p_12[j]))

\* While the arrays are merged in their cells every S-type position is still
\* to be found: its cell leads to the cell that holds it, or its number.
EveryPositionFound ==
  pc = "merge" =>
    LET merged == { L[k] : k \in (1 .. mem.taken_12) \cup (mod_12 + 1 .. mod_12 + mem.taken_0) }
    IN  /\ { SA[p] : p \in Range(mem.s) } = { L[k] : k \in 1 .. count }
        /\ \A p \in Range(mem.s) : SA[p] \notin merged => SA[SA[p]] = p
        /\ { SA[l] : l \in merged } = 0 .. mem.taken_0 + mem.taken_12 - 1

\* The parallel loops of nzSufSort_par that copy from one part of the array to
\* another one, or to cells that the array names: no iteration writes what
\* another one reads or writes.
LoopsApart ==
  /\ pc \in { "sort_12", "invert" } => 2 * count <= n
  /\ pc = "sort_12" => 3 * mod_12 <= n
  /\ pc = "reduce_12" => mod_12 <= n - mod_12
  /\ pc = "sort_0" => mod_12 + 3 * mod_0 <= n /\ Range(t_12) = 0 .. mod_12 - 1
  /\ pc = "invert" => Range(isa_012) = 0 .. count - 1

=============================================================================
