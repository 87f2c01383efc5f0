-------------------------------- MODULE Gsaca --------------------------------
(***************************************************************************)
(* gsaca/gsaca.hpp, gsaca/gsaca_parallel.hpp and gsaca/gsize.hpp: Baier's  *)
(* two phases. Phase 1 splits the suffixes into groups, from the last      *)
(* group to the first, and leaves in the last cell of a group the place    *)
(* where its next suffix goes; phase 2 puts the suffixes there.            *)
(* The parallel version only counts the characters in parallel.            *)
(*                                                                         *)
(* mem: the fields of gsaca_values (first and last for group_start and     *)
(* group_end), the borders of the group as the caller saved them (from,    *)
(* to), the number of groups split off (splits), the next index (index).   *)
(***************************************************************************)
EXTENDS Saca, FiniteSetsExt

CONSTANTS
  GsacaThreads    \* the numbers of threads of GSACA_parallel; 0 stands for GSACA

GsacaAssumption == TextsAssumption /\ GsacaThreads \subseteq Nat

EXTRA_SENTINELS == 1

T == WithSentinels(text, EXTRA_SENTINELS)
number_of_chars == Len(T)

\* numeric_limits<sa_index>::max(), which is also the predecessor of position 0.
prev_const == -1

\* The occurrences of every character, by one thread, or by threads that each
\* have a slice of the text and a list of their own, summed up.
chars_count(threads) ==
  LET items_per_thread == number_of_chars \div threads + 1
      InSlice(first, size, c) ==
        Cardinality({ i \in first .. Min({ first + size, number_of_chars }) - 1 : At(T, i) = c })
  IN  [ c \in 0 .. K - 1 |->
          IF threads = 0 THEN InSlice(0, number_of_chars, c)
          ELSE MapThenSumSet(LAMBDA t : InSlice(t * items_per_thread, items_per_thread, c),
                             0 .. threads - 1) ]

\* One group per character, with its size in the cell of its first suffix.
build_initial_structures(count) ==
  LET cumulative == [ c \in 0 .. K - 1 |-> MapThenSumSet(LAMBDA d : count[d], 0 .. c - 1) ]
      Place(i) == cumulative[At(T, i)] + count[At(T, i)] - 1
                  - Cardinality({ j \in i + 1 .. number_of_chars - 1 : At(T, j) = At(T, i) })
      places == [ i \in 0 .. number_of_chars - 1 |-> Place(i) ]
  IN  [ ISA   |-> places,
        PREV  |-> Array(number_of_chars, prev_const),
        GLINK |-> [ i \in 0 .. number_of_chars - 1 |-> cumulative[At(T, i)] ],
        GSIZE |-> [ p \in 0 .. number_of_chars - 1 |->
                      MapThenSumSet(LAMBDA c : count[c],
                        { c \in 0 .. K - 1 : count[c] > 0 /\ cumulative[c] = p }) ],
        first |-> 0, last |-> number_of_chars - 1,
        from |-> 0, to |-> 0, splits |-> 0, index |-> 0 ]

Init ==
  /\ text \in Texts
  /\ SA = InitialArray(EXTRA_SENTINELS)
  /\ pc = "start"
  /\ mem = << >>

construct_sa ==
  /\ pc = "start"
  /\ IF number_of_chars = 1
       THEN Goto("done") /\ UNCHANGED << SA, mem >>
       ELSE \E threads \in GsacaThreads :
              \E m \in { build_initial_structures(chars_count(threads)) } :
                /\ mem' = m
                /\ SA' = [ p \in 0 .. number_of_chars - 1 |->
                             CHOOSE i \in 0 .. number_of_chars - 1 : m.ISA[i] = p ]
                /\ Goto("group")
  /\ UNCHANGED text

\* The loop over the groups: the borders of the one that ends in last.
NextGroup ==
  /\ pc = "group"
  /\ IF mem.last > 0
       THEN LET start == mem.GLINK[SA[mem.last]] IN
            /\ mem' = [ mem EXCEPT !.first = start, !.from = start, !.to = mem.last,
                                   !.GSIZE[start] = 0 ]
            /\ Goto("prev")
            /\ UNCHANGED SA
       ELSE \* sort_suffixes starts with the sentinel
            /\ SA' = [ SA EXCEPT ![0] = number_of_chars - 1 ]
            /\ Goto("sort")
            /\ UNCHANGED mem
  /\ UNCHANGED text

\* From s along the pointers to the first suffix of the group or of one below.
RECURSIVE PrevPointer(_)
PrevPointer(s) ==
  IF s = prev_const \/ mem.ISA[s] <= mem.last THEN s ELSE PrevPointer(mem.PREV[s])

\* Reads no pointer of the group itself, so the order of its suffixes is free.
compute_prev_pointer ==
  /\ pc = "prev"
  /\ LET group == { SA[i] : i \in mem.first .. mem.last }
     IN  \E found \in { [ s \in group |-> PrevPointer(s - 1) ] } :
           LET marked == { mem.ISA[found[s]] : s \in { s \in group : found[s] # prev_const } }
           IN  mem' = [ mem EXCEPT
                 !.PREV = [ s \in DOMAIN @ |-> IF s \in group THEN found[s] ELSE @[s] ],
                 !.GSIZE = [ i \in DOMAIN @ |->
                               IF i \in marked /\ i >= mem.first THEN 1 ELSE @[i] ] ]
  /\ Goto("update")
  /\ UNCHANGED << text, SA >>

\* The suffixes nobody of the group points to come first.
update_group_structure ==
  /\ pc = "update"
  /\ LET unmarked == { i \in mem.first .. mem.last : mem.GSIZE[i] = 0 }
         group == { SA[i] : i \in mem.first .. mem.last }
     IN  \E kept \in { Arranged(unmarked, LAMBDA i, j : i < j) } :
           /\ SA' = [ p \in DOMAIN SA |->
                        IF p - mem.first \in DOMAIN kept THEN SA[kept[p - mem.first]] ELSE SA[p] ]
           /\ mem' = [ mem EXCEPT
                !.ISA = [ s \in DOMAIN @ |-> IF s \in group THEN mem.last ELSE @[s] ],
                !.last = mem.first + Cardinality(unmarked),
                !.splits = 0 ]
  /\ Goto("reorder")
  /\ UNCHANGED text

\* One pass of the inner loop of reorder_suffixes, down from index; m is mem
\* with the array in field sa.
RECURSIVE ReorderPass(_, _)
ReorderPass(m, index) ==
  IF index < m.first THEN m
  ELSE LET s == m.sa[index]
           previous == m.PREV[s]
       IN  CASE previous = prev_const ->
                  ReorderPass([ m EXCEPT !.sa[index] = m.sa[m.first], !.first = @ + 1 ], index)
             [] previous # prev_const /\ m.ISA[previous] < m.from ->
                  ReorderPass([ m EXCEPT !.sa = [ @ EXCEPT ![index] = m.sa[m.last - 1],
                                                           ![m.last - 1] = previous ],
                                         !.last = @ - 1 ], index - 1)
             [] OTHER ->
                  ReorderPass([ m EXCEPT !.PREV = [ @ EXCEPT ![s] = m.PREV[previous],
                                                             ![previous] = prev_const ] ],
                              index - 1)

WithArray(m) ==
  [ sa |-> SA, PREV |-> m.PREV, ISA |-> m.ISA, GLINK |-> m.GLINK, GSIZE |-> m.GSIZE,
    first |-> m.first, last |-> m.last, from |-> m.from ]

reorder_suffixes ==
  /\ pc = "reorder"
  /\ mem.first < mem.last
  /\ \E m \in { ReorderPass(WithArray(mem), mem.last - 1) } :
       /\ SA' = m.sa
       /\ mem' = [ mem EXCEPT !.PREV = m.PREV, !.first = m.first, !.last = m.last,
                     !.GSIZE = IF m.last < mem.last
                                 THEN [ @ EXCEPT ![m.last] = mem.last - m.last ] ELSE @,
                     !.splits = IF m.last < mem.last THEN @ + 1 ELSE @ ]
  /\ UNCHANGED << text, pc >>

\* The suffixes of a split group go to the back of their groups, from the last.
RECURSIVE MovedBack(_, _)
MovedBack(m, index) ==
  IF index < m.first THEN m
  ELSE LET s == m.sa[index]
           start == m.GLINK[s]
           end == start + m.GSIZE[start] - 1
       IN  MovedBack(
             [ m EXCEPT !.GSIZE[start] = @ - 1,
                        !.sa = [ @ EXCEPT ![m.ISA[s]] = m.sa[end], ![end] = s ],
                        !.ISA = [ @ EXCEPT ![m.sa[end]] = m.ISA[s], ![s] = end ] ],
             index - 1)

\* One split group: its suffixes move, and become groups of their own.
rearrange_suffixes ==
  /\ pc = "reorder"
  /\ mem.first >= mem.last
  /\ mem.splits > 0
  /\ LET last == mem.first + mem.GSIZE[mem.first] IN
     \E m \in { MovedBack([ WithArray(mem) EXCEPT !.last = last ], last - 1) } :
       LET moved == { m.sa[i] : i \in mem.first .. last - 1 } IN
       \E glink \in { [ s \in DOMAIN m.GLINK |->
                          IF s \in moved THEN m.GLINK[s] + m.GSIZE[m.GLINK[s]] ELSE m.GLINK[s] ] } :
         /\ SA' = m.sa
         /\ mem' = [ mem EXCEPT
              !.ISA = m.ISA, !.GLINK = glink, !.first = last, !.last = last, !.splits = @ - 1,
              !.GSIZE = [ p \in DOMAIN @ |->
                            m.GSIZE[p] + Cardinality({ s \in moved : glink[s] = p }) ] ]
  /\ UNCHANGED << text, pc >>

\* The last cell of the group counts its places from now on.
CloseGroup ==
  /\ pc = "reorder"
  /\ mem.first >= mem.last
  /\ mem.splits = 0
  /\ SA' = [ SA EXCEPT ![mem.to] = mem.from ]
  /\ mem' = [ mem EXCEPT !.last = mem.from - 1 ]
  /\ Goto("group")
  /\ UNCHANGED text

\* Places s and the suffixes its pointers lead to; ISA 0 marks a placed one.
RECURSIVE Place_(_, _, _)
Place_(sa, isa, s) ==
  IF s = prev_const \/ isa[s] = 0 THEN << sa, isa >>
  ELSE LET start == sa[isa[s]]
       IN  Place_([ [ sa EXCEPT ![isa[s]] = start + 1 ] EXCEPT ![start] = s ],
                  [ isa EXCEPT ![s] = 0 ], mem.PREV[s])

sort_suffixes ==
  /\ pc = "sort"
  /\ IF mem.index = number_of_chars
       THEN Goto("done") /\ UNCHANGED << SA, mem >>
       ELSE /\ \E r \in { Place_(SA, mem.ISA, SA[mem.index] - 1) } :
                 /\ SA' = r[1]
                 /\ mem' = [ mem EXCEPT !.ISA = r[2], !.index = @ + 1 ]
            /\ UNCHANGED pc
  /\ UNCHANGED text

Next ==
  \/ construct_sa \/ NextGroup \/ compute_prev_pointer \/ update_group_structure
  \/ reorder_suffixes \/ rearrange_suffixes \/ CloseGroup \/ sort_suffixes

Spec == Init /\ [][Next]_vars

(***************************************************************************)
(* Properties.                                                             *)
(***************************************************************************)

\* What the constructor leaves is the text's suffix array.
ResultIsSuffixArray == pc = "done" => IsResult(SA, EXTRA_SENTINELS)

\* A suffix in a lower group is lexicographically smaller, at every start of a
\* group's turn: phase 1 may split groups but never order two suffixes wrongly.
RanksNeverContradict ==
  pc = "group" =>
    \A p, q \in 0 .. number_of_chars - 1 :
      mem.GLINK[p] < mem.GLINK[q] => SuffixBefore(T, p, q)

\* The suffixes of the groups to come are in the array once, where ISA says,
\* inside the borders GLINK and GSIZE give (gsaca_values): the exchanges of
\* rearrange_suffixes keep the four arrays in step.
EveryPositionOnce ==
  pc = "group" =>
    \A p \in 0 .. mem.last :
      LET s == SA[p] IN
      mem.ISA[s] = p /\ p - mem.GLINK[s] \in 0 .. mem.GSIZE[mem.GLINK[s]] - 1

=============================================================================
