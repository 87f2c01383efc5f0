----------------------------- MODULE DivSufSort -----------------------------
(***************************************************************************)
(* div_suf_sort/: the suffixes of type RMS, S and followed by an L, are    *)
(* sorted by their substrings and then by ranks at twice the depth every   *)
(* round; the other S suffixes are induced from them from the right, the L *)
(* suffixes from the left. Everything lives in out_sa and two arrays of    *)
(* bucket borders. The mask of an entry is its sign here.                  *)
(***************************************************************************)
EXTENDS Saca, FiniteSetsExt

Effective == WithSentinels(text, 1)
max_character_value == Max({ text[i] : i \in 1 .. Len(text) })
Pairs == (1 .. K - 1) \X (1 .. K - 1)

\* util::get_type_rtl_dynamic of every position.
LTypes(x) ==
  LET L[p \in 0 .. Len(x) - 1] ==
        \/ p = Len(x) - 1
        \/ At(x, p) > At(x, p + 1)
        \/ At(x, p) = At(x, p + 1) /\ L[p + 1]
  IN  L

is_rms_type(L, p) == ~L[p] /\ L[p + 1]

\* The RMS suffixes from left to right: the end of out_sa after the scan.
RmsPositions(x, L) == Arranged({ p \in 0 .. Len(x) - 2 : is_rms_type(L, p) }, <)

\* The sizes of the buckets: an S suffix that starts with c, d is counted in
\* cell c, d of s_buckets, an RMS suffix in cell d, c.
count_buckets(x, L) ==
  LET Starts(p, c, d) == At(x, p) = c /\ At(x, p + 1) = d
      S == { p \in 0 .. Len(x) - 2 : ~L[p] }
  IN  [l |-> [ c \in 0 .. K - 1 |-> Cardinality({ p \in 0 .. Len(x) - 2 : L[p] /\ At(x, p) = c }) ],
       s |-> [ cd \in Pairs |-> IF cd[1] <= cd[2]
                 THEN Cardinality({ p \in S : Starts(p, cd[1], cd[2]) /\ ~L[p + 1] })
                 ELSE Cardinality({ p \in S : Starts(p, cd[2], cd[1]) /\ L[p + 1] }) ]]

BothBuckets(s, c, d) == s[<< c, d >>] + (IF c = d THEN 0 ELSE s[<< d, c >>])

\* The sizes become borders: the left one of every L bucket, and the right one,
\* counted in RMS suffixes only, of every RMS bucket.
prefix_sum(size) ==
  [l |-> [ c \in 0 .. K - 1 |-> IF c = 0 THEN 0 ELSE
             1 + MapThenSumSet(LAMBDA b : size.l[b], 1 .. c - 1)
               + MapThenSumSet(LAMBDA bd : BothBuckets(size.s, bd[1], bd[2]),
                               { bd \in Pairs : bd[1] < c /\ bd[1] <= bd[2] }) ],
   s |-> [ cd \in Pairs |-> IF cd[1] <= cd[2] THEN size.s[cd] ELSE
             MapThenSumSet(LAMBDA be : size.s[be],
               { be \in Pairs : /\ be[2] < be[1]
                                /\ be[2] < cd[2] \/ (be[2] = cd[2] /\ be[1] <= cd[1]) }) ]]

\* Every RMS suffix leaves its bucket's border one smaller.
BordersAfterInsertion(border, size) ==
  [border EXCEPT !.s = [ cd \in Pairs |-> IF cd[1] > cd[2] THEN @[cd] - size.s[cd] ELSE @[cd] ]]

construct_sa ==
  /\ pc = "start"
  /\ \E x \in { Effective } : \E L \in { LTypes(x) } : \E size \in { count_buckets(x, L) } :
     \E positions \in { RmsPositions(x, L) } :
       \/ /\ text = << >>
          /\ SA' = [SA EXCEPT ![0] = 0]
          /\ Goto("done") /\ UNCHANGED << text, mem >>
       \/ /\ text # << >>
          /\ mem' = [x |-> x, L |-> L, absolute |-> positions, size |-> size,
                     border |-> BordersAfterInsertion(prefix_sum(size), size),
                     m |-> Cardinality(DOMAIN positions), pos |-> 0, visited |-> {}]
          /\ Goto(IF positions = << >> THEN "induce_s" ELSE "substrings")
          /\ UNCHANGED << text, SA >>

\* compare_rms_substrings: the first two characters are equal in a bucket; one
\* character behind the shorter substring is compared too, then the lengths.
compare_rms_substrings(m, a, b) ==
  LET End(k) == IF k = m.m - 1 THEN Len(m.x) - 1 ELSE m.absolute[k + 1] + 1
      Size(k) == End(k) - m.absolute[k] + 1
      Char(k, j) == At(m.x, m.absolute[k] + j)
      shorter == Min({ Size(a), Size(b) })
      differ == { j \in 2 .. shorter : m.absolute[a] + j < Len(m.x) /\ m.absolute[b] + j < Len(m.x)
                                       /\ Char(a, j) # Char(b, j) }
  IN  IF differ = {} THEN Size(a) < Size(b) ELSE Char(a, Min(differ)) < Char(b, Min(differ))

\* insert_into_buckets and sort_rms_substrings: buckets in their order, their
\* substrings sorted.
SubstringBefore(m, a, b) ==
  LET Bucket(k) == << At(m.x, m.absolute[k]), At(m.x, m.absolute[k] + 1) >>
  IN  \/ LexLess(Bucket(a), Bucket(b))
      \/ Bucket(a) = Bucket(b) /\ compare_rms_substrings(m, a, b)

\* Where cells from .. to fall into runs of equal entries: a run's entries get
\* its last cell as their rank, and in front of every stretch of runs of one
\* entry its negated length is written.
RunEnd(differs, k, last) == Min({ j \in k .. last : j = last \/ j \in differs })
Single(differs, k, first, last) == (k = last \/ k \in differs) /\ (k = first \/ (k - 1) \in differs)

Marked(rel, differs, first, last) ==
  LET Unique(k) == Single(differs, k, first, last)
      StretchEnd(k) == Min({ j \in k .. last : j = last \/ ~Unique(j + 1) })
  IN  [ k \in DOMAIN rel |->
          IF k \in first .. last /\ Unique(k) /\ (k = first \/ ~Unique(k - 1))
          THEN -(StretchEnd(k) - k + 1) ELSE rel[k] ]

Ranked(isa, rel, differs, first, last) ==
  [ a \in DOMAIN isa |->
      IF \E k \in first .. last : rel[k] = a
      THEN RunEnd(differs, CHOOSE k \in first .. last : rel[k] = a, last) ELSE isa[a] ]

compute_initial_isa ==
  /\ pc = "substrings"
  /\ \E rel \in { Arranged(0 .. mem.m - 1, LAMBDA a, b : SubstringBefore(mem, a, b)) } :
     \E differs \in { { k \in 0 .. mem.m - 2 : SubstringBefore(mem, rel[k], rel[k + 1]) } } :
       mem' = [rel |-> Marked(rel, differs, 0, mem.m - 1),
               isa |-> Ranked(Array(mem.m, 0), rel, differs, 0, mem.m - 1),
               depth |-> 0, begin |-> 0, end |-> 0,
               inside |-> FALSE, unsorted |-> FALSE] @@ mem
  /\ Goto("suffixes")
  /\ UNCHANGED << text, SA >>

\* Faulty: the depth is doubled before the first round.
compare_suffix_ranks_Deeper(m, a, b) ==
  LET far == 2 ^ (m.depth + 1)
  IN  IF m.isa[a] # m.isa[b] THEN m.isa[a] < m.isa[b]
      ELSE \/ a + far >= m.m
           \/ b + far < m.m /\ m.isa[a + far] < m.isa[b + far]

\* compare_suffix_ranks at depth 2^depth.
compare_suffix_ranks(m, a, b) ==
  LET far == 2 ^ m.depth
  IN  IF m.isa[a] # m.isa[b] THEN m.isa[a] < m.isa[b]
      ELSE \/ a + far >= m.m
           \/ b + far < m.m /\ m.isa[a + far] < m.isa[b + far]

\* A found interval is sorted and its ranks are recomputed.
recompute_interval_isa(m, first, last) ==
  LET sorted == Arranged({ m.rel[k] : k \in first .. last },
                         LAMBDA a, b : compare_suffix_ranks(m, a, b))
      rel == [ k \in DOMAIN m.rel |-> IF k \in first .. last THEN sorted[k - first] ELSE m.rel[k] ]
      differs == { k \in first .. last - 1 : compare_suffix_ranks(m, rel[k], rel[k + 1]) }
  IN  [m EXCEPT !.rel = Marked(rel, differs, first, last),
                !.isa = Ranked(m.isa, rel, differs, first, last),
                !.unsorted = @ \/ last > first, !.inside = FALSE]

\* One cell of the scan for intervals that are not sorted.
Scan(m) ==
  LET cell == m.rel[m.pos]
      last == m.pos = m.m - 1
      Adjacent == ~last /\ m.rel[m.pos + 1] >= 0 /\ m.isa[cell] < m.isa[m.rel[m.pos + 1]]
      after == CASE cell < 0 -> [m EXCEPT !.end = m.pos, !.pos = @ - cell]
                 [] cell >= 0 /\ ~m.inside ->
                      [m EXCEPT !.begin = m.pos, !.inside = TRUE, !.pos = @ + 1,
                                !.end = IF last THEN m.m ELSE @]
                 [] OTHER -> [m EXCEPT !.pos = @ + 1,
                                       !.end = IF last THEN m.m ELSE IF Adjacent THEN m.pos + 1 ELSE @]
  IN  IF after.inside /\ after.end > after.begin
      THEN recompute_interval_isa(after, after.begin, after.end - 1) ELSE after

sort_rms_suffixes_internal ==
  /\ pc = "suffixes" /\ mem.pos < mem.m
  /\ \E m \in { Scan(mem) } : mem' = m
  /\ UNCHANGED << text, SA, pc >>

sort_rms_suffixes ==
  /\ pc = "suffixes" /\ mem.pos >= mem.m
  /\ mem' = [mem EXCEPT !.depth = @ + 1, !.pos = 0, !.begin = 0, !.end = 0,
                        !.inside = FALSE, !.unsorted = FALSE]
  /\ Goto(IF mem.unsorted THEN "suffixes" ELSE "insert")
  /\ UNCHANGED << text, SA >>

\* sort_rms_indices_to_order: an entry whose predecessor is larger is negated,
\* for it induces nothing in the first pass.
sort_rms_indices_to_order(m) ==
  LET Entry(p) == IF p > 0 /\ At(m.x, p - 1) > At(m.x, p) THEN -p ELSE p
  IN  [ j \in 0 .. m.m - 1 |-> Entry(m.absolute[CHOOSE a \in 0 .. m.m - 1 : m.isa[a] = j]) ]

\* The last cell of the S bucket c, d, and the last one of its RMS bucket.
LastOfS(m, c, d) ==
  m.border.l[c + 1] - 1
    - MapThenSumSet(LAMBDA e : BothBuckets(m.size.s, c, e), d + 1 .. max_character_value)
LastOfRms(m, c, d) == LastOfS(m, c, d) - m.size.s[<< c, d >>]

\* The RMS suffixes of every bucket move, from the right, to the cells on the
\* left of the bucket's S suffixes.
Moves(m, order) ==
  UNION { LET size == m.size.s[<< c, d >>]
              last == m.border.s[<< c, d >>] + size - 1
          IN  { << LastOfRms(m, d, c) - j, order[last - j] >> : j \in 0 .. size - 1 }
          : << c, d >> \in { cd \in Pairs : cd[2] < cd[1] /\ cd[1] <= max_character_value } }

\* The cells the first pass visits: for every character, from the largest to the
\* second smallest, those of the S suffixes of the one before; it ends at the
\* first character whose border is 0.
VisitedCells(m) ==
  LET First(c) == m.border.s[<< c, c - 1 >>]
      stopped == { c \in 2 .. max_character_value : First(c) = 0 }
      from == IF stopped = {} THEN 2 ELSE Max(stopped) + 1
  IN  UNION { First(c) .. m.border.l[c] - 1 : c \in from .. max_character_value }

\* Afterwards the borders of the S buckets point at their last free cell, and
\* cell c + 1, c holds the first cell of S suffixes that start with c, c.
insert_rms_into_correct_pos ==
  /\ pc = "insert"
  /\ \E order \in { sort_rms_indices_to_order(mem) } : \E moves \in { Moves(mem, order) } :
       SA' = [ k \in DOMAIN SA |->
         IF \E move \in moves : move[1] = k THEN (CHOOSE move \in moves : move[1] = k)[2]
         ELSE IF k < mem.m THEN order[k]
         ELSE IF k < 2 * mem.m THEN mem.isa[k - mem.m]
         ELSE IF k >= Len(mem.x) - mem.m THEN mem.absolute[k - (Len(mem.x) - mem.m)]
         ELSE SA[k] ]
  /\ \E m \in { [mem EXCEPT !.border.s = [ cd \in Pairs |->
         IF cd[1] <= cd[2] /\ cd[1] < max_character_value THEN LastOfS(mem, cd[1], cd[2])
         ELSE IF cd[1] = cd[2] + 1 /\ cd[1] <= max_character_value
           THEN LastOfRms(mem, cd[2], cd[2]) + 1
         ELSE @[cd] ]] } :
       mem' = [m EXCEPT !.visited = VisitedCells(m)]
  /\ Goto("induce_s")
  /\ UNCHANGED text

\* induce_s_suffixes, one visited cell: an entry that is not negated puts its
\* predecessor, itself negated when it will induce no S suffix, at the end of
\* its bucket, and every entry's sign is toggled.
induce_s(m, array, i) ==
  LET p == array[i]
      bucket == << At(m.x, p - 1), At(m.x, p) >>
      predecessor == IF p > 1 /\ At(m.x, p - 2) > At(m.x, p - 1) THEN -(p - 1) ELSE p - 1
  IN  IF p = 0 THEN << m, array >>
      ELSE IF p < 0 THEN << m, [array EXCEPT ![i] = -@] >>
      ELSE << [m EXCEPT !.border.s[bucket] = @ - 1],
              [array EXCEPT ![m.border.s[bucket]] = predecessor, ![i] = -@] >>

induce_s_suffixes ==
  /\ pc = "induce_s" /\ mem.visited # {}
  /\ \E after \in { induce_s(mem, SA, Max(mem.visited)) } :
       /\ mem' = [after[1] EXCEPT !.visited = @ \ { Max(mem.visited) }]
       /\ SA' = after[2]
  /\ UNCHANGED << text, pc >>

\* The sentinel's suffix is the first.
InduceSentinel ==
  /\ pc = "induce_s" /\ mem.visited = {}
  /\ SA' = [SA EXCEPT ![0] = Len(text)]
  /\ mem' = [mem EXCEPT !.pos = 0]
  /\ Goto("induce_l")
  /\ UNCHANGED text

\* induce_l_suffixes, one cell from the left.
induce_l_suffixes ==
  /\ pc = "induce_l" /\ mem.pos < Len(mem.x)
  /\ \E p \in { SA[mem.pos] } :
       \/ p = 0 /\ UNCHANGED SA /\ mem' = [mem EXCEPT !.pos = @ + 1]
       \/ p < 0 /\ SA' = [SA EXCEPT ![mem.pos] = -p] /\ mem' = [mem EXCEPT !.pos = @ + 1]
       \/ /\ p > 0
          /\ LET c == At(mem.x, p - 1)
                 induced == IF p > 1 /\ At(mem.x, p - 2) < c THEN -(p - 1) ELSE p - 1
             IN  /\ SA' = [SA EXCEPT ![mem.border.l[c]] = induced]
                 /\ mem' = [mem EXCEPT !.border.l[c] = @ + 1, !.pos = @ + 1]
  /\ UNCHANGED << text, pc >>

Return ==
  /\ pc = "induce_l" /\ mem.pos = Len(mem.x)
  /\ Goto("done")
  /\ UNCHANGED << text, SA, mem >>

Init ==
  /\ text \in Texts
  /\ SA = InitialArray(1)
  /\ pc = "start"
  /\ mem = << >>

Next == construct_sa \/ compute_initial_isa \/ sort_rms_suffixes_internal \/ sort_rms_suffixes
        \/ insert_rms_into_correct_pos \/ induce_s_suffixes \/ InduceSentinel
        \/ induce_l_suffixes \/ Return

Spec == Init /\ [][Next]_vars

-----------------------------------------------------------------------------
\* The array is the suffix array when the constructor returns.
ResultIsSuffixArray == pc = "done" => IsResult(SA, 1)

\* While the RMS suffixes are sorted in rounds (rms_sorting.hpp), a smaller rank
\* always means a smaller suffix, although ranks change within a round and are
\* compared at depths other intervals have not reached.
RanksNeverContradict ==
  pc = "suffixes" => \A a, b \in 0 .. mem.m - 1 :
    mem.isa[a] < mem.isa[b] => SuffixBefore(mem.x, mem.absolute[a], mem.absolute[b])

=============================================================================
