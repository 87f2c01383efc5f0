--------------------------- MODULE PrefixDoubling ---------------------------
(***************************************************************************)
(* saca/prefix_doubling.hpp: names for the prefixes of length a_size^k,    *)
(* each round from a_size names of the round before.  "doubling" sorts     *)
(* all positions in every round; "discarding" keeps positions whose names  *)
(* are unique out of the sorting: out of the way in F when no other        *)
(* position needs the name any more, else for the merge of the next round  *)
(* in P.  All of them share one array, laid out anew in every phase.       *)
(*                                                                         *)
(* WP_SIZE characters are packed into the words of the first tuples.  The  *)
(* sorters are unstable, but no step depends on the order of equal tuples: *)
(* they get the same name and are sorted by their index next.              *)
(***************************************************************************)
EXTENDS Saca

CONSTANTS
  Variants,     \* pairs of "doubling" or "discarding" and a_size, 2 or 4
  WP_SIZE,      \* characters per word: a_size^(1 + WP_SIZE \div a_size) in a tuple
  BITS          \* bits of sa_index

EXTRA_SENTINELS == 0

SENTINEL == 0
N == Len(text)
a_size == mem.variant[2]
Entries(array) == { array[i] : i \in DOMAIN array }
Slice(array, from, to) == [ i \in 1 .. to - from |-> array[from + i - 1] ]

\* a_size_helper: the lowest k digits of v, to the base a_size, become the highest.
pow_a_k(k) == a_size ^ k
rotate(k, v) == (v % pow_a_k(k)) * ((2 ^ BITS) \div pow_a_k(k)) + v \div pow_a_k(k)
unrotate(k, v) ==
  (v % ((2 ^ BITS) \div pow_a_k(k))) * pow_a_k(k) + v \div ((2 ^ BITS) \div pow_a_k(k))
index_phase(k, idx) == (idx % pow_a_k(k)) \div pow_a_k(k - 1)

\* The first k: a_size ^ k characters are in a first tuple.
FirstIteration == 1 + WP_SIZE \div a_size

Word(from) ==
  LET packed[j \in 0 .. WP_SIZE] ==
        IF j = 0 THEN SENTINEL
        ELSE packed[j - 1] * K
             + IF from + j - 1 < N THEN At(text, from + j - 1) ELSE SENTINEL
  IN  packed[WP_SIZE]

Entry(names, idx) == [ names |-> names, idx |-> idx, marked |-> FALSE ]
name(entry) == entry.names[1]
Named(entry, newName, isMarked) ==
  [ entry EXCEPT !.names[1] = newName, !.marked = isMarked ]

InitialTuples(rotation) ==
  { Entry([ l \in 1 .. a_size |-> Word(i + (l - 1) * WP_SIZE) ], rotate(rotation, i)) :
      i \in 0 .. N - 1 }

names_less(e, f) == LexLess(e.names, f.names)
by_names(e, f) == names_less(e, f) \/ (e.names = f.names /\ e.idx < f.idx)
by_idx(e, f) == e.idx < f.idx
SameNames(H, i) == { j \in DOMAIN H : H[j].names = H[i].names }

\* Names for sorted tuples: 1 + the place of the first equal tuple.
rename(H) ==
  [ i \in DOMAIN H |->
      Named(H[i], 1 + Cardinality({ j \in DOMAIN H : names_less(H[j], H[i]) }),
            SameNames(H, i) # {i}) ]

\* The same, for indices to be rotated by one digit more.
rename_inplace_and_rotate_idx(H, k) ==
  [ i \in DOMAIN H |-> [ rename(H)[i] EXCEPT !.idx = rotate(k, unrotate(k - 1, @)) ] ]

\* Faulty variant: the offset counts the groups instead of their members.
rename2_Dense(H) ==
  [ i \in DOMAIN H |->
      Named(H[i],
            name(H[i]) + Cardinality({ H[j].names : j \in { j \in DOMAIN H :
              name(H[j]) = name(H[i]) /\ names_less(H[j], H[i]) } }),
            SameNames(H, i) # {i}) ]

\* Names for sorted tuples that refine the tuples' first names.
rename2(H) ==
  [ i \in DOMAIN H |->
      Named(H[i],
            name(H[i]) + Cardinality({ j \in DOMAIN H :
              name(H[j]) = name(H[i]) /\ names_less(H[j], H[i]) }),
            SameNames(H, i) # {i}) ]

-----------------------------------------------------------------------------
Init ==
  /\ text \in Texts
  /\ SA = InitialArray(EXTRA_SENTINELS)
  /\ pc = "start"
  /\ mem \in [ variant : Variants ]

construct_sa ==
  /\ pc = "start"
  /\ UNCHANGED << text, SA >>
  /\ IF N = 0 THEN Goto("done") /\ UNCHANGED mem
     ELSE IF mem.variant[1] = "doubling"
       THEN /\ Goto("sort")
            /\ mem' = [ variant |-> mem.variant, k |-> FirstIteration,
                        H |-> Arranged(InitialTuples(FirstIteration - 1), by_idx) ]
       ELSE /\ Goto("merge")
            /\ mem' = [ variant |-> mem.variant, k |-> FirstIteration,
                        H |-> rename(Arranged(InitialTuples(FirstIteration), by_names)),
                        P_size |-> 0, F_size |-> 0,
                        Pbs |-> [ digit \in 0 .. a_size - 1 |-> 0 ] ]

\* doubling: sort the tuples and name them; it is over when all names differ.
SortAndRename ==
  /\ pc = "sort"
  /\ LET H == rename_inplace_and_rotate_idx(Arranged(Entries(mem.H), by_names), mem.k)
     IN  /\ mem' = [ mem EXCEPT !.H = H ]
         /\ IF \A i \in DOMAIN H : ~H[i].marked
              THEN /\ SA' = [ i \in 0 .. N - 1 |-> unrotate(mem.k, H[i].idx) ]
                   /\ Goto("done")
              ELSE UNCHANGED SA /\ Goto("pair")
  /\ UNCHANGED text

\* The tuple of the entry at j: the names of the entries behind it, as far as
\* each is k_length positions behind the last.
TupleAt(H, j, last, index) ==
  [ l \in 1 .. a_size |->
      IF /\ j + l - 1 <= last
         /\ \A m \in 1 .. l - 1 :
              index[j + m] = index[j + m - 1] + pow_a_k(mem.k)
        THEN name(H[j + l - 1]) ELSE SENTINEL ]

\* doubling: the next round's tuples.
PairNames ==
  /\ pc = "pair"
  /\ LET H == Arranged(Entries(mem.H), by_idx)
         index == [ j \in DOMAIN H |-> unrotate(mem.k, H[j].idx) ]
     IN  mem' = [ mem EXCEPT !.k = @ + 1,
           !.H = [ j \in DOMAIN H |->
                     Entry(TupleAt(H, j, N - 1, index), H[j].idx) ] ]
  /\ Goto("sort")
  /\ UNCHANGED << text, SA >>

\* p_bucket_sizes: the entry at i of P goes behind the smaller digits', as
\* they were counted when the entries were appended, and its digit's so far.
BucketSorted(P) ==
  LET digit(i) == index_phase(mem.k, P[i].idx)
      place == [ i \in DOMAIN P |->
        1 + Cardinality({ j \in 1 .. i - 1 : digit(j) = digit(i) }) + mem.Pbs[digit(i)] ]
  IN  [ c \in DOMAIN P |->
          IF \E i \in DOMAIN P : place[i] = c
            THEN LET entry == P[CHOOSE i \in DOMAIN P : place[i] = c]
                 IN  [ entry EXCEPT !.idx = rotate(mem.k, @) ]
            ELSE P[c] ]

\* sort_U_by_index_and_merge_P_into_it, then the views of phase 2.
MergeP ==
  /\ pc = "merge"
  /\ LET u_end == N - mem.F_size
         P == BucketSorted(Slice(mem.H, 0, mem.P_size))
         sortedU == Arranged({ mem.H[i] : i \in mem.P_size .. u_end - 1 }, by_idx)
         U == Slice(sortedU, 0, u_end - mem.P_size)
         PU == MergedFrom(P, U, { << p, u >> \in { P[i] : i \in DOMAIN P } \X
                                    { U[i] : i \in DOMAIN U } : by_idx(p, u) }, << >>)
     IN  mem' = [ variant |-> mem.variant, k |-> mem.k, F_size |-> mem.F_size,
           H |-> [ i \in DOMAIN mem.H |->
                     IF i < u_end THEN [ At(PU, i) EXCEPT !.idx = unrotate(mem.k, @) ]
                     ELSE mem.H[i] ],
           Pbs |-> [ digit \in 0 .. a_size - 1 |-> 0 ],
           m_U_start |-> 0, m_U_end |-> u_end,
           m_P_end |-> 0, m_S_end |-> 0, m_F_end |-> 0, count |-> 0 ]
  /\ Goto("split")
  /\ UNCHANGED << text, SA >>

\* append_f, append_s and append_p: the span grows by a cell at its end, and
\* the spans behind it move their first entries to their ends.
AppendF(H, entry) == [ H EXCEPT ![mem.m_F_end] = entry ]
AppendS(H, entry) == [ AppendF(H, H[mem.m_S_end]) EXCEPT ![mem.m_S_end] = entry ]

\* Faulty variant: the first entry of S is written over.
AppendP_Forgotten(H, entry) ==
  [ AppendF(H, H[mem.m_S_end]) EXCEPT ![mem.m_P_end] = entry ]

AppendP(H, entry) ==
  LET moved == AppendF(H, H[mem.m_S_end])
  IN  [ moved EXCEPT ![mem.m_S_end] = moved[mem.m_P_end], ![mem.m_P_end] = entry ]

InSplit == pc = "split" /\ mem.m_U_start # mem.m_U_end
next_u == mem.H[mem.m_U_start]
Unmarked == Entry([ l \in 1 .. a_size |-> IF l = 1 THEN name(next_u) ELSE SENTINEL ], next_u.idx)

\* A unique name behind fewer than two others: no tuple will need it.
FullyDiscarded(count) == count < 2

DiscardFully ==
  /\ InSplit /\ ~next_u.marked /\ FullyDiscarded(mem.count)
  /\ mem' = [ mem EXCEPT !.m_U_start = @ + 1, !.count = 0, !.m_F_end = @ + 1,
                         !.H = AppendF(mem.H, Unmarked) ]
  /\ UNCHANGED << text, SA, pc >>

DiscardPartially ==
  /\ InSplit /\ ~next_u.marked /\ ~FullyDiscarded(mem.count)
  /\ mem' = [ mem EXCEPT !.m_U_start = @ + 1, !.count = 0,
                         !.m_F_end = @ + 1, !.m_S_end = @ + 1, !.m_P_end = @ + 1,
                         !.H = AppendP(mem.H, Unmarked),
                         !.Pbs[index_phase(mem.k + 1, next_u.idx)] = @ + 1 ]
  /\ UNCHANGED << text, SA, pc >>

KeepUndecided ==
  /\ InSplit /\ next_u.marked
  /\ LET tuple == TupleAt(mem.H, mem.m_U_start, mem.m_U_end - 1, [ j \in DOMAIN mem.H |-> mem.H[j].idx ])
     IN  mem' = [ mem EXCEPT !.m_U_start = @ + 1, !.count = @ + 1,
                             !.m_F_end = @ + 1, !.m_S_end = @ + 1,
                             !.H = AppendS(mem.H, Entry(tuple, rotate(mem.k + 1, next_u.idx))) ]
  /\ UNCHANGED << text, SA, pc >>

\* The starts of the digits' buckets.
finalize(Pbs) ==
  [ digit \in DOMAIN Pbs |->
      Cardinality({ << d, i >> \in (DOMAIN Pbs) \X (1 .. N) : d < digit /\ i <= Pbs[d] }) ]

\* The end of a round: nothing undecided is left, or S is sorted and named.
EndRound ==
  /\ pc = "split" /\ mem.m_U_start = mem.m_U_end
  /\ LET P_size == mem.m_P_end
         F_size == mem.F_size + mem.m_F_end - mem.m_S_end
         S == { mem.H[i] : i \in P_size .. N - F_size - 1 }
         F == Arranged({ mem.H[i] : i \in N - F_size .. N - 1 },
                       LAMBDA e, f : name(e) < name(f))
         renamed == rename2(Arranged(S, by_names))
     IN  IF S = {}
           THEN /\ SA' = [ i \in 0 .. N - 1 |-> F[i].idx ]
                /\ Goto("done")
                /\ UNCHANGED mem
           ELSE /\ Goto("merge")
                /\ mem' = [ variant |-> mem.variant, k |-> mem.k + 1,
                     H |-> [ i \in DOMAIN mem.H |->
                               IF i \in P_size .. N - F_size - 1 THEN renamed[i - P_size]
                               ELSE mem.H[i] ],
                     P_size |-> P_size, F_size |-> F_size, Pbs |-> finalize(mem.Pbs) ]
                /\ UNCHANGED SA
  /\ UNCHANGED text

Split == DiscardFully \/ DiscardPartially \/ KeepUndecided

Next == construct_sa \/ SortAndRename \/ PairNames \/ MergeP \/ Split \/ EndRound

Spec == Init /\ [][Next]_vars

-----------------------------------------------------------------------------
ResultIsSuffixArray == pc = "done" => IsResult(SA, EXTRA_SENTINELS)

\* The entries of the array that are in use, with their positions in the text.
Live ==
  CASE pc = "pair" -> { << mem.H[i], unrotate(mem.k, mem.H[i].idx) >> : i \in 0 .. N - 1 }
    [] pc = "merge" ->
         { << mem.H[i], IF i \in mem.P_size .. N - mem.F_size - 1
                          THEN unrotate(mem.k, mem.H[i].idx) ELSE mem.H[i].idx >> :
             i \in 0 .. N - 1 }
    [] pc = "split" ->
         { << mem.H[i], IF i \in mem.m_P_end .. mem.m_S_end - 1
                          THEN unrotate(mem.k + 1, mem.H[i].idx) ELSE mem.H[i].idx >> :
             i \in (0 .. mem.m_F_end - 1) \cup (mem.m_U_start .. N - 1) }
    [] OTHER -> {}

\* The spans overlap in one array while U is taken apart: still every position
\* is in one of them, once.
EveryPositionOnce ==
  pc \in { "pair", "merge", "split" } =>
    /\ { e[2] : e \in Live } = 0 .. N - 1
    /\ Cardinality(Live) = N

\* Names order the prefixes of a_size^k characters, those that were discarded
\* in earlier rounds included, and a mark tells that the prefix is not unique.
NamesOrderPrefixes ==
  pc \in { "pair", "merge" } =>
    \A e, f \in Live :
      LexLess(Prefix(text, e[2], pow_a_k(mem.k)), Prefix(text, f[2], pow_a_k(mem.k))) =>
        name(e[1]) < name(f[1])

=============================================================================
