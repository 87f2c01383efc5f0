------------------------------- MODULE Osipov -------------------------------
(***************************************************************************)
(* saca/osipov: prefix doubling that keeps only what is undecided.  isa    *)
(* holds the h-ranks, with a mark once a suffix is alone in its h-group;   *)
(* sa holds the suffixes that are undecided, and those that are decided    *)
(* but needed to decide another one.                                       *)
(*                                                                         *)
(* osipov_sequential.hpp and osipov_parallel.hpp fill in the same frame    *)
(* (osipov.hpp): the parallel one places tuples by prefix sums and gives   *)
(* ranks by scans, so that the iterations of every loop write cells of     *)
(* their own.  The sorts are not stable in the first round: two orders of  *)
(* equal suffixes are tried.                                               *)
(***************************************************************************)
EXTENDS Saca

CONSTANTS
  InitialDepth,    \* characters compared by the first sort: 4 in the code
  NEGATIVE_MASK    \* the highest bit of sa_index

BUFFER == 8                        \* sentinels for reading over the end
EXTRA_SENTINELS == 1 + BUFFER

s == WithSentinels(text, 1)        \* the text the algorithm sees
n == Len(s)

Marked(rank) == rank >= NEGATIVE_MASK
Mark(rank) == IF Marked(rank) THEN rank ELSE rank + NEGATIVE_MASK
Flip(rank) == IF Marked(rank) THEN rank - NEGATIVE_MASK ELSE rank + NEGATIVE_MASK

\* compare_first_four_chars: a suffix that ends first is not smaller.
cmp_init(p, q) ==
  \E i \in 0 .. InitialDepth - 1 :
    /\ p + i < n /\ q + i < n
    /\ At(s, p + i) < At(s, q + i)
    /\ \A j \in 0 .. i - 1 : At(s, p + j) = At(s, q + j)

\* The heads' places, carried on to the members of their groups.
initialize_isa(sa) ==
  [ p \in 0 .. n - 1 |->
      LET i == CHOOSE i \in 0 .. n - 1 : sa[i] = p
          heads == { k \in 1 .. i : cmp_init(sa[k - 1], sa[k]) } \cup {0}
      IN  CHOOSE k \in heads : \A l \in heads : l <= k ]

\* Marks the suffixes of sa whose neighbours in it have other ranks.
mark_singletons(sa, size, isa) ==
  LET flag(i) == i = 0 \/ isa[sa[i - 1]] # isa[sa[i]]
      alone == { i \in 0 .. size - 1 : flag(i) /\ (i = size - 1 \/ flag(i + 1)) }
  IN  [ p \in DOMAIN isa |->
          IF \E i \in alone : sa[i] = p
            THEN IF sa[size - 1] = p /\ mem.variant = "sequential" THEN Flip(isa[p]) ELSE Mark(isa[p])
            ELSE isa[p] ]

\* The suffix at i induces the one h positions in front of it.
Induces(i, h) == mem.sa[i] >= h /\ ~Marked(mem.isa[mem.sa[i] - h])

\* Faulty variant: the suffix that is needed for position 0 is dropped.
NeededNext_Strict(i, h) ==
  LET p == mem.sa[i]
  IN  Marked(mem.isa[p]) /\ p > 2 * h /\ ~Marked(mem.isa[p - 2 * h])

\* The suffix at i is decided, but is needed in the next round.
NeededNext(i, h) ==
  LET p == mem.sa[i]
  IN  Marked(mem.isa[p]) /\ p >= 2 * h /\ ~Marked(mem.isa[p - 2 * h])

InducedTuple(i, h) ==
  << mem.sa[i] - h, mem.isa[mem.sa[i] - h], mem.isa[mem.sa[i]] >>
NeededTuple(i) == << mem.sa[i], Flip(mem.isa[mem.sa[i]]), mem.isa[mem.sa[i]] >>

\* One tuple after the other.
create_tuples(size, h) ==
  LET from(i) == (IF Induces(i, h) THEN << InducedTuple(i, h) >> ELSE << >>)
                 \o IF NeededNext(i, h) THEN << NeededTuple(i) >> ELSE << >>
      tuples[i \in 0 .. size] == IF i = 0 THEN << >> ELSE tuples[i - 1] \o from(i - 1)
  IN  tuples[size]

\* The tuples of a suffix go to the cells behind those of the ones before it.
create_tuples_par(size, h) ==
  LET aux(i) == (IF Induces(i, h) THEN 1 ELSE 0) + IF NeededNext(i, h) THEN 1 ELSE 0
      exclusive[i \in 0 .. size] == IF i = 0 THEN 0 ELSE exclusive[i - 1] + aux(i - 1)
      written == { << exclusive[i] + 1, InducedTuple(i, h) >> :
                     i \in { j \in 0 .. size - 1 : Induces(j, h) } }
                 \cup { << exclusive[i] + aux(i), NeededTuple(i) >> :
                          i \in { j \in 0 .. size - 1 : NeededNext(j, h) } }
  IN  [ c \in 1 .. exclusive[size] |-> (CHOOSE w \in written : w[1] = c)[2] ]

\* From the left: a group with the same h-rank is split where the 2h-rank
\* changes; the head of a part gets its distance to the last head added.
RECURSIVE RanksFrom(_, _, _, _)
RanksFrom(tuples, i, head, ranks) ==
  IF i > Len(tuples) THEN ranks
  ELSE IF tuples[i][2] > ranks[head]
    THEN RanksFrom(tuples, i + 1, i, Append(ranks, tuples[i][2]))
  ELSE IF tuples[i][3] # tuples[head][3]
    THEN RanksFrom(tuples, i + 1, i, Append(ranks, ranks[head] + i - head))
  ELSE RanksFrom(tuples, i + 1, head, Append(ranks, ranks[head]))

update_ranks(tuples) == RanksFrom(tuples, 2, 1, << tuples[1][2] >>)

\* Faulty variant: the new rank counts from the group's last part.
update_ranks_par_Part(tuples) ==
  LET greatest(S) == CHOOSE x \in S : \A y \in S : y <= x
      new(i) == \/ i = 1
                \/ tuples[i - 1][2] # tuples[i][2]
                \/ tuples[i - 1][3] # tuples[i][3]
      groupStart(i) == greatest({1} \cup { k \in 2 .. i - 1 : new(k) })
  IN  [ i \in 1 .. Len(tuples) |->
          greatest({ tuples[k][2] + k - groupStart(k) : k \in { l \in 1 .. i : new(l) } }) ]

\* By two scans for the maximum: of the first place of every h-group, and of
\* the ranks of the first members of the new groups.
update_ranks_par(tuples) ==
  LET greatest(S) == CHOOSE x \in S : \A y \in S : y <= x
      groupStart(i) ==
        greatest({1} \cup { k \in 2 .. i : tuples[k - 1][2] # tuples[k][2] })
      new(i) == \/ i = 1
                \/ tuples[i - 1][2] # tuples[i][2]
                \/ tuples[i - 1][3] # tuples[i][3]
  IN  [ i \in 1 .. Len(tuples) |->
          greatest({ tuples[k][2] + k - groupStart(k) : k \in { l \in 1 .. i : new(l) } }) ]

-----------------------------------------------------------------------------
Init ==
  /\ text \in Texts
  /\ SA = InitialArray(EXTRA_SENTINELS)
  /\ pc = "start"
  /\ mem \in [ variant : { "sequential", "parallel" } ]

construct_sa ==
  /\ pc = "start"
  /\ IF n > 1 THEN Goto("sort") /\ UNCHANGED SA
     ELSE SA' = [ SA EXCEPT ![BUFFER] = 0 ] /\ Goto("done")
  /\ UNCHANGED << text, mem >>

\* initial_sort, initialize_isa and mark_singletons.
Initialize ==
  /\ pc = "sort"
  /\ \E tie \in { 1, -1 } :
       \E sa \in { Arranged(0 .. n - 1, LAMBDA p, q :
                     cmp_init(p, q) \/ (~cmp_init(q, p) /\ tie * p < tie * q)) } :
         mem' = [ variant |-> mem.variant, sa |-> sa, h |-> InitialDepth, size |-> n,
                  isa |-> mark_singletons(sa, n, initialize_isa(sa)),
                  tuples |-> << >> ]
  /\ Goto("tuples")
  /\ UNCHANGED << text, SA >>

\* The loop's head and create_tuples.
CreateTuples ==
  /\ pc = "tuples" /\ mem.size > 0
  /\ \E tuples \in { IF mem.variant = "parallel" THEN create_tuples_par(mem.size, mem.h)
                     ELSE create_tuples(mem.size, mem.h) } :
       IF tuples # << >>
         THEN mem' = [ mem EXCEPT !.tuples = tuples ] /\ Goto("ranks")
         ELSE mem' = [ mem EXCEPT !.size = 0, !.h = 2 * @ ] /\ UNCHANGED pc
  /\ UNCHANGED << text, SA >>

\* stable_sort by h-rank, update_ranks, update_container and mark_singletons.
UpdateRanks ==
  /\ pc = "ranks"
  /\ \E tuples \in { SortSeq([ i \in 1 .. Len(mem.tuples) |-> << i, mem.tuples[i] >> ],
                       LAMBDA t, u : LexLess(<< t[2][2], t[1] >>, << u[2][2], u[1] >>)) } :
       LET sorted == [ i \in 1 .. Len(tuples) |-> tuples[i][2] ]
           ranks == IF mem.variant = "parallel" THEN update_ranks_par(sorted)
                    ELSE update_ranks(sorted)
           sa == [ i \in 0 .. Len(sorted) - 1 |-> sorted[i + 1][1] ]
           isa == [ p \in DOMAIN mem.isa |->
                      IF \E i \in DOMAIN sorted : sorted[i][1] = p
                        THEN ranks[CHOOSE i \in DOMAIN sorted : sorted[i][1] = p]
                        ELSE mem.isa[p] ]
       IN  mem' = [ mem EXCEPT !.sa = sa, !.isa = mark_singletons(sa, Len(sorted), isa),
                               !.tuples = << >>, !.size = Len(sorted), !.h = 2 * @ ]
  /\ Goto("tuples")
  /\ UNCHANGED << text, SA >>

\* The array of isa, whose ranks are all marked by now, behind the buffer.
finalize ==
  /\ pc = "tuples" /\ mem.size = 0
  /\ SA' = [ c \in DOMAIN SA |->
               IF \E i \in 0 .. n - 1 : BUFFER + Flip(mem.isa[i]) = c
                 THEN CHOOSE i \in 0 .. n - 1 : BUFFER + Flip(mem.isa[i]) = c
                 ELSE SA[c] ]
  /\ Goto("done")
  /\ UNCHANGED << text, mem >>

Next == construct_sa \/ Initialize \/ CreateTuples \/ UpdateRanks \/ finalize

Spec == Init /\ [][Next]_vars

-----------------------------------------------------------------------------
ResultIsSuffixArray == pc = "done" => IsResult(SA, EXTRA_SENTINELS)

Undecided == { p \in 0 .. n - 1 : ~Marked(mem.isa[p]) }

\* A suffix is discarded from sa only when nobody will ask for its rank again:
\* an undecided one and the one that decides it next are still there.
NothingLost ==
  pc = "tuples" =>
    \A p \in Undecided :
      { p, p + mem.h } \subseteq { mem.sa[i] : i \in 0 .. mem.size - 1 }

\* The ranks of all suffixes, discarded ones included, are those of their
\* prefixes of h characters, and a mark says that the prefix is unique.
RanksOrderPrefixes ==
  pc = "tuples" =>
    LET rank(p) == IF Marked(mem.isa[p]) THEN Flip(mem.isa[p]) ELSE mem.isa[p]
    IN  \A p, q \in 0 .. n - 1 :
          /\ LexLess(Prefix(s, p, mem.h), Prefix(s, q, mem.h)) => rank(p) < rank(q)
          /\ p # q /\ Prefix(s, p, mem.h) = Prefix(s, q, mem.h) => ~Marked(mem.isa[p]) /\ rank(p) = rank(q)

\* The parallel loops, with their prefix sums and scans, do what the
\* sequential ones do.
ParallelEqualsSequential ==
  /\ pc = "tuples" => create_tuples_par(mem.size, mem.h) = create_tuples(mem.size, mem.h)
  /\ pc = "ranks" =>
       \E tuples \in { SortSeq(mem.tuples, LAMBDA t, u : t[2] < u[2]) } :
         update_ranks_par(tuples) = update_ranks(tuples)

=============================================================================
