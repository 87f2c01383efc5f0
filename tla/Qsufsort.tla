------------------------------ MODULE Qsufsort ------------------------------
(***************************************************************************)
(* saca/qsufsort.hpp: Larsson and Sadakane's sort.  isa holds the ranks,   *)
(* the highest place of a group for all its members; in the array a run of *)
(* sorted suffixes starts with its length, as a negative number.  A group  *)
(* is sorted by the ranks h positions behind, and the parts of a quicksort *)
(* get their ranks while the rest of the group is still compared by them.  *)
(*                                                                         *)
(* qsufsort_naive compares by a copy of the ranks and keeps the lengths of *)
(* groups and runs in an array L.                                          *)
(***************************************************************************)
EXTENDS Saca

CONSTANT PACKED    \* characters that word_packing packs into a number

EXTRA_SENTINELS == 1

s == WithSentinels(text, 1)
n == Len(s)
Places == 0 .. n - 1

\* word_packing: PACKED characters, zeros behind the end; order is the number's.
Word(p) == SubSeq(s \o Zeros(PACKED), p + 1, p + PACKED)

\* Ranks for an array sorted by key: the last place of the equal ones.
GroupRanks(sa, key) ==
  [ p \in Places |->
      CHOOSE i \in Places :
        /\ key[sa[i]] = key[p]
        /\ i = n - 1 \/ key[sa[i + 1]] # key[p] ]

\* The length of a run, negative, at each place where a run of sorted places starts.
RunAt(i, sorted) ==
  IF i \in sorted /\ i - 1 \notin sorted
    THEN -(CHOOSE l \in 1 .. n - i : i .. i + l - 1 \subseteq sorted /\ i + l \notin sorted)
    ELSE 0

\* calculate_equal_length: runs of words that differ from their neighbours'.
calculate_equal_length(sa) ==
  LET alone == { i \in Places : /\ i = 0 \/ Word(sa[i - 1]) # Word(sa[i])
                                /\ i = n - 1 \/ Word(sa[i + 1]) # Word(sa[i]) }
  IN  [ i \in Places |-> IF RunAt(i, alone) < 0 THEN RunAt(i, alone) ELSE sa[i] ]

\* The rank of the suffix at place i, of which a run's first cell has no index.
RankAt(sa, isa, i) == IF sa[i] < 0 THEN i ELSE isa[sa[i]]

\* Faulty variant: runs are found, but one does not take in the run in front of it.
update_group_length_Short(sa, isa) ==
  LET sorted == { i \in Places : RankAt(sa, isa, i) = i /\ (i = 0 \/ RankAt(sa, isa, i - 1) # i) }
  IN  [ i \in Places |-> IF RunAt(i, sorted) < 0 THEN 1 + RunAt(i, sorted) ELSE sa[i] ]

\* A place is sorted if its rank is the successor of the one in front of it.
update_group_length(sa, isa) ==
  LET sorted == { i \in Places : i = 0 \/ RankAt(sa, isa, i) - RankAt(sa, isa, i - 1) = 1 }
  IN  [ i \in Places |-> IF RunAt(i, sorted) < 0 THEN RunAt(i, sorted) ELSE sa[i] ]

\* compare_ranks: by the rank h positions behind; nothing there is smallest.
Less(V, h, a, b) ==
  /\ b + h < n
  /\ a + h >= n \/ V[a + h] < V[b + h]
Equal(V, h, a, b) == ~Less(V, h, a, b) /\ ~Less(V, h, b, a)

Sorting(start, end) == << "sort", start, end >>
Ranking(start, end) == << "rank", start, end >>

\* Faulty variant: the parts are ranked from the right.
Parts_Reversed(start, first, second, end) ==
  << Sorting(start + second, end), Ranking(start + first, start + second - 1),
     Sorting(start, start + first - 1) >>

\* What is left to do after a partition, in this order.
Parts(start, first, second, end) ==
  << Sorting(start, start + first - 1), Ranking(start + first, start + second - 1),
     Sorting(start + second, end) >>

-----------------------------------------------------------------------------
Init ==
  /\ text \in Texts
  /\ SA = InitialArray(EXTRA_SENTINELS)
  /\ pc = "start"
  /\ mem \in [ variant : { "qsufsort", "naive" } ]

construct_sa ==
  /\ pc = "start"
  /\ IF n < 2 THEN Goto("done") /\ UNCHANGED << SA, mem >>
     ELSE IF mem.variant = "naive" THEN Goto("first") /\ UNCHANGED << SA, mem >>
     ELSE \E sa \in { Arranged(Places, LAMBDA p, q :
                        LexLess(Append(Word(p), p), Append(Word(q), q))) } :
            /\ SA' = calculate_equal_length(sa)
            /\ mem' = [ variant |-> "qsufsort", isa |-> GroupRanks(sa, [ p \in Places |-> Word(p) ]), h |-> 1,
                        counter |-> 0, tasks |-> << >> ]
            /\ Goto("groups")
  /\ UNCHANGED text

is_sorted == SA[0] = -n

\* The next group: a run is passed over, an unsorted group is sorted.
NextGroup ==
  /\ pc = "groups" /\ ~is_sorted /\ mem.counter < n /\ mem.tasks = << >>
  /\ IF SA[mem.counter] < 0
       THEN mem' = [ mem EXCEPT !.counter = @ - SA[mem.counter] ]
       ELSE LET end == mem.isa[SA[mem.counter]]
            IN  mem' = [ mem EXCEPT !.tasks = << Sorting(mem.counter, end) >>,
                                    !.counter = end + 1 ]
  /\ UNCHANGED << text, SA, pc >>

Task(kind) == pc = "groups" /\ mem.tasks # << >> /\ Head(mem.tasks)[1] = kind
start == Head(mem.tasks)[2]
end == Head(mem.tasks)[3]

\* sort_and_update_group of at most two suffixes.
SortSmall ==
  /\ Task("sort") /\ end <= start + 1
  /\ LET a == SA[start]
         b == SA[end]
         swapped == end = start + 1 /\ Less(mem.isa, mem.h, b, a)
         first == IF swapped THEN b ELSE a
         second == IF swapped THEN a ELSE b
     IN  IF end < start THEN mem' = [ mem EXCEPT !.tasks = Tail(@) ] /\ UNCHANGED SA
         ELSE IF end = start
           THEN mem' = [ mem EXCEPT !.tasks = Tail(@), !.isa[a] = start ] /\ UNCHANGED SA
         ELSE /\ SA' = [ SA EXCEPT ![start] = first, ![end] = second ]
              /\ mem' = IF Equal(mem.isa, mem.h, first, second)
                   THEN [ mem EXCEPT !.tasks = << Ranking(start, end) >> \o Tail(@) ]
                   ELSE [ mem EXCEPT !.tasks = Tail(@),
                                     !.isa[first] = start, !.isa[second] = end ]
  /\ UNCHANGED << text, pc >>

\* A partition around the median of some suffixes of the group.
Partition ==
  /\ Task("sort") /\ end > start + 1
  /\ \E pivot \in { SA[i] : i \in start .. end } :
       LET members == [ i \in 1 .. end - start + 1 |-> SA[start + i - 1] ]
           less == SelectSeq(members, LAMBDA p : Less(mem.isa, mem.h, p, pivot))
           equal == SelectSeq(members, LAMBDA p : Equal(mem.isa, mem.h, p, pivot))
           greater == SelectSeq(members, LAMBDA p : Less(mem.isa, mem.h, pivot, p))
           parted == less \o equal \o greater
       IN  /\ SA' = [ i \in DOMAIN SA |->
                        IF i \in start .. end THEN At(parted, i - start) ELSE SA[i] ]
           /\ mem' = [ mem EXCEPT !.tasks =
                Parts(start, Len(less), Len(less) + Len(equal), end) \o Tail(@) ]
  /\ UNCHANGED << text, pc >>

update_equal_partition_ranks ==
  /\ Task("rank")
  /\ mem' = [ mem EXCEPT !.tasks = Tail(@),
                !.isa = [ p \in DOMAIN @ |->
                            IF \E i \in start .. end : SA[i] = p THEN end ELSE @[p] ] ]
  /\ UNCHANGED << text, SA, pc >>

EndRound ==
  /\ pc = "groups" /\ ~is_sorted /\ mem.counter >= n /\ mem.tasks = << >>
  /\ SA' = update_group_length(SA, mem.isa)
  /\ mem' = [ mem EXCEPT !.h = 2 * @, !.counter = 0 ]
  /\ UNCHANGED << text, pc >>

isa2sa_simple_scan ==
  /\ pc = "groups" /\ is_sorted
  /\ SA' = [ i \in Places |-> CHOOSE p \in Places : mem.isa[p] = i ]
  /\ Goto("done")
  /\ UNCHANGED << text, mem >>

\* update_L: the negative length at a run's first place, a group's size at its.
update_L(sa, V) ==
  LET sorted == { i \in Places : i = 0 \/ V[sa[i]] - V[sa[i - 1]] = 1 }
      first(i) == i = 0 \/ V[sa[i]] # V[sa[i - 1]]
  IN  [ i \in Places |->
          IF i = 0 /\ V[sa[0]] = V[sa[1]] THEN V[sa[0]] + 1
          ELSE IF RunAt(i, sorted) < 0 THEN RunAt(i, sorted)
          ELSE IF first(i) /\ i \notin sorted THEN V[sa[i]] - i + 1
          ELSE 0 ]

init_additional_arrays ==
  /\ pc = "first"
  /\ \E sa \in { Arranged(Places, LAMBDA p, q :
                   LexLess(<< At(s, p), p >>, << At(s, q), q >>)) } :
       LET V == GroupRanks(sa, [ p \in Places |-> At(s, p) ])
       IN  /\ SA' = sa
           /\ mem' = [ variant |-> "naive", isa |-> V, h |-> 1, counter |-> 0,
                       copy |-> V, L |-> update_L(sa, V) ]
  /\ Goto("naive")
  /\ UNCHANGED text

\* A member's rank: the group's last place but for those behind it.
update_group_ranks(group, last) ==
  [ p \in DOMAIN mem.isa |->
      IF p \in group THEN last - Cardinality({ q \in group : Less(mem.copy, mem.h, p, q) })
      ELSE mem.isa[p] ]

\* ternary_quicksort of a group by the copy, and update_group_ranks.
NaiveGroup ==
  /\ pc = "naive" /\ mem.counter < n
  /\ LET size == mem.L[mem.counter]
         cells == mem.counter .. mem.counter + size - 1
         group == { SA[i] : i \in cells }
         less(p, q) == Less(mem.copy, mem.h, p, q)
         order == Arranged(group, LAMBDA p, q : less(p, q) \/ (~less(q, p) /\ p < q))
     IN  IF size < 0 THEN mem' = [ mem EXCEPT !.counter = @ - size ] /\ UNCHANGED SA
         ELSE /\ SA' = [ i \in DOMAIN SA |-> IF i \in cells THEN order[i - mem.counter] ELSE SA[i] ]
              /\ mem' = [ mem EXCEPT !.counter = @ + size,
                    !.isa = update_group_ranks(group, mem.counter + size - 1) ]
  /\ UNCHANGED << text, pc >>

EndNaiveRound ==
  /\ pc = "naive" /\ mem.counter >= n
  /\ \E L \in { update_L(SA, mem.isa) } :
       /\ mem' = [ mem EXCEPT !.L = L, !.h = 2 * @, !.counter = 0, !.copy = mem.isa ]
       /\ IF L[0] = -n THEN Goto("done") ELSE UNCHANGED pc
  /\ UNCHANGED << text, SA >>

Next ==
  \/ construct_sa
  \/ NextGroup \/ SortSmall \/ Partition \/ update_equal_partition_ranks \/ EndRound
  \/ isa2sa_simple_scan
  \/ init_additional_arrays \/ NaiveGroup \/ EndNaiveRound

Spec == Init /\ [][Next]_vars

-----------------------------------------------------------------------------
ResultIsSuffixArray == pc = "done" => IsResult(SA, EXTRA_SENTINELS)

\* In every state, in the middle of a group, too: ranks that differ tell the
\* order of the suffixes.  This is why they may be compared while they change.
RanksNeverContradict ==
  pc \in { "groups", "naive" } =>
    \A p, q \in Places : mem.isa[p] < mem.isa[q] => SuffixBefore(s, p, q)

\* At the start of a round, prefixes of h characters that differ have
\* different ranks, and the lengths of the runs lead from group to group.
RoundIsComplete ==
  pc \in { "groups", "naive" } /\ mem.counter = 0 =>
    /\ \A p, q \in Places :
         mem.isa[p] = mem.isa[q] =>
           Prefix(s, p, mem.h) = Prefix(s, q, mem.h)
    /\ pc = "groups" =>
         LET next[i \in 0 .. n] ==
               IF i = n THEN TRUE
               ELSE IF SA[i] < 0 THEN i - SA[i] <= n /\ next[i - SA[i]]
               ELSE mem.isa[SA[i]] >= i + 1 /\ next[mem.isa[SA[i]] + 1]
         IN  next[0]

=============================================================================
