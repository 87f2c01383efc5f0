--------------------------------- MODULE Dc7 ---------------------------------
(***************************************************************************)
(* saca/dc7.hpp: difference cover modulo 7.  The positions that leave 1, 2 *)
(* or 4 are sorted by seven characters, if need be by a recursive call;    *)
(* those that leave 3, 5, 6 and 0 by six characters and a rank that is     *)
(* known by then; five arrays are merged by comparing their heads.         *)
(*                                                                         *)
(* mem is the stack of the calls of construct_sa_dc7, the innermost last.  *)
(* The lengths of the arrays are computed with size_t: for the shortest    *)
(* texts they wrap around, and an array of such a length is not to be had. *)
(***************************************************************************)
EXTENDS Saca

CONSTANT MEMORY      \* no container has as many entries

EXTRA_SENTINELS == 7
Cover == { 1, 2, 4 }

top == mem[Len(mem)]
Call(s) == [ s |-> s, tuples_124 |-> << >>, t_124 |-> << >> ]
WithTop(frame) == [ mem EXCEPT ![Len(mem)] = frame ]

\* The positions of a text with its first sentinel.
n(s) == Len(s) - 6

bit(condition) == IF condition THEN 1 ELSE 0

size_124(m) == (3 * m) \div 7 + 1 - bit(m % 7 = 0) - bit(m % 7 = 1)

start_of_pos_2(m) == size_124(m) \div 3 + bit(size_124(m) % 3 # 0)
start_of_pos_4(m) == 2 * start_of_pos_2(m) - bit(m % 7 = 2)

Start(m, residue) ==
  IF residue = 1 THEN 0 ELSE IF residue = 2 THEN start_of_pos_2(m) ELSE start_of_pos_4(m)

\* The place of a position of the cover in t_124, and the other way round.
PlaceOf(m, p) == Start(m, p % 7) + p \div 7
PositionAt(m, k) ==
  IF k < start_of_pos_2(m) THEN 7 * k + 1
  ELSE IF k < start_of_pos_4(m) THEN 7 * (k - start_of_pos_2(m)) + 2
  ELSE 7 * (k - start_of_pos_4(m)) + 4

\* The length of the array of the positions that leave r, as size_t.
length_t(m, r) ==
  IF m >= r THEN (m - r) \div 7 + bit((m - r) % 7 # 0) ELSE MEMORY

Tuple(s, p, length) == SubSeq(s, p + 1, p + length)

\* The positions of the cover by seven characters, equal ones by position.
determine_tuples(s) ==
  Arranged({ i \in 1 .. n(s) - 1 : i % 7 \in Cover },
           LAMBDA i, j : LexLess(Append(Tuple(s, i, 7), i), Append(Tuple(s, j, 7), j)))

\* Names in ascending order, equal tuples alike, by place; seven zeros behind.
determine_leq(s, tuples) ==
  LET name(i) == 1 + Cardinality({ k \in 1 .. i :
                       Tuple(s, tuples[k], 7) # Tuple(s, tuples[k - 1], 7) })
  IN  [ k \in 1 .. size_124(n(s)) |->
          name(CHOOSE i \in DOMAIN tuples : PlaceOf(n(s), tuples[i]) = k - 1) ] \o Zeros(7)

recursion(s, tuples) ==
  \E i \in DOMAIN tuples : i > 0 /\ Tuple(s, tuples[i], 7) = Tuple(s, tuples[i - 1], 7)

\* Ranks from 1, by place: the inverse of the recursive call's result.
determine_sa(sa_124) ==
  [ p \in DOMAIN sa_124 |-> 1 + CHOOSE i \in DOMAIN sa_124 : sa_124[i] = p ]

\* The positions that leave r, in order: a rank array, from start_pos on, has
\* the ranks of the positions six behind them; 0 if it ends before.
induce_sa(s, isa, start_pos, r) ==
  LET rank(i) == IF start_pos + i \div 7 < Len(isa) THEN At(isa, start_pos + i \div 7) ELSE 0
      key(i) == Tuple(s, i, 6) \o << rank(i), i >>
      order == Arranged({ i \in 0 .. n(s) - 1 : i % 7 = r },
                        LAMBDA i, j : LexLess(key(i), key(j)))
  IN  [ k \in 1 .. Cardinality(DOMAIN order) |-> order[k - 1] ]

\* Ranks from 1 of the positions of a sorted array.
determine_isa(sa) ==
  [ k \in 1 .. Len(sa) |-> CHOOSE i \in 1 .. Len(sa) : sa[i] \div 7 = k - 1 ]

\* Faulty variant: an entry whose shift leaves the cover for one of the two.
merge_table_Shifted ==
  << << 0, 1, 2, 1, 4, 4, 2 >>, << 1, 0, 0, 1, 0, 3, 3 >>, << 2, 0, 0, 6, 0, 6, 2 >>,
     << 1, 1, 6, 0, 5, 6, 5 >>, << 4, 0, 0, 5, 0, 4, 5 >>, << 4, 3, 6, 6, 4, 0, 2 >>,
     << 2, 3, 2, 5, 5, 2, 0 >> >>

\* How many characters to compare until both positions are in the cover.
merge_table ==
  << << 0, 1, 2, 1, 4, 4, 2 >>, << 1, 0, 0, 1, 0, 3, 3 >>, << 2, 0, 0, 6, 0, 6, 2 >>,
     << 1, 1, 6, 0, 5, 6, 5 >>, << 4, 0, 0, 5, 0, 4, 5 >>, << 4, 3, 6, 6, 4, 0, 3 >>,
     << 2, 3, 2, 5, 5, 3, 0 >> >>

Before(s, t_124, p, q) ==
  LET length == merge_table[(q % 7) + 1][(p % 7) + 1]
      rank(i) == At(t_124, PlaceOf(n(s), i))
  IN  \/ LexLess(Tuple(s, p, length), Tuple(s, q, length))
      \/ /\ Tuple(s, p, length) = Tuple(s, q, length)
         /\ rank(p + length) < rank(q + length)

\* The queue of the arrays with a head: the first two are compared, and the
\* one with the smaller head goes to the queue's end.
RECURSIVE Smallest(_, _, _, _)
Smallest(s, t_124, all_sa, queue) ==
  IF Len(queue) = 1 THEN queue[1]
  ELSE LET winner == IF Before(s, t_124, Head(all_sa[queue[1]]), Head(all_sa[queue[2]]))
                       THEN queue[1] ELSE queue[2]
       IN  Smallest(s, t_124, all_sa, Append(Tail(Tail(queue)), winner))

RECURSIVE MergeFrom(_, _, _, _)
MergeFrom(s, t_124, all_sa, sa) ==
  LET queue == SelectSeq(<< 1, 2, 3, 4, 5 >>, LAMBDA k : all_sa[k] # << >>)
  IN  IF queue = << >> THEN sa
      ELSE LET k == Smallest(s, t_124, all_sa, queue)
           IN  MergeFrom(s, t_124, [ all_sa EXCEPT ![k] = Tail(@) ],
                         Append(sa, Head(all_sa[k])))

\* The array that starts with the suffix of the first sentinel, which is left out.
sentinel_array(s) ==
  CASE Len(s) % 7 = 0 -> 1
    [] Len(s) % 7 \in Cover -> 2
    [] Len(s) % 7 = 3 -> 3
    [] Len(s) % 7 = 5 -> 4
    [] Len(s) % 7 = 6 -> 5

merge_sa(s, t_124, all_sa) ==
  MergeFrom(s, t_124, [ all_sa EXCEPT ![sentinel_array(s)] = Tail(@) ], << >>)

-----------------------------------------------------------------------------
Init ==
  /\ text \in Texts
  /\ SA = InitialArray(EXTRA_SENTINELS)
  /\ pc = "start"
  /\ mem = << >>

construct_sa ==
  /\ pc = "start"
  /\ IF Len(text) <= 1
       THEN /\ Goto("done")
            /\ SA' = IF Len(text) = 1 THEN [ SA EXCEPT ![EXTRA_SENTINELS] = 0 ] ELSE SA
            /\ UNCHANGED mem
       ELSE /\ mem' = << Call(WithSentinels(text, EXTRA_SENTINELS)) >>
            /\ Goto("sort")
            /\ UNCHANGED SA
  /\ UNCHANGED text

\* Phase 1.
SortTuples ==
  /\ pc = "sort"
  /\ \E tuples \in { determine_tuples(top.s) } :
       \E names \in { determine_leq(top.s, tuples) } :
         LET frame == [ top EXCEPT !.tuples_124 = tuples, !.t_124 = names ]
         IN  IF recursion(top.s, tuples)
               THEN mem' = Append(WithTop(frame), Call(names)) /\ UNCHANGED pc
               ELSE mem' = WithTop(frame) /\ Goto("merge")
  /\ UNCHANGED << text, SA >>

\* Phase 2 after a recursive call, whose result is at the front of out_sa.
TakeRanks ==
  /\ pc = "ranks"
  /\ LET size == size_124(n(top.s))
         sa_124 == [ k \in 0 .. size - 1 |-> SA[EXTRA_SENTINELS + k] ]
         ranks == determine_sa(sa_124)
     IN  mem' = WithTop([ top EXCEPT
           !.tuples_124 = [ i \in 0 .. size - 1 |-> PositionAt(n(top.s), sa_124[i]) ],
           !.t_124 = [ k \in 1 .. size |-> ranks[k - 1] ] \o Zeros(7) ])
  /\ Goto("merge")
  /\ UNCHANGED << text, SA >>

\* The rest of phase 2: the other positions' arrays, if they can be had.
Allocated == \A r \in { 0, 3, 5, 6 } : length_t(n(top.s), r) < MEMORY

FailToAllocate ==
  /\ pc = "merge" /\ ~Allocated
  /\ Goto("failed")
  /\ UNCHANGED << text, SA, mem >>

\* Phase 3, and the return from the call.
Merge ==
  /\ pc = "merge" /\ Allocated
  /\ LET s == top.s
         size == size_124(n(s))
         isa_124 == SubSeq(top.t_124, 1, size)
         sa_124 == [ k \in 1 .. size |-> top.tuples_124[k - 1] ]
     IN  \E sa_3 \in { induce_sa(s, isa_124, start_of_pos_2(n(s)) + 1, 3) },
            sa_5 \in { induce_sa(s, isa_124, start_of_pos_4(n(s)) + 1, 5) } :
           \E sa_6 \in { induce_sa(s, determine_isa(sa_5), 1, 6) } :
             \E sa_0 \in { induce_sa(s, determine_isa(sa_6), 0, 0) } :
               \E sa \in { merge_sa(s, top.t_124, << sa_0, sa_124, sa_3, sa_5, sa_6 >>) } :
                 SA' = [ c \in DOMAIN SA |->
                           IF c - EXTRA_SENTINELS \in 0 .. Len(sa) - 1
                             THEN At(sa, c - EXTRA_SENTINELS) ELSE SA[c] ]
  /\ mem' = SubSeq(mem, 1, Len(mem) - 1)
  /\ Goto(IF Len(mem) = 1 THEN "done" ELSE "ranks")
  /\ UNCHANGED text

Next == construct_sa \/ SortTuples \/ TakeRanks \/ FailToAllocate \/ Merge

Spec == Init /\ [][Next]_vars

-----------------------------------------------------------------------------
ResultIsSuffixArray == pc = "done" => IsResult(SA, EXTRA_SENTINELS)

NeverFails == pc # "failed"

\* The text of a recursive call has the order of the suffixes it stands for.
ReductionKeepsOrder ==
  pc = "sort" /\ Len(mem) > 1 =>
    LET caller == mem[Len(mem) - 1].s
        m == n(caller)
    IN  \A k, l \in 0 .. size_124(m) - 1 :
          SuffixBefore(top.s, k, l) <=>
            SuffixBefore(caller, PositionAt(m, k), PositionAt(m, l))

=============================================================================
