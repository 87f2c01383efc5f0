------------------------------ MODULE MSufSort ------------------------------
(***************************************************************************)
(* m_suf_sort.hpp, m_suf_sort_v2.hpp and m_suf_sort_scan.hpp: chains of S  *)
(* suffixes with a common prefix on a stack, refined or ranked from the    *)
(* smallest on; ranking a suffix enters the L suffix in front of it into   *)
(* a list that is ranked in its turn. Links, ends of chains and ranks      *)
(* share the array isa: a rank r is written -r - 1 here (NEG_BIT), the END *)
(* is the text's length. The parallel versions differ in the sorters.      *)
(***************************************************************************)
EXTENDS Saca, SequencesExt

CONSTANT MSufSortVersions   \* subset of {"mSufSort", "mSufSortV2", "mSufSort_scan"}

Effective == WithSentinels(text, 1)
Size(m) == Len(m.x)
END(m) == Len(m.x)
is_rank(m, p) == m.isa[p] < 0
get_rank(m, p) == -m.isa[p] - 1
set_link(m, p, link) == [m EXCEPT !.isa[p] = link]

\* util::get_type_rtl_dynamic
TypeL(x, p, right) ==
  \/ p = Len(x) - 1
  \/ At(x, p) > At(x, p + 1)
  \/ At(x, p) = At(x, p + 1) /\ right

\* The lists of L suffixes by their first two characters: head and tail.
NoList(m) == [head |-> END(m), tail |-> END(m)]
exists(m, ab) == m.lists[ab].tail # END(m)

\* m_suf_sort_attr::type_l_insert: append to the list of a, b. In a run of one
\* character the tail may just have been ranked: then a new list begins.
type_l_insert(m, element, ab, type_l) ==
  LET list == m.lists[ab]
      run == /\ element < Size(m) - 3 /\ type_l
             /\ ab[1] = ab[2] /\ At(m.x, element + 2) = ab[2]
      new == ~exists(m, ab) \/ (run /\ (list.tail = list.head \/ is_rank(m, list.tail)))
      inserted == IF new THEN [m EXCEPT !.lists[ab] = [head |-> element, tail |-> element]]
                  ELSE [set_link(m, list.tail, element) EXCEPT !.lists[ab].tail = element]
  IN  set_link(inserted, element, END(m))

assign_rank(m, p, type_l) ==
  LET ranked == [m EXCEPT !.isa[p] = -m.rank - 1, !.rank = @ + 1]
  IN  IF p # 0 /\ TypeL(m.x, p - 1, type_l)
      THEN type_l_insert(ranked, p - 1, << At(m.x, p - 1), At(m.x, p) >>, type_l)
      ELSE ranked

\* rank_type_l_list, after the head has been taken off: a link is read before
\* its suffix is ranked.
RECURSIVE RankList(_, _, _)
RankList(m, ab, current) ==
  IF current = END(m)
  THEN IF m.lists[ab].head = END(m) THEN [m EXCEPT !.lists[ab] = NoList(m)] ELSE m
  ELSE RankList(assign_rank(m, current, TRUE), ab, m.isa[current])

\* All lists whose first character is i or more, up to last.
RECURSIVE rank_type_l_lists(_, _, _, _)
rank_type_l_lists(m, i, j, last) ==
  IF i > last THEN m
  ELSE IF j > i THEN rank_type_l_lists(m, i + 1, 0, last)
  ELSE IF exists(m, << i, j >>)
    THEN rank_type_l_lists(RankList([m EXCEPT !.lists[<< i, j >>].head = END(m)],
                                    << i, j >>, m.lists[<< i, j >>].head), i, j, last)
  ELSE rank_type_l_lists(m, i, j + 1, last)

\* The S suffixes of every character, linked from right to left; the smallest
\* character's chain, the sentinel's, is on top of the stack.
InitialChains(x) ==
  LET S[p \in 0 .. Len(x) - 1] == p # Len(x) - 1 /\ (At(x, p) < At(x, p + 1)
                                  \/ (At(x, p) = At(x, p + 1) /\ S[p + 1]))
      n == Len(x)
      type_s == [ p \in 0 .. n - 1 |-> p = n - 1 \/ S[p] ]
      Same(p) == { q \in 0 .. n - 1 : type_s[q] /\ At(x, q) = At(x, p) }
      Left(p) == { q \in Same(p) : q < p }
      heads == { p \in 0 .. n - 1 : type_s[p] /\ \A q \in Same(p) : q <= p }
  IN  [isa |-> [ p \in 0 .. n - 1 |-> IF type_s[p] /\ Left(p) # {} THEN Max(Left(p)) ELSE n ],
       stack |-> SetToSortSeq({ [head |-> p, length |-> 1] : p \in heads },
                              LAMBDA a, b : At(x, a.head) < At(x, b.head))]

construct_sa ==
  /\ pc = "start"
  /\ \/ text = << >> /\ Goto("done") /\ UNCHANGED << text, SA, mem >>
     \/ /\ text # << >>
        /\ \E version \in MSufSortVersions : \E x \in { Effective } :
             mem' = InitialChains(x) @@
               [version |-> version, x |-> x, rank |-> 0, last_char |-> 0,
                lists |-> [ ab \in (0 .. K - 1) \X (0 .. K - 1) |->
                              [head |-> Len(x), tail |-> Len(x)] ]]
        /\ Goto("chains")
        /\ UNCHANGED << text, SA >>

\* mSufSortV2, has_repetition: the link leads to the suffix one period before.
has_repetition(m, p, length) == m.isa[p] = p - length

RECURSIVE RepetitionEnd(_, _, _)
RepetitionEnd(m, p, length) ==
  IF has_repetition(m, p, length) THEN RepetitionEnd(m, p - length, length) ELSE p

\* The chain is followed: a suffix whose rest has a rank is sorted by that rank,
\* the others are refined; a repetition is skipped and ranked after its head.
RECURSIVE Follow(_, _, _, _)
Follow(m, p, length, found) ==
  LET induced == is_rank(m, p + length)
      repeats == induced /\ m.version = "mSufSortV2" /\ has_repetition(m, p, length)
      end == IF repeats THEN RepetitionEnd(m, p, length) ELSE p
      with == [refined |-> IF induced THEN found.refined ELSE Append(found.refined, p),
               induced |-> IF induced THEN Append(found.induced, p) ELSE found.induced,
               repeated |-> IF repeats THEN Append(found.repeated, [head |-> p, end |-> end])
                            ELSE found.repeated]
  IN  IF m.isa[end] = END(m) THEN with ELSE Follow(m, m.isa[end], length, with)

RankAll(m, suffixes) == FoldLeft(LAMBDA r, p : assign_rank(r, p, FALSE), m, suffixes)

\* Faulty: the suffixes are ranked in the order of the chain.
easy_induced_sort_Unsorted(m, induced, length) == RankAll(m, induced)

\* easy_induced_sort
easy_induced_sort(m, induced, length) ==
  RankAll(m, SortSeq(induced, LAMBDA p, q : get_rank(m, p + length) < get_rank(m, q + length)))

\* rank_repetition_sequences_induced: in the order of their heads' ranks, one
\* suffix of every sequence in turn, until all have reached their end.
RECURSIVE Interleaved(_, _, _)
Interleaved(sequences, length, result) ==
  LET going == SelectSeq(sequences, LAMBDA s : s.head # s.end)
  IN  IF sequences = << >> THEN result
      ELSE Interleaved([ i \in DOMAIN going |-> [going[i] EXCEPT !.head = @ - length] ], length,
                       result \o [ i \in DOMAIN sequences |-> sequences[i].head ])

rank_repetition_sequences_induced(m, repeated, length) ==
  LET sorted == SortSeq(repeated, LAMBDA s, t : get_rank(m, s.head) < get_rank(m, t.head))
      after == [ i \in DOMAIN sorted |-> [sorted[i] EXCEPT !.head = @ - length] ]
  IN  RankAll(m, Interleaved(after, length, << >>))

\* refine_uChain: chains of one more character, the smallest on top. The sort is
\* stable and every chain is linked from its last suffix back; the scanning
\* version links the suffixes in the order it meets them.
refine_uChain(m, refined, length) ==
  LET Char(p) == At(m.x, p + length)
      chars == Ascending({ Char(p) : p \in ToSet(refined) })
      Chain(c) == IF m.version = "mSufSort_scan" THEN SelectSeq(refined, LAMBDA p : Char(p) = c)
                  ELSE Reverse(SelectSeq(refined, LAMBDA p : Char(p) = c))
      Link(p) == LET chain == Chain(Char(p))
                     i == CHOOSE k \in DOMAIN chain : chain[k] = p
                 IN  IF i = Len(chain) THEN END(m) ELSE chain[i + 1]
  IN  [m EXCEPT !.isa = [ p \in DOMAIN @ |-> IF p \in ToSet(refined) THEN Link(p) ELSE @[p] ],
                !.stack = [ i \in DOMAIN chars |-> [head |-> Chain(chars[i])[1],
                                                    length |-> length + 1] ] \o @]

\* One chain from the stack; first the lists of smaller L suffixes are ranked.
NextChain ==
  /\ pc = "chains" /\ mem.stack # << >>
  /\ \E chain \in { Head(mem.stack) } : \E current_char \in { At(mem.x, chain.head) } :
     \E m \in { rank_type_l_lists([mem EXCEPT !.stack = Tail(@)], mem.last_char, 0, current_char) } :
       \/ /\ m.isa[chain.head] = END(m)
          /\ \E ranked \in { assign_rank(m, chain.head, FALSE) } : mem' = ranked
       \/ /\ m.isa[chain.head] # END(m)
          /\ \E found \in { Follow(m, chain.head, chain.length,
                                   [refined |-> << >>, induced |-> << >>, repeated |-> << >>]) } :
             \E sorted \in { easy_induced_sort(m, found.induced, chain.length) } :
             \E ranked \in { rank_repetition_sequences_induced(sorted, found.repeated, chain.length) } :
               mem' = [refine_uChain(ranked, found.refined, chain.length)
                         EXCEPT !.last_char = current_char]
  /\ UNCHANGED << text, SA, pc >>

\* isa2sa_inplace2: the ranks' cycles, each entered at its first cell; a cell that
\* holds a suffix already is no rank.
RECURSIVE Cycle(_, _, _, _, _)
Cycle(isa, start, suffix, rank, first) ==
  IF rank = start /\ ~first THEN [isa EXCEPT ![rank] = suffix]
  ELSE Cycle([isa EXCEPT ![rank] = suffix], start, rank, -isa[rank] - 1, FALSE)

RECURSIVE isa2sa_inplace2(_, _)
isa2sa_inplace2(isa, i) ==
  IF i \notin DOMAIN isa THEN isa
  ELSE isa2sa_inplace2(IF isa[i] < 0 THEN Cycle(isa, i, i, -isa[i] - 1, TRUE) ELSE isa, i + 1)

\* The remaining lists are ranked and the ranks turned into the suffix array.
Finish ==
  /\ pc = "chains" /\ mem.stack = << >>
  /\ \E m \in { rank_type_l_lists(mem, 0, 0, K - 1) } :
       /\ mem' = m
       /\ SA' = isa2sa_inplace2(m.isa, 0)
  /\ Goto("done")
  /\ UNCHANGED text

Init ==
  /\ text \in Texts
  /\ SA = InitialArray(1)
  /\ pc = "start"
  /\ mem = << >>

Next == construct_sa \/ NextChain \/ Finish

Spec == Init /\ [][Next]_vars

-----------------------------------------------------------------------------
\* The array is the suffix array when the constructor returns.
ResultIsSuffixArray == pc = "done" => IsResult(SA, 1)

\* Suffixes are ranked in their final order: whatever has a rank, S suffix of a
\* chain or of a repetition or L suffix of a list, has its place in the suffix
\* array already (assign_rank), and no rank is overwritten by a link.
RanksAreFinal ==
  pc = "chains" =>
    \E order \in { SuffixesInOrder(mem.x) } :
      { p \in DOMAIN mem.isa : is_rank(mem, p) } = { order[r] : r \in 0 .. mem.rank - 1 }
      /\ \A r \in 0 .. mem.rank - 1 : get_rank(mem, order[r]) = r

=============================================================================
