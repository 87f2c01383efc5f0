-------------------------------- MODULE Saca --------------------------------
(***************************************************************************)
(* What every constructor of the registry (util/saca.hpp) has in common:   *)
(* it is given a text in the effective alphabet with EXTRA_SENTINELS zeros *)
(* behind it and fills an array; the driver cuts the sentinels' suffixes   *)
(* off the front of the array (prepare_and_construct_sa).                  *)
(*                                                                         *)
(* Positions and array cells are counted from 0, as in the code.           *)
(***************************************************************************)
EXTENDS Integers, Sequences, FiniteSets, TLC

CONSTANTS
  Texts,       \* the texts, without sentinels
  K            \* size of the alphabet, the sentinel included

VARIABLES
  text,        \* the text, without sentinels
  SA,          \* the array the constructor fills, out_sa
  pc,          \* the constructor's phase
  mem          \* the constructor's own memory, whose shape it chooses

vars == << text, SA, pc, mem >>

TextsAssumption ==
  /\ K \in Nat \ {0}
  /\ \A x \in Texts : x \in Seq(1 .. K - 1)

\* A fresh cell: make_container fills arrays with zeros.
Fresh == 0

At(s, i) == s[i + 1]
Array(n, v) == [ k \in 0 .. n - 1 |-> v ]
Zeros(n) == [ k \in 1 .. n |-> 0 ]

\* The effective text with its sentinels.
WithSentinels(x, sentinels) == x \o Zeros(sentinels)

\* The members of S in the order lt, as an array.
RECURSIVE Listed(_)
Listed(S) ==
  IF S = {} THEN << >> ELSE LET x == CHOOSE x \in S : TRUE IN Append(Listed(S \ {x}), x)

\* A set of numbers in ascending order.
Ascending(S) == SortSeq(Listed(S), <)

Arranged(S, lt(_, _)) ==
  LET sorted == SortSeq(Listed(S), lt)
  IN  [ k \in 0 .. Len(sorted) - 1 |-> sorted[k + 1] ]

\* Sequences in lexicographic order; a proper prefix comes first.
LexLess(a, b) ==
  \E k \in 0 .. Len(a) :
    /\ k < Len(b)
    /\ \A j \in 1 .. k : a[j] = b[j]
    /\ k = Len(a) \/ a[k + 1] < b[k + 1]

Suffix(x, p) == SubSeq(x, p + 1, Len(x))
SuffixBefore(x, p, q) == LexLess(Suffix(x, p), Suffix(x, q))

\* The first h characters from p, fewer at the end.
Prefix(x, p, h) == SubSeq(x, p + 1, IF p + h < Len(x) THEN p + h ELSE Len(x))

\* The suffix array of x, by its definition.
SuffixesInOrder(x) ==
  Arranged(0 .. Len(x) - 1, LAMBDA p, q : SuffixBefore(x, p, q))

\* The array before a constructor starts.
InitialArray(sentinels) == Array(Len(text) + sentinels, Fresh)

\* The driver's view of the result: the cells behind the sentinels'.
IsResult(array, sentinels) ==
  LET order == SuffixesInOrder(text)
  IN  \A k \in 0 .. Len(text) - 1 : array[k + sentinels] = order[k]

\* Two sequences merged from the left; lt is the set of the pairs of an entry
\* of a and one of b of which the first is taken first.
RECURSIVE MergedFrom(_, _, _, _)
MergedFrom(a, b, lt, result) ==
  IF a = << >> \/ b = << >> THEN result \o a \o b
  ELSE IF << Head(a), Head(b) >> \in lt
    THEN MergedFrom(Tail(a), b, lt, Append(result, Head(a)))
    ELSE MergedFrom(a, Tail(b), lt, Append(result, Head(b)))

Goto(phase) == pc' = phase

=============================================================================
