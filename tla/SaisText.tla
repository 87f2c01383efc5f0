------------------------------ MODULE SaisText ------------------------------
(***************************************************************************)
(* The vocabulary of the induced-sorting constructors (saca/sais.hpp and   *)
(* saca/parallel_sais.hpp): texts, suffix order, suffix types, LMS         *)
(* positions and bucket borders.                                           *)
(*                                                                         *)
(* A text is a sequence over 0 .. K-1; positions are counted from 0 as in  *)
(* the code, so character i of s is s[i + 1].  The last character is the   *)
(* sentinel 0, which occurs nowhere else (saca.hpp puts it there).         *)
(*                                                                         *)
(* Nothing here is recursive: every notion is defined by what it means,    *)
(* not by the loop that computes it.  The loops are modelled elsewhere     *)
(* (ParallelTypes, PipelinedInducing) and compared with these definitions. *)
(***************************************************************************)
EXTENDS Integers, Sequences, FiniteSets

L_Type == 0
S_Type == 1

\* The positions of the text, of the suffix array and of the type vector.
Positions(s) == 0 .. Len(s) - 1

At(s, i) == s[i + 1]

\* Texts of length n over 0 .. K-1 that end in a unique smallest sentinel.
TextsOfLength(n, K) ==
  { Append(x, 0) : x \in [1 .. n - 1 -> 1 .. K - 1] }

\* Suffix p of s is lexicographically smaller than suffix q of s: they agree
\* up to a position where p has the smaller character.  No suffix is a prefix
\* of another, as the sentinel is unique.
SuffixLess(s, p, q) ==
  \E k \in 0 .. Len(s) - 1 :
    /\ p + k < Len(s)
    /\ q + k < Len(s)
    /\ At(s, p + k) < At(s, q + k)
    /\ \A j \in 0 .. k - 1 : At(s, p + j) = At(s, q + j)

\* The suffix array: the suffixes in ascending order, by their rank.
Rank(s, p) == Cardinality({ q \in Positions(s) : SuffixLess(s, q, p) })

SuffixArray(s) ==
  [ k \in Positions(s) |-> CHOOSE p \in Positions(s) : Rank(s, p) = k ]

\* Position i is S-type iff its suffix is smaller than the next one: the run
\* of equal characters that starts at i ends below a larger character.  The
\* sentinel is S-type.
IsS(s, i) ==
  \/ i = Len(s) - 1
  \/ \E e \in i .. Len(s) - 2 :
       /\ At(s, e) < At(s, e + 1)
       /\ \A j \in i .. e : At(s, j) = At(s, i)

Types(s) ==
  [ i \in Positions(s) |-> IF IsS(s, i) THEN S_Type ELSE L_Type ]

\* parallel_sais::is_LMS.
is_LMS(t, position) ==
  /\ position > 0
  /\ t[position] = S_Type
  /\ t[position - 1] = L_Type

LMSPositions(s, t) == { p \in Positions(s) : is_LMS(t, p) }

\* parallel_sais::generate_buckets: for every character the end (exclusive)
\* or the start of its bucket in the suffix array.
generate_buckets(s, K, end) ==
  [ c \in 0 .. K - 1 |->
      Cardinality({ i \in Positions(s) :
                      IF end THEN At(s, i) <= c ELSE At(s, i) < c }) ]

=============================================================================
