-------------------------------- MODULE Sais --------------------------------
(***************************************************************************)
(* The sequential skeleton of induced sorting in three constructors:       *)
(* saca/sais.hpp, saca/sais_with_parallel_induce.hpp (SAIS_WPI, whose      *)
(* outermost level induces with util/induce_parallel.hpp) and              *)
(* saca/sacak.hpp with util/insert_lms.hpp and util/type_extraction.hpp.   *)
(*                                                                         *)
(* A level of the recursion keeps its text in the last cells of the        *)
(* previous level's part of SA and sorts in the first ones. mem: version,  *)
(* levels (base, n and k of every level: where its text is, its length and *)
(* its number of characters; lms, the number of its LMS positions) and, of *)
(* a parallel pass, the bucket of its turn (c), the bucket pointers        *)
(* (pointers) and the blocks that still write (blocks).                    *)
(***************************************************************************)
EXTENDS Saca, FiniteSetsExt, SequencesExt

CONSTANTS
  SaisVersions,     \* of "SAIS", "SAIS_WPI", "SACA-K"
  BLOCK_SIZE        \* log2(n) * (max_character + 1) in induce_parallel.hpp

SaisAssumption ==
  /\ TextsAssumption
  /\ SaisVersions \subseteq { "SAIS", "SAIS_WPI", "SACA-K" }
  /\ BLOCK_SIZE \in Nat \ {0}

EXTRA_SENTINELS == 1
None == -1

(***************************************************************************)
(* Texts, types and buckets.                                               *)
(***************************************************************************)

Level == mem.levels[Len(mem.levels)]
Size == Level.n

\* The text of the current level.
T == IF Len(mem.levels) = 1 THEN WithSentinels(text, EXTRA_SENTINELS)
     ELSE [ i \in 1 .. Size |-> SA[Level.base + i - 1] ]

\* get_type_ltr_dynamic: the length of the run of equal characters from i, and
\* whether the positions of the run are L-type.
RunLength(s, i) ==
  CHOOSE l \in 1 .. Len(s) - i :
    /\ \A j \in 0 .. l - 1 : At(s, i + j) = At(s, i)
    /\ i + l = Len(s) \/ At(s, i + l) # At(s, i)

get_type_ltr_dynamic(s, i) ==
  /\ At(s, i) # 0
  /\ LET l == RunLength(s, i)
     IN  i + l - 1 = Len(s) - 2 \/ At(s, i) > At(s, i + l)

\* compute_types, from the right; TRUE for L-types.
RECURSIVE compute_types(_, _, _)
compute_types(s, i, t) ==
  IF i < 0 THEN t
  ELSE compute_types(s, i - 1,
         [ t EXCEPT ![i] = \/ At(s, i + 1) < At(s, i)
                           \/ At(s, i + 1) = At(s, i) /\ t[i + 1] ])

LTypes(s) ==
  IF mem.version = "SACA-K" THEN [ i \in 0 .. Len(s) - 1 |-> get_type_ltr_dynamic(s, i) ]
  ELSE compute_types(s, Len(s) - 2, Array(Len(s), FALSE))

is_LMS(t, i) == i > 0 /\ ~t[i] /\ t[i - 1]
LmsPositions(t) == { i \in DOMAIN t : is_LMS(t, i) }

\* The start or, exclusive, the end of every bucket.
generate_buckets(s, end) ==
  [ c \in 0 .. Level.k - 1 |->
      Cardinality({ i \in 1 .. Len(s) : IF end THEN s[i] <= c ELSE s[i] < c }) ]

\* Faulty variant: the loop that empties cells goes over the whole array.
Emptied_WholeArray(sa, f) ==
  [ i \in DOMAIN sa |-> IF i \in DOMAIN f THEN f[i] ELSE None ]

\* The cells of f, and the others of the level emptied.
Emptied(sa, f) == [ i \in DOMAIN sa |-> IF i \in DOMAIN f THEN f[i]
                                        ELSE IF i < Size THEN None ELSE sa[i] ]

\* The positions of order, taken from its end, fill their buckets from the end.
AtBucketEnds(s, order) ==
  LET cell(k) == generate_buckets(s, TRUE)[At(s, order[k])] - 1
                 - Cardinality({ j \in k + 1 .. Len(order) : At(s, order[j]) = At(s, order[k]) })
      cells == [ k \in 1 .. Len(order) |-> cell(k) ]
  IN  [ i \in { cells[k] : k \in 1 .. Len(order) } |->
          order[CHOOSE k \in 1 .. Len(order) : cells[k] = i] ]

(***************************************************************************)
(* A level of the recursion.                                               *)
(***************************************************************************)

Init ==
  /\ text \in Texts
  /\ SA = InitialArray(EXTRA_SENTINELS)
  /\ \E v \in SaisVersions :
       mem = [ version |-> v, levels |-> << >>, c |-> 0, pointers |-> << >>, blocks |-> {} ]
  /\ pc = "start"

\* SACA-K has no special case for an empty text: it finds no LMS position.
construct_sa ==
  /\ pc = "start"
  /\ IF text = << >>
       THEN /\ SA' = IF mem.version = "SACA-K" THEN [ SA EXCEPT ![0] = None ] ELSE SA
            /\ Goto("done")
            /\ UNCHANGED mem
       ELSE /\ mem' = [ mem EXCEPT !.levels =
                          << [ base |-> 0, n |-> Len(text) + 1, k |-> K, lms |-> 0 ] >> ]
            /\ Goto("insert")
            /\ UNCHANGED SA
  /\ UNCHANGED text

\* insert_lms_ltr and its like: the LMS positions, as they come, from the ends
\* of their buckets.
InsertLms ==
  /\ pc = "insert"
  /\ \E s \in { T } : \E t \in { LTypes(s) } :
       \E order \in { Reverse(Ascending(LmsPositions(t))) } :
         /\ \E f \in { AtBucketEnds(s, order) } : SA' = Emptied(SA, f)
         /\ mem' = [ mem EXCEPT !.levels[Len(mem.levels)].lms = Len(order) ]
  /\ Goto("L1")
  /\ UNCHANGED text

\* One pass over the cells i, i + 1, ... of a sequential inducing.
RECURSIVE induce_L_Types(_, _, _, _)
induce_L_Types(s, IsL, b, r) ==
  IF r.i = Len(s) THEN r.sa
  ELSE LET p == r.sa[r.i]
           c == At(s, p - 1)
       IN  IF p \notin { None, 0 } /\ (p - 1) \in IsL
             THEN induce_L_Types(s, IsL, [ b EXCEPT ![c] = @ + 1 ],
                                 [ i |-> r.i + 1, sa |-> [ r.sa EXCEPT ![b[c]] = p - 1 ] ])
             ELSE induce_L_Types(s, IsL, b, [ r EXCEPT !.i = @ + 1 ])

RECURSIVE induce_S_Types(_, _, _, _)
induce_S_Types(s, IsS, b, r) ==
  IF r.i < 0 THEN r.sa
  ELSE LET p == r.sa[r.i]
           c == At(s, p - 1)
       IN  IF p \notin { None, 0 } /\ (p - 1) \in IsS
             THEN induce_S_Types(s, IsS, [ b EXCEPT ![c] = @ - 1 ],
                                 [ i |-> r.i - 1, sa |-> [ r.sa EXCEPT ![b[c] - 1] = p - 1 ] ])
             ELSE induce_S_Types(s, IsS, b, [ r EXCEPT !.i = @ - 1 ])

\* The outermost level of SAIS_WPI induces in parallel, by the actions below.
InParallel == mem.version = "SAIS_WPI" /\ Len(mem.levels) = 1

\* SACA-K looks at the two characters only: in this pass they decide, as the
\* S-types among the cells are LMS.
InduceL ==
  /\ pc \in { "L1", "L2" }
  /\ ~InParallel
  /\ \E s \in { T } : \E t \in { LTypes(s) } :
     \E ltypes \in { IF mem.version = "SACA-K"
                       THEN { i \in 0 .. Len(s) - 2 : At(s, i) >= At(s, i + 1) }
                       ELSE { i \in DOMAIN t : t[i] } } :
       SA' = induce_L_Types(s, ltypes, generate_buckets(s, FALSE), [ i |-> 0, sa |-> SA ])
  /\ Goto(IF pc = "L1" THEN "S1" ELSE "S2")
  /\ UNCHANGED << text, mem >>

\* After the first of two inducings the LMS positions are sorted by their
\* substrings; after the second the level is sorted. SACA-K stops after the
\* first if it found at most two.
AfterS ==
  IF pc = "S1" /\ ~(mem.version = "SACA-K" /\ Level.lms <= 2) THEN "name" ELSE "return"

InduceS ==
  /\ pc \in { "S1", "S2" }
  /\ ~InParallel
  /\ \E s \in { T } : \E t \in { LTypes(s) } :
       SA' = induce_S_Types(s, { i \in DOMAIN t : ~t[i] }, generate_buckets(s, TRUE),
                            [ i |-> Len(s) - 1, sa |-> SA ])
  /\ Goto(AfterS)
  /\ UNCHANGED << text, mem >>

(***************************************************************************)
(* Names, the recursion and the way back.                                  *)
(***************************************************************************)

\* extract_sorted_lms and its like: the LMS positions in the order of SA.
extract_sorted_lms(t) == SelectSeq([ i \in 1 .. Size |-> SA[i - 1] ], LAMBDA p : is_LMS(t, p))

\* Equal characters and types up to the next LMS position of either.
SameSubstring(s, t, p, q) ==
  \E l \in 1 .. Len(s) - 1 - Max({ p, q }) :
    /\ is_LMS(t, p + l) \/ is_LMS(t, q + l)
    /\ \A j \in 0 .. l : At(s, p + j) = At(s, q + j) /\ t[p + j] = t[q + j]

\* A name is the number of different substrings before; equality is transitive.
Names(s, t, order) ==
  LET new == { k \in 2 .. Len(order) : ~SameSubstring(s, t, order[k - 1], order[k]) }
  IN  [ k \in 1 .. Len(order) |-> Cardinality({ j \in new : j <= k }) ]

\* The names in the order of the text in the last cells; the cells between
\* are emptied by SACA-K only, the others leave the names they copied.
Renamed(order, names) ==
  LET n1 == Len(order)
      half == [ i \in { n1 + order[k] \div 2 : k \in 1 .. n1 } |->
                  names[CHOOSE k \in 1 .. n1 : n1 + order[k] \div 2 = i] ]
      inText == Ascending(DOMAIN half)
  IN  [ i \in 0 .. Size - 1 |->
          IF i < n1 THEN order[i + 1]
          ELSE IF i >= Size - n1 THEN half[inText[i - (Size - n1) + 1]]
          ELSE IF mem.version # "SACA-K" /\ i \in DOMAIN half THEN half[i] ELSE None ]

\* Names of their own need no recursion: a name is a rank.
RenameLms ==
  /\ pc = "name"
  /\ \E s \in { T } : \E t \in { LTypes(s) } : \E order \in { extract_sorted_lms(t) } :
     \E names \in { Names(s, t, order) } : \E f \in { Renamed(order, names) } :
       LET n1 == Len(order)
           distinct == names[n1] + 1
       IN  IF distinct < n1
             THEN /\ SA' = Emptied(SA, f)
                  /\ mem' = [ mem EXCEPT !.levels =
                       Append(@, [ base |-> Size - n1, n |-> n1, k |-> distinct, lms |-> 0 ]) ]
                  /\ Goto("insert")
             ELSE /\ SA' = [ i \in DOMAIN SA |->
                       IF i < n1 THEN CHOOSE k \in 0 .. n1 - 1 : f[Size - n1 + k] = i
                       ELSE Emptied(SA, f)[i] ]
                  /\ Goto("back")
                  /\ UNCHANGED mem
  /\ UNCHANGED text

\* A level returns; SACA-K clears the cells of its text.
Return ==
  /\ pc = "return"
  /\ IF Len(mem.levels) = 1
       THEN Goto("done") /\ UNCHANGED << SA, mem >>
       ELSE /\ SA' = [ i \in DOMAIN SA |->
                IF mem.version = "SACA-K" /\ i - Level.base \in 0 .. Size - 1 THEN None ELSE SA[i] ]
            /\ mem' = [ mem EXCEPT !.levels = SubSeq(@, 1, Len(@) - 1) ]
            /\ Goto("back")
  /\ UNCHANGED text

\* overwrite_lms_after_recursion, and the LMS positions, sorted now, to the
\* ends of their buckets.
Back ==
  /\ pc = "back"
  /\ \E s \in { T } : \E t \in { LTypes(s) } : \E lms \in { Ascending(LmsPositions(t)) } :
     \E f \in { AtBucketEnds(s, [ k \in 1 .. Level.lms |-> lms[SA[k - 1] + 1] ]) } :
       SA' = Emptied(SA, f)
  /\ Goto("L2")
  /\ UNCHANGED << text, mem >>

(***************************************************************************)
(* util/induce_parallel.hpp: a pass goes bucket by bucket; a long bucket   *)
(* is cut into blocks that induce into the other buckets concurrently.     *)
(***************************************************************************)

\* generate_buckets_parallel: the starts of the buckets, by counting and a
\* prefix sum; the cells of bucket c.
generate_buckets_parallel == generate_buckets(T, FALSE)
BucketCells(c) == generate_buckets(T, FALSE)[c] .. generate_buckets(T, TRUE)[c] - 1

Holds(sa, i) == sa[i] \notin { None, 0 }
PreChar(sa, i) == At(T, sa[i] - 1)

is_l_type(sa, b, i) ==
  \/ PreChar(sa, i) > At(T, sa[i])
  \/ PreChar(sa, i) = At(T, sa[i]) /\ i < b[At(T, sa[i])]

is_s_type(sa, b, i) ==
  \/ PreChar(sa, i) < At(T, sa[i])
  \/ PreChar(sa, i) = At(T, sa[i]) /\ i > b[At(T, sa[i])]

\* A short bucket, cell by cell; r: the next cell, SA and the bucket pointers.
RECURSIVE induce_type_l_interval_seq(_, _)
induce_type_l_interval_seq(r, end) ==
  IF r.i >= end THEN r
  ELSE induce_type_l_interval_seq(
         IF Holds(r.sa, r.i) /\ is_l_type(r.sa, r.b, r.i)
           THEN LET c == PreChar(r.sa, r.i) IN
                [ i |-> r.i + 1, sa |-> [ r.sa EXCEPT ![r.b[c]] = r.sa[r.i] - 1 ],
                  b |-> [ r.b EXCEPT ![c] = @ + 1 ] ]
           ELSE [ r EXCEPT !.i = @ + 1 ], end)

RECURSIVE induce_type_s_interval_seq(_, _)
induce_type_s_interval_seq(r, start) ==
  IF r.i < start THEN r
  ELSE induce_type_s_interval_seq(
         IF Holds(r.sa, r.i) /\ is_s_type(r.sa, r.b, r.i)
           THEN LET c == PreChar(r.sa, r.i) IN
                [ i |-> r.i - 1, sa |-> [ r.sa EXCEPT ![r.b[c]] = r.sa[r.i] - 1 ],
                  b |-> [ r.b EXCEPT ![c] = @ - 1 ] ]
           ELSE [ r EXCEPT !.i = @ - 1 ], start)

\* filter: every block of the cells writes the elements it keeps behind those
\* of the blocks before, so the order of the cells remains.
filter(sa, from, to, c) ==
  SelectSeq([ k \in 1 .. to - from |-> sa[from + k - 1] ],
            LAMBDA p : p > 0 /\ At(T, p - 1) = c)

\* Rounds over a long bucket: the suffixes whose previous character is the
\* bucket's own, behind (before) the cells [from, to) they were found in.
RECURSIVE induce_type_l_repititions_parallel(_, _, _, _)
induce_type_l_repititions_parallel(sa, c, from, to) ==
  IF from = to THEN [ sa |-> sa, pointer |-> to ]
  ELSE LET found == filter(sa, from, to, c)
       IN  induce_type_l_repititions_parallel(
             [ i \in DOMAIN sa |->
                 IF i \in to .. to + Len(found) - 1 THEN found[i - to + 1] - 1 ELSE sa[i] ],
             c, to, to + Len(found))

RECURSIVE induce_type_s_repititions_parallel(_, _, _, _)
induce_type_s_repititions_parallel(sa, c, from, to) ==
  IF from = to THEN [ sa |-> sa, pointer |-> from - 1 ]
  ELSE LET found == filter(sa, from, to, c)
           start == from - Len(found)
       IN  induce_type_s_repititions_parallel(
             [ i \in DOMAIN sa |->
                 IF i \in start .. from - 1 THEN found[i - start + 1] - 1 ELSE sa[i] ],
             c, start, from)

\* The cells of block i in the order of the scan.
LBlock(cells, i) ==
  Ascending(cells \cap (Min(cells) + i * BLOCK_SIZE .. Min(cells) + (i + 1) * BLOCK_SIZE - 1))
SBlock(cells, i) ==
  Reverse(Ascending(cells \cap (Max(cells) + 1 - (i + 1) * BLOCK_SIZE .. Max(cells) - i * BLOCK_SIZE)))

BlockCount(cells) == (Cardinality(cells) + BLOCK_SIZE - 1) \div BLOCK_SIZE
InLPass == pc \in { "L1", "L2" }
Block(i) == IF InLPass THEN LBlock(BucketCells(mem.c), i) ELSE SBlock(BucketCells(mem.c), i)

\* What a block induces into the bucket of character d, in the scan's order
\* (the repetitions of the bucket's own character are already there).
Induced(i, d) ==
  SelectSeq(Block(i), LAMBDA cell : /\ Holds(SA, cell)
                                    /\ PreChar(SA, cell) = d
                                    /\ IF InLPass THEN d > mem.c ELSE d < mem.c)

\* Faulty variant: the counts of the block before, without the prefix sums.
bucket_sums_NoPrefix(i, d) == IF i = 0 THEN 0 ELSE Len(Induced(i - 1, d))

\* bucket_sums after the exclusive prefix sums.
bucket_sums(i, d) == MapThenSumSet(LAMBDA j : Len(Induced(j, d)), 0 .. i - 1)

\* The cells block i writes, with what it writes there.
WrittenBy(i) ==
  UNION { LET from == Induced(i, d)
              offset(k) == bucket_sums(i, d) + k - 1
          IN  { << IF InLPass THEN mem.pointers[d] + offset(k) ELSE mem.pointers[d] - offset(k),
                   SA[from[k]] - 1 >> : k \in 1 .. Len(from) } : d \in 0 .. K - 1 }

CellsOf(written) == { w[1] : w \in written }

NextBucket == IF InLPass THEN mem.c + 1 ELSE mem.c - 1

\* A pass starts: S-type pointers are at the last cells of the buckets.
StartPass ==
  /\ InParallel
  /\ pc \in { "L1", "L2", "S1", "S2" }
  /\ mem.pointers = << >>
  /\ mem' = [ mem EXCEPT
       !.c = IF InLPass THEN 0 ELSE K - 1,
       !.pointers = IF InLPass THEN generate_buckets_parallel
                    ELSE [ c \in 0 .. K - 1 |-> generate_buckets(T, TRUE)[c] - 1 ] ]
  /\ UNCHANGED << text, SA, pc >>

\* The bucket's turn. A bucket shorter than four blocks is done at once; a long
\* one first induces its repetitions, and the pass ends with the last bucket.
induce_type_l_parallel ==
  /\ InParallel
  /\ InLPass
  /\ mem.pointers # << >> /\ mem.blocks = {} /\ mem.c < K
  /\ LET cells == BucketCells(mem.c)
         start == generate_buckets_parallel[mem.c]
     IN  IF Cardinality(cells) < 4 * BLOCK_SIZE
           THEN \E r \in { induce_type_l_interval_seq(
                             [ i |-> start, sa |-> SA, b |-> mem.pointers ],
                             start + Cardinality(cells)) } :
                  /\ SA' = r.sa
                  /\ mem' = [ mem EXCEPT !.pointers = r.b, !.c = NextBucket ]
           ELSE \E r \in { induce_type_l_repititions_parallel(
                             SA, mem.c, start, mem.pointers[mem.c]) } :
                  /\ SA' = r.sa
                  /\ mem' = [ mem EXCEPT
                       !.pointers[mem.c] = r.pointer,
                       !.blocks = IF mem.c = K - 1 THEN {} ELSE 0 .. BlockCount(cells) - 1,
                       !.c = IF mem.c = K - 1 THEN NextBucket ELSE @ ]
  /\ UNCHANGED << text, pc >>

induce_type_s_parallel ==
  /\ InParallel
  /\ pc \in { "S1", "S2" }
  /\ mem.pointers # << >> /\ mem.blocks = {} /\ mem.c >= 0
  /\ LET cells == BucketCells(mem.c)
         end == generate_buckets(T, TRUE)[mem.c]
     IN  IF Cardinality(cells) < 4 * BLOCK_SIZE
           THEN \E r \in { induce_type_s_interval_seq(
                             [ i |-> end - 1, sa |-> SA, b |-> mem.pointers ],
                             end - Cardinality(cells)) } :
                  /\ SA' = r.sa
                  /\ mem' = [ mem EXCEPT !.pointers = r.b, !.c = NextBucket ]
           ELSE \E r \in { induce_type_s_repititions_parallel(
                             SA, mem.c, mem.pointers[mem.c] + 1, end) } :
                  /\ SA' = r.sa
                  /\ mem' = [ mem EXCEPT
                       !.pointers[mem.c] = r.pointer,
                       !.blocks = IF mem.c = 0 THEN {} ELSE 0 .. BlockCount(cells) - 1,
                       !.c = IF mem.c = 0 THEN NextBucket ELSE @ ]
  /\ UNCHANGED << text, pc >>

\* One of the blocks that are left writes; with the last one the pointers pass
\* what all of them wrote.
WriteBlock ==
  /\ mem.blocks # {}
  /\ \E i \in mem.blocks : \E written \in { WrittenBy(i) } :
       /\ SA' = [ p \in DOMAIN SA |->
                    IF p \in CellsOf(written) THEN (CHOOSE w \in written : w[1] = p)[2] ELSE SA[p] ]
       /\ mem' = IF mem.blocks = { i }
            THEN LET sum(d) == bucket_sums(BlockCount(BucketCells(mem.c)), d)
                 IN  [ mem EXCEPT !.blocks = {}, !.c = NextBucket,
                         !.pointers = [ d \in DOMAIN @ |->
                            IF InLPass THEN @[d] + sum(d) ELSE @[d] - sum(d) ] ]
            ELSE [ mem EXCEPT !.blocks = @ \ { i } ]
  /\ UNCHANGED << text, pc >>

EndPass ==
  /\ InParallel
  /\ pc \in { "L1", "L2", "S1", "S2" }
  /\ mem.pointers # << >> /\ mem.blocks = {} /\ mem.c \notin 0 .. K - 1
  /\ mem' = [ mem EXCEPT !.pointers = << >> ]
  /\ Goto(CASE pc = "L1" -> "S1" [] pc = "L2" -> "S2" [] OTHER -> AfterS)
  /\ UNCHANGED << text, SA >>

Next ==
  \/ construct_sa \/ InsertLms \/ InduceL \/ InduceS \/ RenameLms \/ Return \/ Back
  \/ StartPass \/ induce_type_l_parallel \/ induce_type_s_parallel \/ WriteBlock \/ EndPass

Spec == Init /\ [][Next]_vars

(***************************************************************************)
(* Properties.                                                             *)
(***************************************************************************)

\* What the constructor leaves is the text's suffix array.
ResultIsSuffixArray == pc = "done" => IsResult(SA, EXTRA_SENTINELS)

\* The recursion sorts inside the array that also holds its text: no step of a
\* level changes the texts of the levels above it, until they are read.
TextsKept ==
  \A l \in 2 .. Len(mem.levels) :
    (pc # "return" \/ l < Len(mem.levels)) =>
      \A i \in mem.levels[l].base .. mem.levels[l].base + mem.levels[l].n - 1 : SA'[i] = SA[i]

RecursionKeepsTexts == [][TextsKept]_vars

\* The blocks that still write, write into different cells of the buckets of
\* other characters, so their order and their interleaving do not matter.
BlocksWriteApart ==
  mem.version = "SAIS_WPI" /\ pc \in { "L1", "L2", "S1", "S2" } =>
    \A i \in mem.blocks :
      /\ CellsOf(WrittenBy(i)) \cap BucketCells(mem.c) = {}
      /\ Cardinality(CellsOf(WrittenBy(i))) = Cardinality(WrittenBy(i))
      /\ \A j \in mem.blocks \ { i } : CellsOf(WrittenBy(i)) \cap CellsOf(WrittenBy(j)) = {}

\* The order of the names is the order of the suffixes of the LMS positions
\* that differ: what the recursion sorts is equivalent to the level above it.
RecursionKeepsOrder ==
  pc = "insert" /\ Len(mem.levels) = 2 =>
    LET x == WithSentinels(text, EXTRA_SENTINELS)
        t == compute_types(x, Len(x) - 2, Array(Len(x), FALSE))
        lms == Ascending(LmsPositions(t))
    IN  \A i, j \in 1 .. Len(lms) :
          LexLess(Suffix(T, i - 1), Suffix(T, j - 1)) <=> SuffixBefore(x, lms[i], lms[j])

=============================================================================
