---------------------------- MODULE ParallelMerge ----------------------------
(***************************************************************************)
(* util/merge_sa_dc.hpp: the parallel merges of two sorted arrays: the one *)
(* of CLRS (merge_parallel), Kruskal's second theorem                      *)
(* (merge_sa_dc_parallel_kruskal_2) and the one with optimal work          *)
(* (merge_parallel_opt) that the parallel difference covers call.          *)
(*                                                                         *)
(* An entry is its rank in the merged array, so comp is < and the arrays   *)
(* are any division of 0 .. length - 1; a cell of an output holds the      *)
(* array and the index of the entry written to it.  tasks are the pieces   *)
(* of the work that threads may still take, in any order and at the same   *)
(* time: a piece merges span [xl, xr) of one array and [yl, yr) of the     *)
(* other into the cells from out on.                                       *)
(*                                                                         *)
(* Where a stretch of Kruskal's first array has no counterpart, every      *)
(* thread of the team copies it, when it comes to it: a piece for each.    *)
(*                                                                         *)
(* merge_parallel_opt runs three nested merges of Kruskal's, each a job    *)
(* with pieces of its own, before the job "merge" that it schedules.       *)
(***************************************************************************)
EXTENDS Integers, Sequences, FiniteSets, FiniteSetsExt

CONSTANTS
  MaxLength,      \* bound of both arrays' lengths together
  Threads,        \* the possible sizes of a team
  SEARCH_LIMIT    \* spans below it are searched sequentially (10000 in the code)

ASSUME ParallelMergeAssumption ==
  /\ MaxLength \in Nat
  /\ Threads \subseteq Nat \ {0}
  /\ SEARCH_LIMIT \in Nat \ {0}

VARIABLES
  method,   \* "clrs", "kruskal" or "opt"
  team,     \* number of threads
  input,    \* the two arrays, << a_1, a_2 >>
  job,      \* the merge in progress
  output,   \* the cells of every job's output
  pos,      \* << pos_1, pos_2 >>: the places of the other array's marks
  tasks     \* pieces of the job not yet done

mergeVars == << method, team, input, job, output, pos, tasks >>

None == << 0, 0 >>
At(s, i) == s[i + 1]
length == Len(input[1]) + Len(input[2])
Ascending(S) == [ k \in 1 .. Cardinality(S) |-> CHOOSE x \in S : Cardinality({ y \in S : y < x }) = k - 1 ]

\* The states of a loop that makes n steps from start.
Iterates(step, start, n) ==
  LET at[k \in 0 .. n] == IF k = 0 THEN start ELSE step[at[k - 1]]
  IN  at

-----------------------------------------------------------------------------
\* less of the searches: key belongs before entry i; for swapped arrays comp
\* is asked the other way round.
KeyFirst(array, i, key, swapped) ==
  IF swapped THEN ~ (At(array, i) < key) ELSE key < At(array, i)

\* A step of a search that has come down to s = << left, right >>.
Halve(array, key, swapped, s) ==
  LET middle == (s[1] + s[2]) \div 2
  IN  IF s[1] + 1 >= s[2] THEN s
      ELSE IF KeyFirst(array, middle, key, swapped) THEN << s[1], middle >>
      ELSE << middle, s[2] >>

binarysearch(array, left, right, key, swapped) ==
  LET step == [ s \in Nat \X Nat |-> Halve(array, key, swapped, s) ]
      last == Iterates(step, << left, right >>, right - left)[right - left]
  IN  IF last[1] < last[2] /\ ~ KeyFirst(array, last[1], key, swapped)
        THEN last[1] + 1 ELSE last[1]

\* Kruskal's search, whose callers ask for one thread: it compares the entry
\* in the middle until the span is short.
binarysearch_parallel(array, left, right, key) ==
  LET step == [ s \in Nat \X Nat |->
                  IF s[2] - s[1] < SEARCH_LIMIT THEN s ELSE Halve(array, key, FALSE, s) ]
      last == Iterates(step, << left, right >>, right - left)[right - left]
  IN  binarysearch(array, last[1], last[2], key, FALSE)

-----------------------------------------------------------------------------
Piece(kind, xl, xr, yl, yr, out) ==
  [ kind |-> kind, xl |-> xl, xr |-> xr, yl |-> yl, yr |-> yr, out |-> out,
    swapped |-> FALSE, threads |-> 1, processor |-> 0 ]
Size(t) == (t.xr - t.xl) + (t.yr - t.yl)

\* The merge of two arrays of m and n entries.
Whole(kind, m, n) == Piece(kind, 0, m, 0, n, 0)

\* The cells a piece, with everything it is divided into, may write.
Cells(t) ==
  CASE t.kind = "from_left"  -> t.out .. t.out + (t.xr - t.xl) - 1
    [] t.kind = "from_right" -> t.out + (t.xr - t.xl) .. t.out + Size(t) - 1
    [] OTHER                 -> t.out .. t.out + Size(t) - 1

\* A span written to the cells from out on; array 1 or 2.
Copy(array, left, right, out) ==
  { << out + i - left, array, i >> : i \in left .. right - 1 }

\* merge_from_left with s = << i, j >> next: does i's entry come first?
TakesFirst(x, y, t, s) ==
  s[1] < t.xr /\ (s[2] = t.yr \/ At(x, s[1]) < At(y, s[2]))

merge_from_left(x, y, t, steps) ==
  LET step == [ s \in Nat \X Nat |->
                  IF TakesFirst(x, y, t, s) THEN << s[1] + 1, s[2] >> ELSE << s[1], s[2] + 1 >> ]
      at == Iterates(step, << t.xl, t.yl >>, steps)
  IN  { IF TakesFirst(x, y, t, at[k]) THEN << t.out + k, 1, at[k][1] >>
                                      ELSE << t.out + k, 2, at[k][2] >> : k \in 0 .. steps - 1 }

\* Faulty variant: takes the smaller one of the two last entries.
TakesLast_Less(x, y, t, s) ==
  s[1] > t.xl /\ (s[2] = t.yl \/ At(x, s[1] - 1) < At(y, s[2] - 1))

\* merge_from_right with s = << i, j >> behind the next entries: does the
\* first array's come last?
TakesLast(x, y, t, s) ==
  s[1] > t.xl /\ (s[2] = t.yl \/ ~ (At(x, s[1] - 1) < At(y, s[2] - 1)))

merge_from_right(x, y, t, steps) ==
  LET step == [ s \in Nat \X Nat |->
                  IF TakesLast(x, y, t, s) THEN << s[1] - 1, s[2] >> ELSE << s[1], s[2] - 1 >> ]
      at == Iterates(step, << t.xr, t.yr >>, steps)
      cell(k) == t.out + Size(t) - 1 - k
  IN  { IF TakesLast(x, y, t, at[k]) THEN << cell(k), 1, at[k][1] - 1 >>
                                     ELSE << cell(k), 2, at[k][2] - 1 >> : k \in 0 .. steps - 1 }

-----------------------------------------------------------------------------
\* ceil(pow(M, 1/3))
CubeRoot(M) == CHOOSE f \in 1 .. M : f * f * f >= M /\ (f - 1) * (f - 1) * (f - 1) < M

\* One call of merge_sa_dc_parallel_kruskal_2.  Every kruskal_factor-th entry
\* of x is placed by a search; the spans between two of them are independent
\* of each other.
kruskal_factor(t) == CubeRoot(t.xr - t.xl)
kruskal_count(t) == (t.xr - t.xl) \div kruskal_factor(t)
kruskal_mark(t, k) == t.xl + (k + 1) * kruskal_factor(t) - 1
kruskal_place(x, y, t, i) == binarysearch_parallel(y, t.yl, t.yr, At(x, i))
kruskal_segment(x, y, t, k) == kruskal_place(x, y, t, kruskal_mark(t, k))

kruskal_part(x, y, t, k) ==
  LET count == kruskal_count(t)
      yl == IF k = 0 THEN t.yl ELSE kruskal_segment(x, y, t, k - 1)
  IN  Piece("kruskal",
            t.xl + k * kruskal_factor(t), IF k = count THEN t.xr ELSE kruskal_mark(t, k),
            yl, IF k = count THEN t.yr ELSE kruskal_segment(x, y, t, k),
            t.out + k * kruskal_factor(t) + (yl - t.yl))

\* Parts of the first array alone: they lie at one place of the second one.
kruskal_inner(x, y, t) ==
  { k \in 1 .. kruskal_count(t) - 1 : kruskal_segment(x, y, t, k) = kruskal_segment(x, y, t, k - 1) }

CopyBy(part, thread) == [ part EXCEPT !.kind = "copy", !.processor = thread ]

\* Faulty variant: no single in the other branch, either.
kruskal_pieces_NoSingle(x, y, t) ==
  { [ kruskal_part(x, y, t, k) EXCEPT !.processor = thread ] :
      k \in 0 .. kruskal_count(t), thread \in 1 .. team }

\* The parts are left to the team: a call in a single construct to the thread
\* that comes first, but the copies are outside of one and each thread of the
\* parallel region makes them all.  (A nested region may have fewer threads;
\* here it has as many as the first one.)
kruskal_pieces(x, y, t) ==
  LET part(k) == kruskal_part(x, y, t, k)
      inner == kruskal_inner(x, y, t)
  IN  { part(k) : k \in (0 .. kruskal_count(t)) \ inner }
      \cup { CopyBy(part(k), thread) : k \in inner, thread \in 1 .. team }

\* What the call writes itself and the pieces it leaves to the team.
kruskal_2(x, y, t) ==
  LET M == t.xr - t.xl
      N == t.yr - t.yl
      segment(k) == kruskal_segment(x, y, t, k)
      mark(k) == kruskal_mark(t, k)
      first == kruskal_place(x, y, t, t.xl)
      leaf(writes) == [ writes |-> writes, pieces |-> {} ]
  IN  CASE N = 0 -> leaf(Copy(1, t.xl, t.xr, t.out))
        [] N > 0 /\ M = 0 -> leaf(Copy(2, t.yl, t.yr, t.out))
        [] N > 0 /\ M = 1 ->
             leaf({ << t.out + (first - t.yl), 1, t.xl >> }
                  \cup Copy(2, t.yl, first, t.out)
                  \cup Copy(2, first, t.yr, t.out + (first - t.yl) + 1))
        [] N > 0 /\ M > 1 ->
             [ writes |->
                 { << t.out + (segment(k) - t.yl) + (mark(k) - t.xl), 1, mark(k) >> :
                     k \in 0 .. kruskal_count(t) - 1 },
               pieces |-> kruskal_pieces(x, y, t) ]

\* One call of merge_parallel on piece t: the longer span's middle entry is
\* placed by a search and divides both spans.  While fewer than the team's
\* threads are busy the two halves are tasks, otherwise they are merged here.
merge_parallel(x, y, t) ==
  LET xs == t.xr - t.xl
      ys == t.yr - t.yl
      swapped == IF t.swapped THEN ~ (ys < xs) ELSE xs < ys
      i == IF swapped THEN binarysearch(x, t.xl, t.xr, At(y, t.yl + ys \div 2), TRUE)
                      ELSE t.xl + xs \div 2
      j == IF swapped THEN t.yl + ys \div 2
                      ELSE binarysearch(y, t.yl, t.yr, At(x, t.xl + xs \div 2), FALSE)
      q_out == (i - t.xl) + (j - t.yl)
      half(xl, xr, yl, yr, out) ==
        [ Piece("clrs", xl, xr, yl, yr, out) EXCEPT !.swapped = swapped, !.threads = 2 * t.threads ]
      left == half(t.xl, i, t.yl, j, t.out)
      right == half(IF swapped THEN i ELSE i + 1, t.xr, IF swapped THEN j + 1 ELSE j, t.yr,
                    t.out + q_out + 1)
      middle == { IF swapped THEN << t.out + q_out, 2, j >> ELSE << t.out + q_out, 1, i >> }
  IN  IF Size(t) = 0 THEN [ writes |-> {}, pieces |-> {} ]
      ELSE IF t.threads < team THEN [ writes |-> middle, pieces |-> { left, right } ]
      ELSE [ writes |-> middle \cup merge_from_left(x, y, left, Size(left))
                               \cup merge_from_left(x, y, right, Size(right)),
             pieces |-> {} ]

-----------------------------------------------------------------------------
\* merge_parallel_opt.  Every stepsize-th entry of both arrays is marked.
stepsize == (length \div team) + IF length % team > 0 THEN 1 ELSE 0
marks(i) == Len(input[i]) \div stepsize
MarkPosition(k) == (k + 1) * stepsize - 1
MarkPositions(i) == [ k \in 1 .. marks(i) |-> MarkPosition(k - 1) ]
MarkedEntries(i) == [ k \in 1 .. marks(i) |-> At(input[i], MarkPosition(k - 1)) ]

\* The nested merges: "mark" of the marked entries, whose output is
\* marked_elements_out, "borders_1" and "borders_2" of the places within an
\* array, its own marks and the places of the other array's.
Jobs == IF method = "opt" THEN { "mark", "borders_1", "borders_2", "merge" } ELSE { "merge" }

Arrays(j) ==
  CASE j = "mark"      -> << MarkedEntries(1), MarkedEntries(2) >>
    [] j = "borders_1" -> << MarkPositions(1), pos[1] >>
    [] j = "borders_2" -> << MarkPositions(2), pos[2] >>
    [] OTHER           -> input

OutputSize(j) == IF j = "merge" THEN length ELSE marks(1) + marks(2)

\* The segment of the other array that marked_elements_out[c] belongs to:
\* between the neighbouring marks of that array.
determine_segments(c) ==
  LET marked == output["mark"]
      others == { d \in DOMAIN marked : marked[d][1] # marked[c][1] }
      before == { d \in others : d < c }
      after == { d \in others : d > c }
  IN  << IF before = {} THEN 0 ELSE MarkPosition(marked[Max(before)][2]) + 1,
         IF after = {} THEN Len(input[3 - marked[c][1]]) ELSE MarkPosition(marked[Min(after)][2]) >>

pos_in_other(c) ==
  LET array == output["mark"][c][1]
      elem == At(input[array], MarkPosition(output["mark"][c][2]))
      segment == determine_segments(c)
  IN  binarysearch(input[3 - array], segment[1], segment[2], elem, array = 2)

\* The places of the marks of array i in the other array.
PlacesOfMarks(i) ==
  [ k \in 1 .. marks(i) |->
      pos_in_other(CHOOSE c \in DOMAIN output["mark"] : output["mark"][c] = << i, k - 1 >>) ]

\* Border c within array i: one of its own marks, which belongs to no
\* subsegment, or the place of a mark of the other array.
Border(i, c) ==
  LET e == output[IF i = 1 THEN "borders_1" ELSE "borders_2"][c]
  IN  IF e[1] = 1 THEN << MarkPosition(e[2]), 1 >> ELSE << At(pos[i], e[2]), 0 >>

\* Subsegment k of array i lies between two borders.
determine_subsegments(i, k) ==
  << IF k = 0 THEN 0 ELSE Border(i, k - 1)[1] + Border(i, k - 1)[2],
     IF k = marks(1) + marks(2) THEN Len(input[i]) ELSE Border(i, k)[1] >>

\* Faulty variant: the second array's processors are counted from 0, too.
Processor_Same(i, right) ==
  IF right \div stepsize < marks(i) THEN right \div stepsize ELSE team - 1

\* The processors that merge a pair of subsegments, one from each end.
Processor(i, right) ==
  LET mapped == right \div stepsize
  IN  IF mapped < marks(i) THEN mapped + (IF i = 2 THEN marks(1) ELSE 0) ELSE team - 1

\* The two halves of pair k of subsegments.
ScheduledPair(i, k) ==
  LET first == determine_subsegments(1, k)
      second == determine_subsegments(2, k)
  IN  [ Piece(IF i = 1 THEN "from_left" ELSE "from_right",
              first[1], first[2], second[1], second[2], first[1] + second[1])
          EXCEPT !.processor = Processor(i, IF i = 1 THEN first[2] ELSE second[2]) ]

Schedule == { ScheduledPair(i, k) : i \in {1, 2}, k \in 0 .. marks(1) + marks(2) }

-----------------------------------------------------------------------------
MergeInit ==
  /\ method \in { "clrs", "kruskal", "opt" }
  /\ team \in Threads
  /\ \E n \in 1 .. MaxLength : \E S \in SUBSET (0 .. n - 1) :
       input = << Ascending(S), Ascending((0 .. n - 1) \ S) >>
  /\ job = IF method = "opt" THEN "mark" ELSE "merge"
  /\ output = [ j \in Jobs |-> [ c \in 0 .. OutputSize(j) - 1 |-> None ] ]
  /\ pos = << << >>, << >> >>
  /\ tasks = { IF method = "opt" THEN Whole("kruskal", marks(1), marks(2))
               ELSE Whole(method, Len(input[1]), Len(input[2])) }

\* The cells of an output after some writes.
Written(cells, writes) ==
  [ c \in DOMAIN cells |->
      IF \E w \in writes : w[1] = c
        THEN LET w == CHOOSE w \in writes : w[1] = c IN << w[2], w[3] >>
        ELSE cells[c] ]

Write(writes) == output' = [ output EXCEPT ![job] = Written(@, writes) ]

\* A thread takes a piece: a call of one of the recursive merges ...
Divide(t) ==
  LET call == IF t.kind = "clrs" THEN merge_parallel(Arrays(job)[1], Arrays(job)[2], t)
                                 ELSE kruskal_2(Arrays(job)[1], Arrays(job)[2], t)
  IN  /\ t.kind \in { "clrs", "kruskal" }
      /\ Write(call.writes)
      /\ tasks' = (tasks \ {t}) \cup call.pieces
      /\ UNCHANGED << method, team, input, job, pos >>

\* ... or its own copy of a stretch ...
CopyStretch(t) ==
  /\ t.kind = "copy"
  /\ Write(Copy(1, t.xl, t.xr, t.out))
  /\ tasks' = tasks \ {t}
  /\ UNCHANGED << method, team, input, job, pos >>

\* ... or half of a pair of subsegments of the schedule.
MergePair(t) ==
  /\ t.kind \in { "from_left", "from_right" }
  /\ Write(IF t.kind = "from_left" THEN merge_from_left(input[1], input[2], t, t.xr - t.xl)
                                   ELSE merge_from_right(input[1], input[2], t, t.yr - t.yl))
  /\ tasks' = tasks \ {t}
  /\ UNCHANGED << method, team, input, job, pos >>

\* The marked entries are in order: each is placed by a search in its segment
\* and written, and the borders within the first array are merged next.
SearchMarked ==
  /\ job = "mark"
  /\ tasks = {}
  /\ pos' = << PlacesOfMarks(2), PlacesOfMarks(1) >>
  /\ LET position(c) == MarkPosition(output["mark"][c][2])
         writes == { << position(c) + pos_in_other(c), output["mark"][c][1], position(c) >> :
                       c \in DOMAIN output["mark"] }
     IN  output' = [ output EXCEPT !["merge"] = Written(@, writes) ]
  /\ job' = "borders_1"
  /\ tasks' = { Whole("kruskal", marks(1), marks(2)) }
  /\ UNCHANGED << method, team, input >>

MergeSecondBorders ==
  /\ job = "borders_1"
  /\ tasks = {}
  /\ job' = "borders_2"
  /\ tasks' = { Whole("kruskal", marks(2), marks(1)) }
  /\ UNCHANGED << method, team, input, output, pos >>

ScheduleSubsegments ==
  /\ job = "borders_2"
  /\ tasks = {}
  /\ job' = "merge"
  /\ tasks' = Schedule
  /\ UNCHANGED << method, team, input, output, pos >>

MergeNext ==
  \/ \E t \in tasks : Divide(t) \/ CopyStretch(t) \/ MergePair(t)
  \/ SearchMarked
  \/ MergeSecondBorders
  \/ ScheduleSubsegments

MergeSpec == MergeInit /\ [][MergeNext]_mergeVars

-----------------------------------------------------------------------------
\* When all the work is done the cells hold the merged arrays, whichever way
\* they were merged and in whatever order the threads took the pieces.
ResultIsMerge ==
  job = "merge" /\ tasks = {} =>
    \A c \in DOMAIN output["merge"] :
      LET e == output["merge"][c] IN e # None /\ At(input[e[1]], e[2]) = c

\* What a copy stores in its cell c, and two threads' copies of one stretch.
Copied(t, c) == << 1, t.xl + (c - t.out) >>
SameCopy(t, u) ==
  t.kind = "copy" /\ u.kind = "copy" /\ t.xl = u.xl /\ t.xr = u.xr /\ t.out = u.out

\* Pieces that threads may hold at the same time write different cells, none
\* of which has been written, unless they are the copies of a stretch that
\* every thread of the team makes without synchronisation: then all that is or
\* will be stored in a cell is one and the same entry.
OnlyCopiesMeet ==
  \A t \in tasks :
    /\ Cells(t) \subseteq DOMAIN output[job]
    /\ \A c \in Cells(t) :
         output[job][c] = None \/ (t.kind = "copy" /\ output[job][c] = Copied(t, c))
    /\ \A u \in tasks \ {t} : Cells(t) \cap Cells(u) = {} \/ SameCopy(t, u)

\* No processor of the schedule merges more than a step's worth of cells, but
\* for the last one, which also has the ends of both arrays.
WorkIsShared ==
  method = "opt" /\ job = "merge" =>
    \A processor \in 0 .. team - 1 :
      Cardinality(UNION { Cells(t) : t \in { u \in tasks : u.processor = processor } })
        <= IF processor = team - 1 THEN 3 * (stepsize - 1) ELSE stepsize - 1

=============================================================================
