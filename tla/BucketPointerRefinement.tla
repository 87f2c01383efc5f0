----------------------- MODULE BucketPointerRefinement -----------------------
(***************************************************************************)
(* bucket_pointer_refinement.hpp and its parallel version: buckets of the  *)
(* suffixes with equal first characters, refined by the bucket pointers    *)
(* further right in the text, and the rest copied in two scans per         *)
(* character. bptr[s], the last cell of the bucket of suffix s, is both    *)
(* the key the buckets are sorted by and what a refinement changes.        *)
(***************************************************************************)
EXTENDS Saca, FiniteSetsExt

CONSTANTS
  BprVersions,  \* subset of {"BPR", "BPR_par"}
  BPR_DEPTH,    \* bucketsort_depth before it is cut to the text's length
  BPR_THREADS,  \* the possible values of omp_get_max_threads
  CHARACTERS    \* the number of values of util::character, 256

BprAssumption == BPR_DEPTH \in Nat /\ BPR_DEPTH >= 3 /\ BPR_THREADS \subseteq Nat \ {0}

Effective == WithSentinels(text, 1)
\* alphabet.size_with_sentinel
AlphSize(x) == 1 + Max({ x[i] : i \in 1 .. Len(x) })

\* The first depth characters from i as a number, zeros behind the text.
Code(x, i, depth) ==
  LET Char(j) == IF j < Len(x) THEN At(x, j) ELSE 0
      c[j \in 0 .. depth] == IF j = 0 THEN 0 ELSE AlphSize(x) * c[j - 1] + Char(i + j - 1)
  IN  c[depth]

\* get_lightweight_buckets: where the bucket of every code starts, and one more.
get_lightweight_buckets(x, code, depth) ==
  [ b \in 0 .. AlphSize(x) ^ depth |-> Cardinality({ i \in DOMAIN code : code[i] < b }) ]

\* bucketsort_presort_lightweight: every bucket is filled from its end.
Presorted(code, buckets) ==
  Arranged(DOMAIN code, LAMBDA i, j : code[i] < code[j] \/ (code[i] = code[j] /\ i > j))

\* bucket pointers, and the 2 * depth entries behind the text.
BucketPointers(code, buckets, depth) ==
  [ i \in 0 .. Cardinality(DOMAIN code) + 2 * depth - 1 |->
      IF i \in DOMAIN code THEN buckets[code[i] + 1] - 1 ELSE 0 ]

\* split_size: the part of size entries thread_rank works on.
split_size(size, thread_rank, threads) ==
  LET offset == (size \div threads) * thread_rank + Min({ thread_rank, size % threads })
  IN  offset .. offset + (size \div threads) - (IF thread_rank < size % threads THEN 0 ELSE 1)

\* Faulty: only the suffixes of the thread's own slice are counted.
SlicePlaces_OwnOnly(x, code, buckets, threads, t) ==
  LET Mine == split_size(Len(x), t, threads)
      Same(i) == { j \in Mine : code[j] = code[i] }
  IN  { << buckets[code[i]] + Cardinality({ j \in Same(i) : j >= i }) - 1, i >> : i \in Mine }

\* A thread's cells of a bucket end where, behind the bucket's start, the
\* suffixes of that code in its slice and in those before it fit.
SlicePlaces(x, code, buckets, threads, t) ==
  LET Mine(i) == i \in split_size(Len(x), t, threads)
      Upto(i) == { j \in DOMAIN code : code[j] = code[i] /\ \E u \in 0 .. t :
                                         j \in split_size(Len(x), u, threads) }
      Earlier(i) == { j \in DOMAIN code : code[j] = code[i] /\ Mine(j) /\ j < i }
  IN  { << buckets[code[i]] + Cardinality(Upto(i)) - 1 - Cardinality(Earlier(i)), i >>
        : i \in { j \in DOMAIN code : Mine(j) } }

\* Phase 1 of the sequential version, and what precedes the threads' of the other.
construct_sa ==
  /\ pc = "start"
  /\ \E version \in BprVersions : \E x \in { Effective } :
     \E depth \in { Min({ BPR_DEPTH, Len(x) }) } :
     \E code \in { [ i \in 0 .. Len(x) - 1 |-> Code(x, i, depth) ] } :
     \E buckets \in { get_lightweight_buckets(x, code, depth) } :
     \E threads \in { Min({ t, Len(x) \div depth }) : t \in BPR_THREADS } :
       /\ mem' = [version |-> version, x |-> x, alph |-> AlphSize(x), depth |-> depth,
                  buckets |-> buckets, bptr |-> BucketPointers(code, buckets, depth),
                  places |-> IF version = "BPR" THEN << >>
                             ELSE [ t \in 1 .. threads |->
                                      SlicePlaces(x, code, buckets, threads, t - 1) ],
                  stack |-> << >>, triple |-> << 0, 1, 0 >>]
       /\ IF version = "BPR" THEN SA' = Presorted(code, buckets) ELSE UNCHANGED SA
  /\ Goto("presort")
  /\ UNCHANGED text

\* bucketsort_presort_lightweight_parallel: a thread inserts its slice.
InsertSlice ==
  /\ pc = "presort"
  /\ \E t \in DOMAIN mem.places :
       /\ mem.places[t] # {}
       /\ SA' = [ k \in DOMAIN SA |->
                    IF \E place \in mem.places[t] : place[1] = k
                    THEN (CHOOSE place \in mem.places[t] : place[1] = k)[2] ELSE SA[k] ]
       /\ mem' = [mem EXCEPT !.places[t] = {}]
  /\ UNCHANGED << text, pc >>

Next_(c) == (c + 1) % CHARACTERS

\* The loops over c_cur, c_suc > c_cur and c_suc_suc >= c_cur.
AfterTriple(m) ==
  LET c_cur == m.triple[1]
      c_suc == m.triple[2]
  IN  IF Next_(m.triple[3]) < m.alph THEN << c_cur, c_suc, Next_(m.triple[3]) >>
      ELSE IF Next_(c_suc) < m.alph THEN << c_cur, Next_(c_suc), c_cur >>
      ELSE << Next_(c_cur), Next_(Next_(c_cur)), Next_(c_cur) >>

Level(m, l) == (m.alph ^ m.depth) \div (m.alph ^ l)

BucketsOf(m) ==
  LET begin == m.triple[1] * Level(m, 1) + m.triple[2] * Level(m, 2) + m.triple[3] * Level(m, 3)
      used == Ascending({ b \in begin .. begin + Level(m, 3) - 1 :
                            m.buckets[b + 1] > m.buckets[b] })
  IN  [ i \in DOMAIN used |-> [offset |-> m.depth, first |-> m.buckets[used[i]],
                               last |-> m.buckets[used[i] + 1] - 1] ]

StartPhase2 ==
  /\ pc = "presort" /\ \A t \in DOMAIN mem.places : mem.places[t] = {}
  /\ Goto("refine")
  /\ UNCHANGED << text, SA, mem >>

\* Where the scans of the suffixes that start with c find the first and, from
\* the right, the last free cells: of the buckets of c_pre, c and, for the second
\* level, of c_pre_pre, c_pre, c.
Undetermined(m, c) ==
  LET Start(c1, c2, c3) == m.buckets[c1 * Level(m, 1) + c2 * Level(m, 2) + c3 * Level(m, 3)]
      One == c .. m.alph - 1
      Two == (c + 1 .. m.alph - 1) \X One
  IN  [c |-> c,
       lmu |-> [ d \in One |-> Start(d, c, 0) ],
       rmu |-> [ d \in One |-> Start(d, c + 1, 0) ],
       sub_lmu |-> [ ed \in Two |-> Start(ed[1], ed[2], c) ],
       sub_rmu |-> [ ed \in Two |-> Start(ed[1], ed[2], c + 1) ],
       l |-> Start(c, 0, 0), r |-> Start(c + 1, 0, 0), second |-> FALSE] @@ m

\* The buckets of the next three characters, or phase 3.
NextTriple ==
  /\ pc = "refine" /\ mem.stack = << >>
  /\ \/ /\ mem.triple[2] < mem.alph
        /\ \E stack \in { BucketsOf(mem) } :
             mem' = [mem EXCEPT !.stack = stack, !.triple = AfterTriple(mem)]
        /\ UNCHANGED pc
     \/ /\ mem.triple[2] >= mem.alph
        /\ mem' = Undetermined(mem, 0)
        /\ Goto("copy")
  /\ UNCHANGED << text, SA >>

\* find_offset: the first depth, in steps, at which not all keys are equal.
RECURSIVE find_offset(_, _, _)
find_offset(m, bucket, offset) ==
  IF Cardinality({ m.bptr[s + offset] : s \in bucket }) > 1 THEN offset
  ELSE find_offset(m, bucket, offset + m.depth)

\* Faulty: keys that point into the bucket are compared like the others.
RECURSIVE NewPointers_NoInside(_, _, _, _, _, _)
NewPointers_NoInside(bptr, order, offset, first, left, end) ==
  LET Key(i) == bptr[order[i] + offset]
      right == IF left < end /\ Key(left) # Key(left + 1) THEN left ELSE end
  IN  IF left < 0 THEN bptr
      ELSE NewPointers_NoInside([bptr EXCEPT ![order[left]] = first + right],
                                order, offset, first, left - 1, right)

\* From the right, every suffix gets the last cell of its new bucket. Keys that
\* point into the bucket itself are changing: their suffixes stay together.
RECURSIVE NewPointers(_, _, _, _, _, _)
NewPointers(bptr, order, offset, first, left, end) ==
  LET last == first + Cardinality(DOMAIN order) - 1
      Key(i) == bptr[order[i] + offset]
      Inside(i) == Key(i) \in first .. last
      new == left < end /\ ~(Inside(left) /\ Inside(left + 1)) /\ Key(left) # Key(left + 1)
      right == IF new THEN left ELSE end
  IN  IF left < 0 THEN bptr
      ELSE NewPointers([bptr EXCEPT ![order[left]] = first + right],
                       order, offset, first, left - 1, right)

\* insertion_sort: equal keys stay in the order of their cells.
InsertionSorted(array, cells, key) ==
  LET sorted == Arranged(cells, LAMBDA i, j :
                  \/ key[array[i]] < key[array[j]]
                  \/ key[array[i]] = key[array[j]] /\ i < j)
  IN  [ k \in DOMAIN sorted |-> array[sorted[k]] ]

\* refine_single_bucket and refine_size_2_bucket, up to the recursion.
refine_single_bucket ==
  /\ pc = "refine" /\ mem.stack # << >>
  /\ \E b \in { Head(mem.stack) } : \E bucket \in { { SA[k] : k \in b.first .. b.last } } :
       \/ /\ b.first = b.last
          /\ mem' = [mem EXCEPT !.stack = Tail(@)] /\ UNCHANGED SA
       \/ /\ b.first < b.last
          /\ \E offset \in { find_offset(mem, bucket, b.offset) } :
             \E order \in { InsertionSorted(SA, b.first .. b.last,
                                            [ s \in bucket |-> mem.bptr[s + offset] ]) } :
             \E bptr \in { NewPointers(mem.bptr, order, offset, b.first, b.last - b.first,
                                       b.last - b.first) } :
             \E starts \in { Ascending({ i \in DOMAIN order :
                               i = 0 \/ bptr[order[i]] # bptr[order[i - 1]] }) } :
               /\ SA' = [ k \in DOMAIN SA |-> IF k \in b.first .. b.last THEN order[k - b.first] ELSE SA[k] ]
               /\ mem' = [mem EXCEPT !.bptr = bptr,
                    !.stack = (IF b.last = b.first + 1 THEN << >>
                               ELSE [ i \in DOMAIN starts |->
                                 [offset |-> offset + mem.depth, first |-> b.first + starts[i],
                                  last |-> bptr[order[starts[i]]]] ]) \o Tail(@)]
  /\ UNCHANGED << text, pc >>

\* What the scan copies for the suffix p: the one before it, unless its bucket is
\* sorted, and the one before that.
CopiedFor(m, p) ==
  LET pre == At(m.x, p - 1)
      pre_pre == At(m.x, p - 2)
  IN  [one |-> p > 0 /\ pre >= m.c,
       two |-> p > 1 /\ m.c < pre_pre /\ pre_pre < pre
                     /\ m.sub_lmu[<< pre_pre, pre >>] < m.sub_rmu[<< pre_pre, pre >>]]

CopyLeft ==
  \E p \in { SA[mem.l] } : \E copied \in { CopiedFor(mem, p) } :
    LET one == IF copied.one THEN { At(mem.x, p - 1) } ELSE {}
        two == IF copied.two THEN { << At(mem.x, p - 2), At(mem.x, p - 1) >> } ELSE {}
    IN  /\ SA' = [ k \in DOMAIN SA |->
                     IF \E e \in two : k = mem.sub_lmu[e] THEN p - 2
                     ELSE IF \E d \in one : k = mem.lmu[d] THEN p - 1 ELSE SA[k] ]
        /\ mem' = [mem EXCEPT !.l = @ + 1,
                     !.lmu = [ d \in DOMAIN @ |-> IF d \in one THEN @[d] + 1 ELSE @[d] ],
                     !.sub_lmu = [ e \in DOMAIN @ |-> IF e \in two THEN @[e] + 1 ELSE @[e] ]]

CopyRight ==
  \E p \in { SA[mem.r - 1] } : \E copied \in { CopiedFor(mem, p) } :
    LET one == IF copied.one THEN { At(mem.x, p - 1) } ELSE {}
        two == IF copied.two THEN { << At(mem.x, p - 2), At(mem.x, p - 1) >> } ELSE {}
    IN  /\ SA' = [ k \in DOMAIN SA |->
                     IF \E e \in two : k = mem.sub_rmu[e] - 1 THEN p - 2
                     ELSE IF \E d \in one : k = mem.rmu[d] - 1 THEN p - 1 ELSE SA[k] ]
        /\ mem' = [mem EXCEPT !.r = @ - 1,
                     !.rmu = [ d \in DOMAIN @ |-> IF d \in one THEN @[d] - 1 ELSE @[d] ],
                     !.sub_rmu = [ e \in DOMAIN @ |-> IF e \in two THEN @[e] - 1 ELSE @[e] ]]

\* The left scan ends at the cells copied so far and the right one where it
\* ended; the parallel version scans from the right first.
MoreCopied(m) == IF m.version = "BPR" THEN m.l < m.lmu[m.c] ELSE m.rmu[m.c] < m.r

FirstScan ==
  /\ pc = "copy" /\ mem.c < mem.alph /\ ~mem.second /\ MoreCopied(mem)
  /\ IF mem.version = "BPR" THEN CopyLeft ELSE CopyRight
  /\ UNCHANGED << text, pc >>

FirstScanEnds ==
  /\ pc = "copy" /\ mem.c < mem.alph /\ ~mem.second /\ ~MoreCopied(mem)
  /\ mem' = [mem EXCEPT !.second = TRUE]
  /\ UNCHANGED << text, SA, pc >>

SecondScan ==
  /\ pc = "copy" /\ mem.c < mem.alph /\ mem.second /\ mem.l < mem.r
  /\ IF mem.version = "BPR" THEN CopyRight ELSE CopyLeft
  /\ UNCHANGED << text, pc >>

NextCharacter ==
  /\ pc = "copy" /\ mem.second /\ mem.l >= mem.r
  /\ IF Next_(mem.c) < mem.alph
     THEN mem' = Undetermined(mem, Next_(mem.c)) /\ UNCHANGED pc
     ELSE Goto("done") /\ UNCHANGED mem
  /\ UNCHANGED << text, SA >>

Init ==
  /\ text \in Texts
  /\ SA = InitialArray(1)
  /\ pc = "start"
  /\ mem = << >>

Next == construct_sa \/ InsertSlice \/ StartPhase2 \/ NextTriple \/ refine_single_bucket
        \/ FirstScan \/ FirstScanEnds \/ SecondScan \/ NextCharacter

Spec == Init /\ [][Next]_vars

-----------------------------------------------------------------------------
\* The array is the suffix array when the constructor returns.
ResultIsSuffixArray == pc = "done" => IsResult(SA, 1)

\* A smaller bucket pointer always means a smaller suffix, also while a bucket's
\* pointers are keys of the bucket itself (refine_single_bucket).
PointersNeverContradict ==
  pc \in { "refine", "copy" } => \A a, b \in 0 .. Len(mem.x) - 1 :
    mem.bptr[a] < mem.bptr[b] => SuffixBefore(mem.x, a, b)

\* From the threads' last insertion on until suffixes are copied, every suffix
\* is in the array once, and a bucket pointer points behind or at its suffix.
EveryPositionOnce ==
  pc = "refine" => /\ { SA[k] : k \in DOMAIN SA } = DOMAIN SA
                   /\ \A k \in DOMAIN SA : mem.bptr[SA[k]] >= k

\* The characters the buckets are refined by go through the alphabet once; their
\* variables are of the characters' type, whose values the alphabet may use up.
CharactersAdvance ==
  pc = "refine" /\ pc' = "refine" =>
    mem'.triple = mem.triple \/ LexLess(mem.triple, mem'.triple)

LoopsAdvance == [][CharactersAdvance]_vars

=============================================================================
