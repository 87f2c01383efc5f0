----------------------------- MODULE ParallelSais -----------------------------
(***************************************************************************)
(* parallel_sais.hpp, run_saca: the whole constructor around the pipeline. *)
(*   types    compute_types                                                *)
(*   induce   insert the LMS suffixes in text order, L pass, S pass        *)
(*   name     collect the LMS suffixes in their induced order and name     *)
(*            equal LMS substrings equally; the names, in text order, are  *)
(*            the reduced text s1 in the upper end of SA                   *)
(*   reduce   sort the suffixes of s1 (recursion, or by the names if they  *)
(*            are all different) into the lower end of SA                  *)
(*   place    put the sorted LMS suffixes at the ends of their buckets,    *)
(*            in place, then L pass and S pass again                       *)
(* The recursive call is modelled by what it promises, the suffix array of *)
(* s1: the invariants below say that the promise, for the shorter s1, is   *)
(* what the call itself delivers.                                          *)
(***************************************************************************)
EXTENDS PipelinedInducing

CONSTANTS
  MinSize,         \* parallel_min_size: shorter texts go to sais
  ByteBits         \* the types of a byte, 8 in the code

ASSUME MinSizeAssumption ==
  /\ MinSize \in Nat \ {0, 1}
  /\ ByteBits \in Nat \ {0}

VARIABLES
  phase,
  round,           \* 1: first induction, 2: final inducing
  n1,              \* number of LMS suffixes
  i,               \* loop variable of the sequential phases
  name,
  previous_LMS,
  thread_border,   \* of compute_types, as in ParallelTypes
  thread_info,
  types_phase,
  types_i,
  byte

seqVars == << phase, round, n1, i, name, previous_LMS >>
typesVars == << thread_border, thread_info, types_phase, types_i, byte >>
saisVars == << vars, seqVars, typesVars >>

\* The text is typed in as many parts as it has blocks.
compute_types == INSTANCE ParallelTypes WITH
  thread_count <- block_amount, phase <- types_phase, i <- types_i,
  ThreadCounts <- Nat \ {0}

tasksIdle == << blocknum, pc, index, r, w, w_count, store, typesVars >>

\* The slice of SA that holds the reduced text.
s1 == [ k \in 1 .. n1 |-> SA[n - n1 + k - 1] ]

\* LMS positions in text order: LMSAt(k) has k LMS positions before it.
LMSAt(k) ==
  CHOOSE p \in LMSPositions(s, t) :
    Cardinality({ q \in LMSPositions(s, t) : q < p }) = k

SaisInit ==
  /\ compute_types!Init
  /\ SA = [ p \in Positions(s) |-> 0 ]
  /\ buckets = [ c \in 0 .. K - 1 |-> 0 ]
  /\ type = L_Type
  /\ blocknum = 0
  /\ pc = [ task \in Tasks |-> "idle" ]
  /\ BuffersInit
  /\ phase = "start"
  /\ round = 1
  /\ n1 = 0
  /\ i = 0
  /\ name = 0
  /\ previous_LMS = -1

\* Texts below parallel_min_size are handed to sais::run_saca.
CallSais ==
  /\ phase = "start"
  /\ n < MinSize
  /\ SA' = SuffixArray(s)
  /\ phase' = "done"
  /\ UNCHANGED << s, t, buckets, type, tasksIdle, round, n1, i, name, previous_LMS >>

ComputeTypes ==
  /\ phase = "start"
  /\ n >= MinSize
  /\ \/ \E id \in compute_types!Threads : compute_types!TaskStep(id)
     \/ compute_types!TakeOver
     \/ compute_types!Finish
  /\ UNCHANGED << SA, buckets, type, blocknum, pc, index, r, w, w_count, store, seqVars >>

InsertUnsortedLMS ==
  /\ phase = "start"
  /\ types_phase = "done"
  /\ SA' = InsertLMS(s, t, TextOrder(s))
  /\ phase' = "induce"
  /\ EnterPass(L_Type)
  /\ UNCHANGED << s, t, index, r, w, store, typesVars, round, n1, i, name, previous_LMS >>

Induce ==
  /\ phase = "induce"
  /\ PipelineStep \/ SecondPass
  /\ UNCHANGED << seqVars, typesVars >>

\* The LMS suffixes, in the order the first induction gave them, go to the
\* front of SA; the rest of SA is cleared.
CollectLMS ==
  LET rankAmong(c) ==
        Cardinality({ d \in 0 .. c - 1 : is_LMS(t, SA[d]) })
      cells == { c \in Positions(s) : is_LMS(t, SA[c]) }
  IN  /\ phase = "induce"
      /\ round = 1
      /\ PassDone
      /\ type = S_Type
      /\ n1' = Cardinality(cells)
      /\ SA' = [ k \in Positions(s) |->
                   IF k < Cardinality(cells)
                     THEN SA[CHOOSE c \in cells : rankAmong(c) = k]
                     ELSE None ]
      /\ phase' = "name"
      /\ i' = 0
      /\ name' = 0
      /\ previous_LMS' = -1
      /\ UNCHANGED << s, t, buckets, type, tasksIdle, round >>

\* Faulty variant: the comparison stops at the first character, which is
\* always an LMS position.
Differ_AtOnce(p, q) == At(s, p) # At(s, q) \/ t[p] # t[q]

\* The LMS substrings at p and q differ in a character or a type before both
\* reach their next LMS position.
Differ(p, q) ==
  \E j \in 0 .. n - 1 :
    /\ p + j < n /\ q + j < n
    /\ At(s, p + j) # At(s, q + j) \/ t[p + j] # t[q + j]
    /\ \A k \in 1 .. j - 1 : ~is_LMS(t, p + k) /\ ~is_LMS(t, q + k)

\* Faulty variant: the loop advances only when it has found a new name.
NameNext_OnlyNew ==
  LET current == SA[i]
      diff == previous_LMS = -1 \/ Differ(current, previous_LMS)
      newName == IF diff THEN name + 1 ELSE name
  IN  /\ phase = "name"
      /\ i < n1
      /\ name' = newName
      /\ previous_LMS' = IF diff THEN current ELSE previous_LMS
      /\ SA' = [ SA EXCEPT ![n1 + current \div 2] = newName - 1 ]
      /\ i' = IF diff THEN i + 1 ELSE i
      /\ UNCHANGED << s, t, buckets, type, tasksIdle, phase, round, n1 >>

NameNext ==
  LET current == SA[i]
      diff == previous_LMS = -1 \/ Differ(current, previous_LMS)
      newName == IF diff THEN name + 1 ELSE name
  IN  /\ phase = "name"
      /\ i < n1
      /\ name' = newName
      /\ previous_LMS' = IF diff THEN current ELSE previous_LMS
      /\ SA' = [ SA EXCEPT ![n1 + current \div 2] = newName - 1 ]
      /\ i' = i + 1
      /\ UNCHANGED << s, t, buckets, type, tasksIdle, phase, round, n1 >>

\* The names move to the upper end of SA, keeping their order.
ShiftNames ==
  LET named == { c \in n1 .. n - 1 : SA[c] # None }
      above(c) == Cardinality({ d \in named : d > c })
  IN  /\ phase = "name"
      /\ i = n1
      /\ SA' = [ c \in Positions(s) |->
                   IF \E d \in named : n - 1 - above(d) = c
                     THEN SA[CHOOSE d \in named : n - 1 - above(d) = c]
                     ELSE SA[c] ]
      /\ phase' = "reduce"
      /\ UNCHANGED << s, t, buckets, type, tasksIdle, round, n1, i, name, previous_LMS >>

\* run_saca(s1, sa_, name, ...): the suffix array of s1.
Recurse ==
  /\ phase = "reduce"
  /\ name < n1
  /\ SA' = [ c \in Positions(s) |-> IF c < n1 THEN SuffixArray(s1)[c] ELSE SA[c] ]
  /\ phase' = "restore"
  /\ UNCHANGED << s, t, buckets, type, tasksIdle, round, n1, i, name, previous_LMS >>

NamesAreRanks ==
  /\ phase = "reduce"
  /\ name >= n1
  /\ SA' = [ c \in Positions(s) |->
               IF \E k \in 1 .. n1 : s1[k] = c
                 THEN (CHOOSE k \in 1 .. n1 : s1[k] = c) - 1
                 ELSE SA[c] ]
  /\ phase' = "restore"
  /\ UNCHANGED << s, t, buckets, type, tasksIdle, round, n1, i, name, previous_LMS >>

\* Indices into s1 become LMS positions of s, written over s1; everything
\* above the sorted LMS suffixes is cleared.
RestoreLMS ==
  /\ phase = "restore"
  /\ SA' = [ c \in Positions(s) |-> IF c < n1 THEN LMSAt(SA[c]) ELSE None ]
  /\ buckets' = generate_buckets(s, K, TRUE)
  /\ i' = n1 - 1
  /\ phase' = "place"
  /\ UNCHANGED << s, t, type, tasksIdle, round, n1, name, previous_LMS >>

\* Faulty variant: the moved suffix stays where it was as well.
PlaceLMS_KeepsOld ==
  LET j == SA[i]
      cell == buckets[At(s, j)] - 1
  IN  /\ phase = "place"
      /\ i >= 0
      /\ SA' = [ SA EXCEPT ![cell] = j ]
      /\ buckets' = [ buckets EXCEPT ![At(s, j)] = cell ]
      /\ i' = i - 1
      /\ UNCHANGED << s, t, type, tasksIdle, phase, round, n1, name, previous_LMS >>

\* In place, from the largest LMS suffix down.
PlaceLMS ==
  LET j == SA[i]
      cell == buckets[At(s, j)] - 1
  IN  /\ phase = "place"
      /\ i >= 0
      /\ SA' = [ [ SA EXCEPT ![i] = None ] EXCEPT ![cell] = j ]
      /\ buckets' = [ buckets EXCEPT ![At(s, j)] = cell ]
      /\ i' = i - 1
      /\ UNCHANGED << s, t, type, tasksIdle, phase, round, n1, name, previous_LMS >>

FinalInducing ==
  /\ phase = "place"
  /\ i = -1
  /\ phase' = "induce"
  /\ round' = 2
  /\ EnterPass(L_Type)
  /\ UNCHANGED << s, t, SA, index, r, w, store, typesVars, n1, i, name, previous_LMS >>

Return ==
  /\ phase = "induce"
  /\ round = 2
  /\ PassDone
  /\ type = S_Type
  /\ phase' = "done"
  /\ UNCHANGED << vars, typesVars, round, n1, i, name, previous_LMS >>

SaisTerminating == phase = "done" /\ UNCHANGED saisVars

SaisNext ==
  \/ CallSais \/ ComputeTypes \/ InsertUnsortedLMS \/ Induce \/ CollectLMS
  \/ NameNext \/ ShiftNames \/ Recurse \/ NamesAreRanks \/ RestoreLMS
  \/ PlaceLMS \/ FinalInducing \/ Return \/ SaisTerminating

SaisSpec == SaisInit /\ [][SaisNext]_saisVars /\ WF_saisVars(SaisNext)

-----------------------------------------------------------------------------
(* Properties *)

\* The constructor delivers the suffix array of its text.
ResultIsSuffixArray == phase = "done" => SA = SuffixArray(s)

\* The reduced text is a legal input of the recursive call (it ends in its
\* unique smallest character, its alphabet is 0 .. name-1, it is at most half
\* as long), and sorting its suffixes sorts the LMS suffixes of s.
ReducedTextIsEquivalent ==
  phase = "reduce" =>
    /\ s1[n1] = 0
    /\ { s1[k] : k \in 1 .. n1 } = 0 .. name - 1
    /\ \A k \in 1 .. n1 - 1 : s1[k] # 0
    /\ 2 * n1 <= n
    /\ \A a, b \in 0 .. n1 - 1 :
         SuffixLess(s1, a, b) <=> SuffixLess(s, LMSAt(a), LMSAt(b))

\* The tasks of compute_types deliver the suffix types, and no two of them
\* have the same byte loaded, so that no store undoes another task's setBit.
TypesAreCorrect == phase = "start" => compute_types!TypesAreCorrect
BytesNotShared == compute_types!BytesNotShared

\* The constructor returns.
Returns == <>(phase = "done")

=============================================================================
