# A TLA+ verification project for sacabench

sacabench is a framework for suffix array construction algorithms (SACAs): a
command line program that reads a text, builds the suffix array with one of
about forty algorithms, checks it and writes it out, and the algorithms
themselves, several of them parallel (OpenMP). A text is an array `s` over an
alphabet whose smallest character, the sentinel, occurs only at the end; its
suffix array `SA` lists the start positions of the suffixes in lexicographic
order.

This directory holds TLA+ modules that model parts of it, TLC configurations
that check them on small instances, and proofs that TLAPS checks.
`PROJECT.json` lists the runs, the source lines each definition models, the
hazards found in the code and the theorems.

## 1. Inventory

| component | source (under `src/sacabench/`) | state it keeps | operations | what is hard |
|---|---|---|---|---|
| parallel SAIS | `saca/parallel_sais.hpp` | `SA`, type bits, buckets, two read and two write buffers, block number | `compute_types` (tasks), L and S pass as a three-stage pipeline of tasks (`pipelined_Inducing`), naming, recursion, placement | `SA` is shared between three tasks without synchronisation; torn 40-bit values; two buffers reused in turn; bytes of the bit vector shared at part borders; in-place placement |
| deep-shallow | `saca/deep_shallow/*` | two-character buckets with sorted flags, anchors, the suffix array | shallow sort, deep sort, induced sort from a sorted bucket, copying of sorted buckets; the parallel version runs buckets as tasks | progress and cut-offs of the induced sort; buckets marked sorted while others copy from them |
| induced sorting with threads | `util/induce_parallel.hpp`, `saca/sais_with_parallel_induce.hpp` | `SA`, read and write buffers per block | per block: prepare (parallel), induce (sequential), update (parallel) | division of a block among threads, block size 0 for a one-character text |
| prefix sums | `util/prefix_sum.hpp` | one array | sequential, tree-shaped parallel and work-efficient parallel sums, inclusive and exclusive | tree sweeps over lengths that are no power of two; empty input |
| suffix array check | `util/sa_check.hpp` | an inverse array | range check, permutation check, order check; naive and fast variants | that it accepts suffix arrays only; lengths 0 and 1 |
| driver | `sacabench.cpp`, `util/saca.hpp`, `util/read_text.hpp`, `util/alphabet.hpp`, `sacabench-tools.cpp` | list of SACAs, options, the `late_fail` flag | `list`, `construct`, `batch`; read, effective alphabet, sentinels, run, check, write | repetitions that read standard input again; one algorithm of several failing; width of an index too small for the text; bits in the output header |
| containers and integer types | `util/{container,span,string,kd_array,ringbuffer,uint_types,tagged_number,bits,...}.hpp` | arrays, a two-ended buffer in one array, integers of 40 bits | construction, slices, push and copy, arithmetic on pairs | two ends of a ring buffer meeting; wrap-around of 40-bit values |
| registry | `util/saca.hpp` | the list of constructors | look up by name, construct | every constructor gets the same text with sentinels of its own number and must leave the same array |
| parallel merge | `util/merge_sa_dc.hpp` | two sorted arrays, the merged one, the cuts of the team | cut, search, merge pieces in parallel; three versions | pieces that touch or leave a gap; copies that every thread makes; short last pieces; equal shares |
| sorting helpers | `util/sort/*` | the array being sorted | ternary quicksort, multikey quicksort, introsort, insertion sort, bucket and radix sorts, also parallel | depth limits, equal ranges, slicing by number of threads |
| helpers of the SACAs | `util/{ISAtoSA,insert_lms,type_extraction,induce_sa_dc}.hpp` | arrays | inverting a permutation in place, classifying suffixes, inducing the rest of a difference cover | in-place cycles, parallel cycles |
| SAIS family | `saca/{sais,sais_with_parallel_induce,sads,sacak}.hpp` | `SA`, buckets, types | induced sorting, recursion in place | bucket counters kept inside `SA` (SACA-K) |
| div-suf-sort | `saca/div_suf_sort/*` | `SA`, buckets, B* suffixes | sort substrings of right-most S suffixes, rank, induce | intervals of equal substrings kept as negated entries while others are being sorted |
| gsaca | `saca/gsaca/*` | groups, group sizes, `GSIZE`, `PREV`, `ISA` | two phases over groups | group splitting; parallel version |
| osipov | `saca/osipov/*` | tuples, `ISA`, flags | prefix doubling with filtering; parallel and GPU | flags computed from neighbours; loops that write while reading |
| bucket-pointer refinement | `saca/bucket_pointer_refinement*` | bucket pointers, buckets | recursive refinement, copying | buckets refined recursively while being pointed to |
| m-suf-sort | `saca/m_suf_sort*.hpp` | `ISA` with chain links, stack of chains | chains, ranks, induction | links and ranks in one array, 40-bit tags; parallel chains |
| difference covers | `saca/{dc3,dc3_lite,dc3_par,dc3_par2,dc7,nzSufSort,nzSufSort_par}.hpp` | triplets, reduced text; in `dc3_lite` and `nzSufSort` parts of the arrays that the caller owns | sort samples, recursion, merge | text lengths modulo 3 or 7, recursive calls that overwrite the text they are given, one array as slices, names and positions at once |
| prefix doubling, qsufsort | `saca/{prefix_doubling,qsufsort}.hpp` | names, sorted runs kept as negative lengths | doubling steps until all ranks differ | run lengths in the same array as the positions |
| naive | `saca/naive.hpp` | `SA` | sort by comparison | none |
| adaptors, GPU | `saca/external/*`, `../external/*`, `../cuda/*` | - | call other people's implementations | not this repository's code |

How they interact: the driver calls `prepare_and_construct_sa` (`util/saca.hpp`),
which makes the text with sentinels and effective alphabet, calls one SACA's
`construct_sa` and returns the array; the driver then calls the check and the
writer. A SACA calls helpers in the same thread; the parallel ones open OpenMP
regions or task groups over arrays shared without locks, with barriers between
phases. There are no messages, no persistent state and no callbacks: what makes
the system hard is array algorithms in place, shared arrays between the threads
of a phase, and boundary lengths.

What makes each component correct is the same promise, that the result is the
suffix array (`SuffixArray` in `SaisText.tla`), and for its parallel parts that
every interleaving gives what the sequential code gives, that no two threads of
a phase write the same place, and that every phase ends. There is one exception to the
second: in Kruskal's merge every thread of the team copies a stretch of the first array that has
no counterpart in the second (`merge_sa_dc.hpp:309-322` is in the parallel region, but in no
`for` or `single`), so all of them store the same entries in the same cells.

## 2. Modules

| module | models | state and actions |
|---|---|---|
| `SaisText` | texts, suffix types, buckets, the suffix array as it is defined | operators only; the reference for all SAIS modules |
| `InducingSeq` | `induce_L_Types_sequential`, `induce_S_Types_sequential` | the abstract specification of a pass: `SA`, bucket ends and the scan's place; one action per cell |
| `PipelinedInducing` | `pipelined_Inducing` and the three tasks it spawns in each iteration | `SA`, bucket counters, `r[2]`, `w[2]`, their counts, block number, one place per task. Actions: `PrepareReset/Cell/End`, `InduceStart/Cell/Store/End`, `UpdateStart/Entry/End`, `NextIteration` (the barrier), `SecondPass`. A store of a cell takes two steps (`InduceCell`, `InduceStore`), and a read in between may give either half of either value |
| `*_proofs` | - | theorems about the modules they are named after (section 4); those about `PipelinedInducing`, which `ParallelSais` extends, are in `ParallelSais_proofs`, those about the prefix sums and the merges in `ParallelHelpers_proofs` |
| `ParallelSais` | `run_saca` of parallel SAIS | EXTENDS `PipelinedInducing`, runs the steps of `ParallelTypes`, and puts the two inductions into the constructor: types, LMS insertion, collection, naming, recursion, restoring and placing LMS suffixes, final induction, return |
| `ParallelTypes` | `compute_types` | one task per part with its place and border; bit vector, loads and stores of whole bytes as separate steps, the barrier, the hand-over of border information and the second pass |
| `DeepShallowData` | `bucket_data`, `anchor_data`, the presort into two-character buckets | operators |
| `DeepShallow` | `saca_run_serial` | buckets left, bucket in work, the groups of it that are still to be sorted, suffix array with its marks, anchors. One action per shallow sort, per group, per step of the search of an induced sort, per copy |
| `DeepShallowParallel` | `saca_run_parallel` | buckets left, anchors, lock, task queue, a place for every thread; master's and tasks' steps |
| `PrefixSum`, `PrefixSumEff` | `par_prefix_sum`, `par_prefix_sum_eff` | the tree / the array, the stride `2 ^ level`, the iterations of the loop that are in progress; addends are kept as sequences of positions, so that order and multiplicity show |
| `SaCheck` | `sa_check_naive`, `sa_check_sorter`, `sa_check_fast` | text, array, the loop's place, the verdict |
| `Construction` | what `util/saca.hpp` does around an algorithm | composes `EffectiveAlphabet`, an array that an external algorithm returns, and `SaCheck` or `UniformSa` on it |
| `EffectiveAlphabet` | `prepare_and_construct_sa`, `alphabet` | table, text with sentinels, the loops that mark, sum and map |
| `UniformSa` | `uniform_sa::write_binary` | width, header, bytes, the entry being written |
| `Driver` | `main` of `sacabench.cpp` | command line, what files and standard input hold, repetition and algorithm, records, `late_fail`, exit code; one action per step of `construct`, `batch`, `demo`, `plot` and `histogram` |


The constructors of the registry, with the helpers that only they use:

| module | models | what its actions are |
|---|---|---|
| `Saca` | the common frame of a constructor | the variables `text`, `SA` (the array to fill), `pc`, `mem` (the constructor's own memory); the suffix array by its definition |
| `Registry` | `util/saca.hpp`'s list | a constructor is chosen, its module takes the steps; the properties of the run `constructors` |
| `Dc3`, `Dc3Par` | `dc3.hpp`; `dc3_par.hpp`, `dc3_par2.hpp` | triplets, names, recursive call and return, merge; the stack of calls is explicit. The parallel versions' names come from prefix sums, sequential below `CUTOFF` |
| `Dc3Lite` | `dc3_lite.hpp`, `induce_sa_dc.hpp` | the same within `u`, `new_text` and `out_sa`, every slice at its place, saved data included |
| `Dc7` | `dc7.hpp` | seven classes, merge by the table of comparisons; array lengths as unsigned numbers |
| `NzSufSort` | `nzSufSort.hpp`, `nzSufSort_par.hpp` | the phases on one array: which S positions are sorted by which substrings, names, merging, inducing the rest, and the text turned round |
| `PrefixDoubling` | `prefix_doubling.hpp` | tuples, names, unique positions set apart, discarded or merged back; two or four names per tuple |
| `Osipov` | `osipov.hpp` with the sequential and the parallel loops | initial sort, marks, filtering, new ranks per round |
| `Qsufsort` | `qsufsort.hpp` | one part of a partition per step, ranks updated between parts |
| `DivSufSort` | `div_suf_sort/*` | substrings, marked intervals, one interval of a round per step, insertion, both scans |
| `BucketPointerRefinement` | `bucket_pointer_refinement*.hpp` | presort (by slices of threads), one bucket refined per step, copying scans |
| `MSufSort` | `m_suf_sort{,_v2,_scan}.hpp`, `ISAtoSA.hpp` | one chain taken from the stack per step: refined, or ranked with the lists it starts |
| `Gsaca` | `gsaca.hpp`, `gsaca_parallel.hpp`, `gsize.hpp` | phase 1: one group per turn, its PREV pointers, splitting and reordering as steps; phase 2: one suffix per step |
| `Sais` | `sais.hpp`, `sais_with_parallel_induce.hpp`, `sacak.hpp`, `induce_parallel.hpp`, `insert_lms.hpp`, `type_extraction.hpp` | levels of the recursion inside `SA`; the blocks of a parallel pass as steps in any order |
| `ParallelMerge` | `merge_sa_dc.hpp` | `tasks`, the pieces of the job in progress, of which a thread takes any one at any time and writes its cells and leaves the pieces it divides into (`Divide`: a call of `merge_parallel` or `merge_sa_dc_parallel_kruskal_2`; `CopyStretch`: a thread's own copy of a stretch that all threads of the team copy, for each a piece; `MergePair`: half of a pair of subsegments); `merge_parallel_opt` runs the jobs `mark`, `borders_1`, `borders_2` and `merge` one after the other (`SearchMarked`, `MergeSecondBorders`, `ScheduleSubsegments`). `output` has the cells of every job |

`MC*` modules give the constants that a `.cfg` cannot write (sets of texts,
command lines). Operators with an underscore in their name, such as
`Near_OwnBlock`, are faulty variants of the operator before the underscore:
each shows, by a run in which it takes the operator's place, that a property
notices the fault. They are not used by any specification.

Composition: `ParallelSais` EXTENDS `PipelinedInducing` and INSTANCEs
`ParallelTypes` with its own task variables, the number of parts being the number
of blocks as in `run_saca`; `PipelinedInducing` INSTANCEs `InducingSeq` with `SA`,
buckets and the scan's place mapped, and the property `ImplementsSequential` says
it implements it; all rest on `SaisText`. The two Deep-Shallow modules share
`DeepShallowData`. `Construction` INSTANCEs the three modules about what happens
around an algorithm; what `Driver` assumes of a check, that it is exact, is what
`Construction` shows of the checks. `Registry` INSTANCEs the constructors' modules over
the four variables of `Saca`, so that one of them runs and all are asked the same
questions. `MCParallelHelpers` composes what the parallel constructors call: the two
prefix sums, one after the other on the same input, or a merge; `Dc3Par` then uses
what it shows of them (a sum is the sequential one, the merge is a merge).

### How data is abstracted

- Texts are sequences over `0 .. K-1` with the sentinel 0 at the end only.
- Positions are numbers; where the code gives a meaning to the largest value
  (an empty cell) the model has a value of its own (`None`). Cells that consist of
  two fields are pairs in base `LowBase`, so that a torn read mixes two fields.
- `Deep-Shallow`: what multikey quicksort and the blind trie do inside a group is one
  step with the code's result (for the quicksort, every division into groups
  that its depth limit allows).
- Constructors of the registry: between two steps that `SA` or `mem` can tell apart, a
  loop is its result. Sorts that callers do not look into are one step, stable ones in
  the stable order; where the order of equal keys shows, more than one order is tried.
  Loops whose order matters (a scan that reads what it wrote, a partition with rank
  updates, blocks of threads) are kept as a sequence of updates or as steps.
  An entry with a mark in its highest bit is a negative number or has a field of its own.
- A container of fresh cells holds zeros (`make_container`). Arrays are functions on their
  indices, so that TLC stops at a read behind an end; the two such faults that the code
  has (an index of -1 in `Dc3Par`, a length that wraps in `Dc7`) lead to the phase `failed`.
- Merges: an entry is its rank in the merged array, and a cell of an output holds which array
  the entry came from and its place there. A step does a whole piece. A copy that every
  thread makes (`kruskal_pieces`) is one step per thread, at any time until the job ends;
  a nested parallel region has as many threads as the first one, where OpenMP may give it
  fewer (one, unless nesting is switched on).
- Prefix sums: an element is the sequence of the input positions summed in it.
- Driver: an array is the text it was made of and whether it is right. Algorithms
  are external: any of them may be wrong at any time. Widths 32, 40, 48, 64
  are two small widths.

## 3. Runs

| run | instance | what it shows |
|---|---|---|
| `pipeline` | lengths 2, 5, 8; blocks of 2 | all interleavings of the three tasks with torn reads implement the sequential pass, and nothing is lost. Length 8 has four blocks: all three stages are busy at once and both buffers are used twice |
| `sais` | lengths 2, 5, 8, some texts of 9; blocks of 3; bytes of 2 bits | the constructor returns the suffix array, with the types computed by one, two or three tasks. Length 8 has texts whose names repeat, so that the recursive call is made; length 9 has three parts, shorter and longer than a byte's worth, and runs over several of them |
| `deep_shallow` | lengths 1, 2, 10 | correct whenever it ends; a search ends if the anchor leaves two common characters. Length 10 with segments of 5 and a deep sort depth of 3 is the shortest at which induced sorts from both sides of an anchor occur |
| `deep_shallow_completed` | length 11 | finding 1: a search that does not end |
| `deep_shallow_parallel` | lengths 1, 2, 8; three threads | no bucket twice, nobody waits for ever, result correct. Two workers beside the master are enough for two tasks to meet at the lock and the master to meet both |
| `parallel_helpers` | sums: lengths 1 to 13, 2 iterations at once; merges: up to 9 entries, teams of 1 to 4, searches sequential below 3 | both sums equal the sequential one and iterations of a loop are independent; each of the three merges gives the merged array, its pieces meet in no cell but those of a stretch that every thread of a team copies (where they store the same entries), and no share is too large. The lengths contain powers of two, their neighbours and numbers with two incomplete levels; nine entries of four threads have full, short and empty pieces, marks of both arrays that follow each other in every order, a call of Kruskal's merge whose marks are three apart, and neighbouring marks at one place of the other array, so that up to four threads copy the stretch between them |
| `constructors` | texts of up to 7 characters out of two, up to 4 out of three, periodic ones of up to 20, also with a broken period; all 13 constructors in all variants | the suffix array comes out; compared ranks never contradict the order; no suffix is lost; recursion is given an equivalent text and leaves its callers' data alone; threads write apart. The periodic texts need the recursion (two levels of it for SAIS and DC3), many rounds, repetition sequences and chains; word packing, radix depth and block sizes are small enough that each text has several words, buckets and blocks |
| `construction` | up to 3 of 3 characters, none or one sentinel, arrays of values up to 4, five widths | the alphabet keeps the order of the suffixes; each check accepts suffix arrays only; what is written can be read back. Three characters include texts that use every character value, for which the alphabet promises nothing; with bytes of two bits widths of one and two bytes occur, and the counter modulo 8 wraps where the code's wraps at 256 |
| `driver` | 4944 command lines, two files, texts of 1 and 2 characters | exit code, runs made, benchmark file, files left alone |
| `bpr_full_alphabet` | as many characters as the type has values | finding 2 |
| `dc7_short_text` | up to 4 characters | finding 3 |
| `dc3_par_names` | two texts of 24 characters | finding 4 |

Where the properties say less than their names, or other voices of the repository doubt:

- `register.cmake` keeps parallel Deep-Shallow ("DIDN'T WORK", lines 52-54) and nzSufSort
  ("SEGFAULT?", lines 144-146) out of the program. The remarks name no input and no build. The
  runs `deep_shallow_parallel` and `constructors` find nothing wrong with the two within their
  bounds, and say nothing of longer texts (Deep-Shallow's finding 1 needs 11 characters, where
  the parallel run has 8).
- Deep-Shallow's tags are a variable of their own and go all at once, so `SortedBucketsStay`
  cannot see a tag bit left in the suffix array.
- `ParallelPartsApart` says of nzSufSort's parallel version only that its loops' indices stay apart and inside.
- `ZeroMeansAllPassed` takes the verdicts of the checks as exact, which `-q` on one character is not (run `construction`).

All bounds are constants of the configurations; no state constraint and no
symmetry is used. One bound is in a guard: in `DeepShallow` the search of an
induced sort counts its distance up to one past the text (`LookBeyondText`),
which stands for all the distances up to 2^64 at which the code finds nothing.
In `Dc7` an array of more than `MEMORY` entries is not to be had.

### Fairness

All specifications but those of the registry and `ParallelMerge` assume weak fairness of
the whole next-state relation and nothing else; the runs `sais`, `deep_shallow` and
`deep_shallow_parallel` check liveness under it. That is: as long as some thread can take a step, some thread does.
That much an operating system gives any process. It is enough for `Returns`
and for `Completed` of the parallel Deep-Shallow because their
threads never wait in a loop: a blocked thread has no step. Fairness to a
single thread is not assumed, as OpenMP's scheduling does not promise any.
`Registry` and `MCParallelHelpers` state safety only and assume no fairness; that none of
their behaviours gets stuck before its end is TLC's deadlock check, since only an ended
call may stutter (`Returned`, `MergeDone`).

### Findings

The runs that end in a violation each state a sentence of the repository
about its own code, and TLC shows an execution in which it is not so. They are
listed with both sources in `PROJECT.json`:

1. `deep_shallow_completed`: for the text 1,1,1,1,1,2,1,1,1,2,0 with the constants above
   the search of an induced sort never ends. The two-character bucket in which
   it looks does not hold all suffixes it looks for.
2. `bpr_full_alphabet`: with 255 different characters and the sentinel, the loops over
   characters of bucket-pointer refinement start over and never end.
3. `dc7_short_text`: for two to four characters DC7 asks for arrays of about 2^64 / 7 entries.
4. `dc3_par_names`: the identity element of the sequential prefix sum stands for the
   text's first triplet; if that one is the smallest sampled, names start at 0 and the
   ranks are written from the cell before the array on.

Others came up without a run of their own. They are among the hazards, or named here,
and the properties state what does hold:

- `-q` accepts any array for a text of one character, having no neighbours to compare.
- The width that `-B` computes is one bit short for lengths 1, 2 and 2^8k + 1, and its
  header byte is put out before the width is rounded up to whole bytes.
- With `-r` and standard input the second repetition has an empty text.
- The width of the index follows the option and does not depend on the text.
- `demo` does not look at the arrays.
- `omp_set_num_threads` in parallel bucket-pointer refinement stays in force afterwards,
  with 0 threads for texts shorter than the depth.
- The parallel m-suf-sort headers define templates of the same names as the sequential ones.
- The direct store of the pipeline reaches a cell (in the S pass, all) of the block
  after the adjacent one that its comment names, which does no harm (`pipeline`, and
  `WritesBeforeScan` for all constants).

## 4. Proofs

Every theorem holds for all values of the constants that the named assumptions of its
module allow. TLC checked every inductive invariant below on a small instance before it was
proved. Sets that the code only counts (bucket borders, ranks, places) are cardinalities in
the modules, so the proofs count: a map of a finite set into as many numbers that never takes
a number twice takes all of them. Induction over positions, levels and places is by a least
(or nearest) counterexample in a set of numbers that is named, which needs no
induction theorem with an operator parameter.

### Parallel SAIS

`ParallelSais_proofs` proves of the pipeline, for every set of texts, alphabet, block length
and cell width that `ConstantsAssumption` and `TextsAssumption` allow (texts end in
a unique sentinel; a position and the empty cell are representable):

| theorem | says |
|---|---|
| `Invariance` | `Spec => []PipelineInv` |
| `TypeCorrect` | `Spec => []TypeOK` |
| `BuffersDisjoint` | `Spec => []BuffersNotShared` |
| `WritesBeforeScan` | `Spec => []ScanSeesAllWrites` |
| `PassLeavesNothing` | `Spec => []NothingLeftBehind` |
| `RefinementInvariance` | `Spec => []RefinementInv` |
| `RecordsCurrent` | `Spec => []PreparedIsCurrent` |
| `PipelineImplementsScan` | `Spec => ImplementsSequential`: every pass refines `InducingSeq` |

`PipelineInv` is the conjunction of the type invariant, `Schedule` (which task of an iteration
works on which block, and which of them are finished), `FillingInOrder` (where the entries of
the write buffer being filled may point) and `FlushingInOrder` (the same for the buffer being
emptied, whose entries before the update task's place are already in `SA`). The last two are
needed because `ScanSeesAllWrites` alone is not inductive: that a buffered suffix
reaches its cell in time depends on the direct store having taken everything
nearer than two blocks, one iteration earlier.

The refinement maps `SA` to `VisibleSA`, the array with the pending writes applied, the place
of the scan to the block and cell of the induce task, and the buckets to themselves; every
step but the one that stores an induced suffix in a bucket stutters. `RefinementInv` adds to
`PipelineInv`: `IndexInv` (the range of the scan's place), `PendingInv` (a pending write is the
only one for its cell, which the scan has filled and which induces nothing yet), `RecordsInv` (the
records of the block being prepared match the visible array, those of the block being induced
match `SA`) and `SeqInv`, which is about the sequential scan alone: the filled cells of a
bucket hold different suffixes of its character and type, each next to one that was visited,
and no value that induces is twice in the array. So a suffix that the scan is about to induce
is not in its bucket yet, and the bucket, of as many cells as it has suffixes of that type, has
room (`HasRoom`). Reads of half-written cells are harmless as none of the mixtures of an
empty cell's halves with a stored value's is taken for a suffix that induces (`RacingRead`).

`ParallelTypes_proofs` proves of the tasks of `compute_types`, for every text, number of
parts and number of bits in a byte (`SizesAssumption`; the last one, of types, also for texts that
end in a unique character, `SentinelAssumption`):

| theorem | says |
|---|---|
| `BytesInvariance` | `Spec => []BytesInv` |
| `BytesApart` | `Spec => []BytesNotShared` |
| `TypesComputed` | `Spec => []TypesAreCorrect` |

`BytesInv` says that a task's loop variable stays in its part (`Counters`) and that what
it has loaded holds a bit of its part (`OwnBytes`); that two parts share no byte is
arithmetic, as `part_length` is rounded down to a multiple of the byte's bits and only the
last part, which may be longer, is not followed by another. `TypesInv` adds that a bit is set
only where the type is S, that a loaded byte lacks no bit set so far (`BitsInv`), that the equal
characters from a part's border on continue the run at its end (`RunsInv`), that the first
pass leaves right types behind it but for a run that reaches into the next part (`FirstInv`), and
that in the second pass the type handed over travels along this run (`SecondInv`).

`ParallelSais_proofs` carries both over to the constructor: `SaisBytes`,
`SaisSpec => []BytesNotShared`, and `SaisTypes`, `SaisSpec => []TypesAreCorrect`, from the facts
that every step of the constructor is one of `compute_types` or leaves its variables alone.

Of the constructor itself it proves, under the same assumptions (and `MinSizeAssumption`):

| theorem | says |
|---|---|
| `SaisInvariance` | `SaisSpec => []SaisInv` |
| `SaisReduces` | `SaisSpec => []ReducedTextIsEquivalent` |
| `SaisSorts` | `SaisSpec => []ResultIsSuffixArray` |

`SaisInv` says what each phase hands to the next; each part has a lemma per action:

- *Induction.* A pass sorts by any relation that decides by the first characters, puts L before
  S type, and otherwise decides as of the suffixes one behind (`PassOrder`). `OrderInv` says that
  the cells a pass has settled are in this order, and that what a visited cell induces has been
  put into its bucket; `InducedInOrder` is the step of induced sorting. With `InducingInv` the
  pipeline keeps it, as `RefinementInv` shows the pipeline to be the scan (`InducingKept`), and at
  the end of the S pass every suffix is in `SA` once and in order (`PassesSort`). The relation
  is the suffix order in the final inducing (`LessPairs`). In the first induction it is the
  order of the LMS substrings (`LMSPairs`), and in its L pass, which starts from LMS suffixes
  that are not sorted yet, the order of what precedes the first S-type suffix (`LPairs`).
- *Naming.* `NamesInv`: of the LMS suffixes named so far one has a smaller name
  exactly if its substring is smaller, and `Differ` finds a difference exactly if one of the
  two is (`DifferFacts`). As no two LMS positions are neighbours, the cells
  `n1 + position / 2` are different ones (`NameCells`).
- *The reduced text.* `ReducedInv` gives its characters, in text order, the order of the
  substrings; suffixes of it are compared by their first different character, that is by
  the first different LMS substrings, before which the text agrees (`ReducedLess`).
- *Placing.* `SortedInv` holds after the recursion and after the shortcut alike. `PlacingInv`: the
  suffixes up to cell `i` are to be placed, the others are at the ends of their buckets, and all
  are in order. That the next cell is in its bucket, and not before cell `i`, is
  counted: the suffixes of cells `0 .. i` have characters up to that of the one moved, and there
  are only as many such suffixes as cells up to the end of its bucket (`PlaceCell`).

The recursive call is what the model takes it to be, the suffix array of the reduced text; that
`SaisSorts` holds of every text, and `SaisReduces` makes the shorter one legal, is the
step of the induction over the length that the code's recursion performs.

### Deep-Shallow

`DeepShallowData_proofs` holds what both constructors rest on, for every text that ends in its
only 0 (`DataAssumption`): the order of the suffixes is a strict linear one and the rank numbers
it, a bucket's suffixes have the ranks of the bucket's cells, `Presorted` puts every suffix in
a cell of its bucket, and sorting cells that hold the suffixes of their own ranks
(`Spans`) gives the ranks. `DeepShallow_proofs`, for every depth of `shallow_sort` above 1:

| theorem | says |
|---|---|
| `DeepInvariance` | `Spec => []DeepInv` |
| `DeepShallowCorrect` | `Spec => []ResultIsSuffixArray` |
| `NoSuffixLost` | `Spec => []EverySuffixOnce` |
| `AnchorsSorted` | `Spec => []AnchorsLeadToSorted` |
| `SortedBucketsKept` | `Spec => SortedBucketsStay`, the action property |

`DeepInv` is the conjunction of `ArrayInv` (the array is the identity, then every suffix is in a
cell of its bucket, in the end in its own), `BucketsInv` (a bucket waits, is in work, is sorted and
holds the right ranks, or is too small to be sorted), `GroupsInv` (the bucket in work is sorted
outside of its groups, and a group's cells hold exactly the suffixes whose ranks those cells
are, which agree in `DeepSortDepth` characters), `AnchorsInv` and `SearchInv` (marked cells
lie in one sorted bucket and hold suffixes at the anchor's distance from the group's).

- *shallow_sort.* The order of the groups, and of the text inside a group, is linear as the
  suffixes that agree in some number of characters are convex in the suffix order
  (`AgreeBetween`). So its places fill the bucket's cells, and a group gets the cells that are its
  members' ranks (`ShallowCells`).
- *Induced sort.* The marked cells, from left to right, hold shifted suffixes in suffix order, so
  the group's own are in suffix order too (`AgreeShift`); a strictly increasing map of
  `0 .. m - 1` to itself is the identity (`Identity`), so each is in its final place.
- *Anchors.* After a bucket is sorted a segment's anchor is the smaller of the old one and the
  leftmost new suffix of the segment (`AnchorsUpdated`, by arithmetic of quotient and remainder).
- *Rewriting* cells of a bucket that is not sorted leaves sorted ones as they are, as buckets have
  no cell in common (`SortedKept`, `CellsApart`).

`DeepShallowParallel_proofs` proves, for every team with a master (`TeamAssumption`),
every text and every alphabet:

| theorem | says |
|---|---|
| `Invariance` | `Spec => []Inv` |
| `BucketsOnce` | `Spec => []EachBucketOnce` |
| `LockIsHeld` | `Spec => []LockDiscipline` |
| `ArrayInvariance` | `Spec => []ParallelInv` |
| `ParallelDeepShallowCorrect` | `Spec => []ResultIsSuffixArray` |

`Inv` adds to the first two properties a type invariant, `Busy` (which places in the code have
a bucket in work, so that a bucket is with one thread only) and `Holder` (the lock is
with the thread between its locking and unlocking). Without `Busy` a task could
start with a bucket that another one still has; without `Holder` two threads in a critical
section would satisfy the lock variable. `ParallelInv` adds the stages of the array, that there
are tasks only between bucketsort and taskwait (`TasksInv`: the master waits only when it has
taken every bucket), and that a bucket whose task has sorted it holds its ranks (`SortedInv`). At
taskwait nothing is left, queued or in work, so by `EachBucketOnce` every bucket of two or more
is sorted; a bucket of one suffix is sorted from the presort on.

### Prefix sums

`ParallelHelpers_proofs` proves of `par_prefix_sum` and `par_prefix_sum_eff`, for every set of lengths,
cutoff and number of iterations in progress at once:

| theorem | says |
|---|---|
| `SumInvariance` | `Spec => []SumInv` |
| `PrefixSumsCorrect` | `Spec => []EqualsSequential` |
| `LoopsRaceFree` | `Spec => []IterationsIndependent` |
| `InPlaceInvariance` | `EffSpec => []EffInv` |
| `InPlaceSumsCorrect` | `EffSpec => []InPlaceEqualsSequential` |

`SumInv` tells for each level of the tree, in the up pass, which addends its nodes hold (those of
the leaves below, in order) and, in the down pass, those before their first leaf; on the level
in work an iteration that is over has its node's value and one that is not has left its two
alone, so that what an iteration stores does not depend on how far the others are. The levels
are powers of two: `is_power_of_two` and `next_power_of_two` are defined by divisors, as the
library's `2 ^ k` is recursive, and what the code needs of them (the next level divides the last
one, and ends at 1) is shown from the divisors.

`EffInv` is about the multiples of strides. On the way into the recursion, the element at the end
of the first `i * d` elements, `d` a power of two and `i` odd, has the sum of the last `d` of them
and is not touched again (`OddSums`); the multiples of the stride have the sums of a stride each
(`PairSums`). On the way out they have the sums from the beginning (`Prefixes`), and a level
completes the odd multiples of the level before with them. That no store hits an element a later
level still needs is `OddApart`: a smaller power of two divides half of a larger one
(`PowersNest`), so an odd multiple of it is no multiple of the larger one. The element of the
residue is one more odd multiple, and `residue = 1` is shown to hold exactly if it exists. The
state has the stride `2 ^ level` and not the level, for the reason given above.

### Merges

`ParallelHelpers_proofs` goes on with the three merges of `merge_sa_dc.hpp`, for every division of
a number of entries up to `MaxLength` among the two arrays, every set of team sizes and every limit
below which a search is sequential (`ParallelMergeAssumption`):

| theorem | says |
|---|---|
| `MergeInvariance` | `MergeSpec => []MergeInv` |
| `MergesCorrect` | `MergeSpec => []ResultIsMerge` |
| `MergeOnlyCopiesMeet` | `MergeSpec => []OnlyCopiesMeet` |
| `MergeWorkIsShared` | `MergeSpec => []WorkIsShared` |

`ResultIsMerge` speaks of the end and says nothing while pieces are left; what is true all the
time is that the pieces left are the work left (`WorkInv`): each cell holds the entry that
belongs there or lies in a piece, and in no other one but copies of the same stretch (`Apart`);
a piece's cells are empty, or for a copy hold what it will store there again, as another thread
was faster (`Unwritten`). "Belongs there" must not
refer to the merged array, which does not exist yet. It is said with cuts: `Cut(x, y, i, j)` if the first `i` entries of `x`
and the first `j` of `y` are all before the others, and an entry `Stands` in cell `c` if there is
a cut at `c` and one behind it that differ by that entry. A piece lies between two cuts
(`PieceOk`); a search returns the cut at its key (`SearchFinds`); a call's marks are cuts that
follow each other, so the stretches between them, each left as a piece or as one copy per thread, are
apart and leave nothing over (`SplitDivides`, `KruskalCopies`, `KruskalSplits`, `ClrsDivides`). Both sequential merges, from the left and
from the right, go from cut to cut (`MergeFromLeftFills`, `MergeFromRightFills`).

Of the merge with optimal work, `MergeInv` adds what each nested merge hands to the next. After
`mark` the marked entries are in order, so a mark's segment contains its place (`SegmentFacts`);
`PlacesAre` are the places that the searches find, `MarksIn` says that exactly the marks' cells have been written. The two
merges of borders are of different arrays, but the same cell of both has the same mark
(`BorderStands`), seen once as a place of the first array and once as one of the second: only for that reason may
subsegment `k` of the one be paired with subsegment `k` of the other (`BorderPair`,
`SegmentCuts`, `BordersDone`). `WorkIsShared` follows as a pair's half lies in one block of
`stepsize` entries of its array and a block's last entry is a mark, which nobody merges: the cells of
a block's pairs map one to one to its other entries (`BlockShare`), and only the last processor
has more than one block.

The input is made of the entries `0 .. n - 1`, so no two are equal, as no two suffixes are; for
equal ones the searches' order of the arrays would have to be part of `ResultIsMerge`.

### The driver

`Driver_proofs` proves, for every list of algorithms, every set of files and
of command lines with numbers of repetitions (`AlgorithmsAssumption`, `OptionsAssumption`,
and `NamesAssumption`: no two of the algorithms that `register.cmake` lists have one name):

| theorem | says |
|---|---|
| `FilesStay` | `Spec => ExistingFilesStay`, the action property |
| `BenchmarkComplete` | `Spec => []BenchmarkIsComplete` |
| `RunsInvariance` | `Spec => []RunsInv` |
| `ZeroMeansPassed` | `Spec => []ZeroMeansAllPassed` |
| `SelectedRun` | `Spec => []SelectedAlgorithmsRun` |

Their invariants are built on `Control` (which fields mean something in which phase).
`OutputsWritable` says that past the checks of the file names every output file
is new, written by this call, or may be overwritten: the property about a step needs it as the writes
come long after the checks. `FailuresNoted` says that `late_fail` is set once a run
has failed, and `RunsCounted` that the number of records is that of the repetitions and
selected algorithms passed; at the end of the loops this is the number asked for. `RunsListed`
counts the records of each algorithm by itself (`Due`): as many as repetitions it has had, in the
registry's order within a repetition.

### Around an algorithm

`Construction_proofs` proves, for every text and every array that an algorithm may return:

| theorem | says |
|---|---|
| `SorterExact` | `Spec => []SorterIsExact`: the naive check and the one by sorting accept suffix arrays only |
| `FastExact` | `Spec => []FastIsExact`: so does the comparison of neighbours, where it applies |
| `AlphabetKeepsOrder` | `Spec => []OrderKept` |
| `WritesReadable` | `Spec => []EntriesReadBack`: from the bytes of an entry, lowest first, its value can be summed up, for every width that a caller asks for or `write_binary` computes, and for bytes and a counter `bits` of any size |

The naive rank of a suffix is the number of smaller ones, in a strict order. `PermutationInv` and
`TriplesInv` belong to the fast check: the stable sort of the places by their values inverts the
array exactly if it is a permutation; and if two neighbours are in the wrong order, then at
their first different character the check sees a larger one first, or descends
to a pair one character on. `AlphabetInv` tells what the table holds while
the loops run: marks, then running sums, which are the ranks of the characters that occur
and never wrap, as at least one character value does not occur.

`WriteInv` tells what the bytes written so far stand for (`Digits`): for every entry there is a list
of what is left of it after each of its bytes, and each byte is what the next division takes away.
For the entry in progress the last one is `v`, and `b` counts the bytes that are still to come: it
reaches 0 with the last of them and never wraps below it, because `bits` is a whole number of bytes by then,
wrapped around or not. `EntryReadBack` sums the list up: read bytes and what is left make the entry
again, and nothing is left of a value that fits. The powers of two and the sum are recursive
functions; that they exist is proved by induction from the smallest counterexample (`Induct`), without a
theorem that takes an operator.

### Model-checked only

- That texts below `parallel_min_size` come out sorted: parallel SAIS hands them to `sais.hpp`,
  which `CallSais` models by its result and `Registry` checks.
- The modules of the registry: they are written with RECURSIVE operators or composed with modules
  that are, as the algorithms are loops over arrays.
- All liveness: fairness and ENABLED are outside the prover's reach.

## 5. Plan

Done: the core (`PipelinedInducing` with its proofs, `ParallelSais`, `ParallelTypes`),
parallel SAIS and Deep-Shallow, serial and parallel, with their results proved, the driver and
the check, prefix sums and merges with their proofs, and the registry with thirteen constructors.

Left, in this order:

1. The sorters of the parallel m-suf-sort versions, and `dc3_lite_par.hpp`.
2. The multi-scan and parallel inversions of `ISAtoSA.hpp`.
3. Deep-Shallow's big-bucket variant; the ring buffer.

Runs are few and each asks one question: a new constructor joins `Registry`, a new
parallel helper `MCParallelHelpers`.

## 6. Not modelled, and why

`PROJECT.json` lists each component with its status. Left out:

- `saca/external/*`, other people's implementations and the adaptors to them, and the GPU
  code (`osipov_gpu.hpp`, `cuda/`): not this repository's code, or another memory model.
- `sads.hpp`: its sampled substrings differ from SAIS's only in texts longer than
  TLC can enumerate.
- `gsaca_new.hpp`, a second copy of `gsaca.hpp`, and `naive.hpp`, a sort by comparison.
- `dc3_lite_par.hpp` (`dc3_lite.hpp` with parallel loops) and the parallel sorters of
  m-suf-sort: their sequential versions are modelled.
- The big-bucket variant of Deep-Shallow; multi-scan and parallel `ISAtoSA`.
- The ring buffer, arithmetic of 40-bit numbers, and `radixsort_parallel`, which only
  its test calls.
- `list`, the configuration and the call of the LaTeX and R plots (which write their files
  whether `-f` is given or not, `sacabench.cpp:560`), system information and statistics:
  output only. `ExistingFilesStay` speaks of the two files that the driver itself asks for.
- The limits of machine integers (texts of 2^31 characters): the modules' lengths are
  unbounded, TLC's are small, and the hazards in `PROJECT.json` name the lines.
