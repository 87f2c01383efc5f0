------------------------------ MODULE Registry ------------------------------
(***************************************************************************)
(* The registry of constructors (util/saca.hpp, saca_list): a constructor  *)
(* is chosen by name and runs on a text, and whichever it is, the array it *)
(* leaves is read in the same way. The modules of the constructors share   *)
(* the four variables of Saca; this module says which of them takes the    *)
(* steps, and what has to hold for all of them.                            *)
(***************************************************************************)
EXTENDS Saca

CONSTANTS
  Constructors,                                        \* the names to choose from
  Versions, CUTOFF,                                    \* as in Dc3Par
  MEMORY,                                              \* as in Dc7
  Variants, WP_SIZE, BITS,                             \* as in PrefixDoubling
  InitialDepth, NEGATIVE_MASK,                         \* as in Osipov
  PACKED,                                              \* as in Qsufsort
  BprVersions, BPR_DEPTH, BPR_THREADS, CHARACTERS,     \* as in BucketPointerRefinement
  MSufSortVersions,                                    \* as in MSufSort
  GsacaThreads,                                        \* as in Gsaca
  SaisVersions, BLOCK_SIZE                             \* as in Sais

VARIABLE constructor

dc3 == INSTANCE Dc3Par
dc3_lite == INSTANCE Dc3Lite
dc7 == INSTANCE Dc7
doubling == INSTANCE PrefixDoubling
osipov == INSTANCE Osipov
qsufsort == INSTANCE Qsufsort
div_suf_sort == INSTANCE DivSufSort
bpr == INSTANCE BucketPointerRefinement
m_suf_sort == INSTANCE MSufSort
gsaca == INSTANCE Gsaca
sais == INSTANCE Sais
nz_suf_sort == INSTANCE NzSufSort

Names == { "DC3", "DC3_par", "DC3_lite", "DC7", "doubling", "Osipov", "qsufsort",
           "DivSufSort", "BPR", "mSufSort", "GSACA", "SAIS", "nzSufSort" }

ASSUME RegistryAssumption ==
  /\ Constructors \subseteq Names
  /\ TextsAssumption
  /\ bpr!BprAssumption /\ gsaca!GsacaAssumption /\ sais!SaisAssumption
  /\ Versions \subseteq { 1, 2 } /\ CUTOFF \in Nat /\ MEMORY \in Nat
  /\ InitialDepth \in Nat \ {0} /\ PACKED \in Nat \ {0}

Init ==
  /\ constructor \in Constructors
  /\ CASE constructor \in { "DC3", "DC3_par" } -> dc3!Init
       [] constructor = "DC3_lite" -> dc3_lite!Init
       [] constructor = "DC7" -> dc7!Init
       [] constructor = "doubling" -> doubling!Init
       [] constructor = "Osipov" -> osipov!Init
       [] constructor = "qsufsort" -> qsufsort!Init
       [] constructor = "DivSufSort" -> div_suf_sort!Init
       [] constructor = "BPR" -> bpr!Init
       [] constructor = "mSufSort" -> m_suf_sort!Init
       [] constructor = "GSACA" -> gsaca!Init
       [] constructor = "SAIS" -> sais!Init
       [] constructor = "nzSufSort" -> nz_suf_sort!Init

Step ==
  \/ constructor = "DC3" /\ dc3!Next
  \/ constructor = "DC3_par" /\ dc3!NextPar
  \/ constructor = "DC3_lite" /\ dc3_lite!Next
  \/ constructor = "DC7" /\ dc7!Next
  \/ constructor = "doubling" /\ doubling!Next
  \/ constructor = "Osipov" /\ osipov!Next
  \/ constructor = "qsufsort" /\ qsufsort!Next
  \/ constructor = "DivSufSort" /\ div_suf_sort!Next
  \/ constructor = "BPR" /\ bpr!Next
  \/ constructor = "mSufSort" /\ m_suf_sort!Next
  \/ constructor = "GSACA" /\ gsaca!Next
  \/ constructor = "SAIS" /\ sais!Next
  \/ constructor = "nzSufSort" /\ nz_suf_sort!Next

Returned == pc \in { "done", "failed" } /\ UNCHANGED vars

Next == (Step \/ Returned) /\ UNCHANGED constructor

Spec == Init /\ [][Next]_<< vars, constructor >>

(***************************************************************************)
(* Properties: those of the constructors' modules, for the one that runs.  *)
(***************************************************************************)

\* What the array holds behind the sentinels' entries is the text's suffix
\* array, whichever constructor filled it (prepare_and_construct_sa).
ResultIsSuffixArray ==
  pc = "done" =>
    CASE constructor \in { "DC3", "DC3_par" } -> dc3!ResultIsSuffixArray
      [] constructor = "DC3_lite" -> dc3_lite!ResultIsSuffixArray
      [] constructor = "DC7" -> dc7!ResultIsSuffixArray
      [] constructor = "doubling" -> doubling!ResultIsSuffixArray
      [] constructor = "Osipov" -> osipov!ResultIsSuffixArray
      [] constructor = "qsufsort" -> qsufsort!ResultIsSuffixArray
      [] constructor = "DivSufSort" -> div_suf_sort!ResultIsSuffixArray
      [] constructor = "BPR" -> bpr!ResultIsSuffixArray
      [] constructor = "mSufSort" -> m_suf_sort!ResultIsSuffixArray
      [] constructor = "GSACA" -> gsaca!ResultIsSuffixArray
      [] constructor = "SAIS" -> sais!ResultIsSuffixArray
      [] constructor = "nzSufSort" -> nz_suf_sort!ResultIsSuffixArray

\* Constructors that refine an order in place compare ranks while they change
\* them: whenever two ranks (names, bucket pointers, groups) differ, in the
\* middle of a round, too, the suffixes differ in that order.
RanksNeverContradict ==
  CASE constructor = "doubling" -> doubling!NamesOrderPrefixes
    [] constructor = "Osipov" -> osipov!RanksOrderPrefixes
    [] constructor = "qsufsort" -> qsufsort!RanksNeverContradict
    [] constructor = "DivSufSort" -> div_suf_sort!RanksNeverContradict
    [] constructor = "BPR" -> bpr!PointersNeverContradict
    [] constructor = "mSufSort" -> m_suf_sort!RanksAreFinal
    [] constructor = "GSACA" -> gsaca!RanksNeverContradict
    [] OTHER -> TRUE

\* No suffix is dropped, doubled or left behind while the array is taken apart
\* and moved in place: discarded suffixes are not asked for again, groups and
\* runs lead to each other, slices of threads cover the text.
NothingLost ==
  CASE constructor = "doubling" -> doubling!EveryPositionOnce
    [] constructor = "Osipov" -> osipov!NothingLost
    [] constructor = "qsufsort" -> qsufsort!RoundIsComplete
    [] constructor = "BPR" -> bpr!EveryPositionOnce
    [] constructor = "GSACA" -> gsaca!EveryPositionOnce
    [] constructor = "nzSufSort" -> nz_suf_sort!EveryPositionFound
    [] OTHER -> TRUE

\* The text of a recursive call is ordered as the suffixes it stands for, and
\* its names are there again when the call has returned.
RecursionKeepsOrder ==
  CASE constructor \in { "DC3", "DC3_par" } -> dc3!ReductionKeepsOrder
    [] constructor = "DC3_lite" -> dc3_lite!NamesSurviveRecursion
    [] constructor = "DC7" -> dc7!ReductionKeepsOrder
    [] constructor = "SAIS" -> sais!RecursionKeepsOrder
    [] constructor = "nzSufSort" -> nz_suf_sort!ReductionKeepsOrder
    [] OTHER -> TRUE

\* Induced sorting recurses inside the array that also holds the names of the
\* levels above: no step changes them before they are read.
RecursionKeepsTexts ==
  [][ constructor = "SAIS" => sais!TextsKept ]_<< vars, constructor >>

\* What threads write at the same time is apart: the blocks of SAIS_WPI write
\* into different cells, the parallel loops of Osipov's constructor leave what
\* the sequential ones leave, and those of nzSufSort_par copy between different
\* parts of the one array they have.
ParallelPartsApart ==
  CASE constructor = "SAIS" -> sais!BlocksWriteApart
    [] constructor = "Osipov" -> osipov!ParallelEqualsSequential
    [] constructor = "nzSufSort" -> nz_suf_sort!LoopsApart
    [] OTHER -> TRUE

\* No allocation fails and no index leaves its array.
NeverFails == pc # "failed"

\* The loops over the characters of the alphabet go on to the next one.
LoopsAdvance == [][ constructor = "BPR" => bpr!CharactersAdvance ]_<< vars, constructor >>

=============================================================================
