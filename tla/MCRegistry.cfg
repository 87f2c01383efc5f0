CONSTANTS
  MaxLen = 7
  MaxPeriod = 20
  Texts <- MCAllTexts
  K = 4
  Constructors = {"DC3", "DC3_par", "DC3_lite", "DC7", "doubling", "Osipov", "qsufsort", "DivSufSort", "BPR", "mSufSort", "GSACA", "SAIS", "nzSufSort"}
  Versions = {1, 2}
  CUTOFF = 4
  MEMORY = 1000
  Variants <- MCVariants
  WP_SIZE = 2
  BITS = 6
  InitialDepth = 2
  NEGATIVE_MASK = 32
  PACKED = 2
  BprVersions = {"BPR", "BPR_par"}
  BPR_DEPTH = 3
  BPR_THREADS = {1, 3}
  CHARACTERS = 256
  MSufSortVersions = {"mSufSort", "mSufSortV2", "mSufSort_scan"}
  GsacaThreads = {0, 3}
  SaisVersions = {"SAIS", "SAIS_WPI", "SACA-K"}
  BLOCK_SIZE = 3
SPECIFICATION Spec
INVARIANTS
  ResultIsSuffixArray
  RanksNeverContradict
  NothingLost
  RecursionKeepsOrder
  ParallelPartsApart
PROPERTY
  RecursionKeepsTexts
