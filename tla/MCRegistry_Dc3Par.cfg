CONSTANTS
  MaxLen = 4
  MaxPeriod = 20
  Texts <- MCFirstTripletTexts
  K = 3
  Constructors = {"DC3_par"}
  Versions = {1, 2}
  CUTOFF = 100
  MEMORY = 1000
  Variants <- MCVariants
  WP_SIZE = 2
  BITS = 6
  InitialDepth = 2
  NEGATIVE_MASK = 32
  PACKED = 2
  BprVersions = {"BPR", "BPR_par"}
  BPR_DEPTH = 3
  BPR_THREADS = {1, 3}
  CHARACTERS = 256
  MSufSortVersions = {"mSufSort", "mSufSortV2", "mSufSort_scan"}
  GsacaThreads = {0, 3}
  SaisVersions = {"SAIS", "SAIS_WPI", "SACA-K"}
  BLOCK_SIZE = 3
SPECIFICATION Spec
INVARIANT
  NeverFails
