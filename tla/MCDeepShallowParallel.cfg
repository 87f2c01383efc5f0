CONSTANTS
  K = 3
  Lengths = {1, 2, 8}
  SegmentLength = 3
  Threads = {"m", "a", "b"}
  Master = "m"
  Texts <- MCTexts
SPECIFICATION Spec
INVARIANTS
  EachBucketOnce
  LockDiscipline
  ResultIsSuffixArray
PROPERTIES
  Completed
