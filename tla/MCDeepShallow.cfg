CONSTANTS
  K = 3
  Lengths = {1, 2, 10}
  SegmentLength = 5
  DeepSortDepth = 3
  Texts <- MCTexts
SPECIFICATION Spec
INVARIANTS
  ResultIsSuffixArray
  EverySuffixOnce
  AnchorsLeadToSorted
PROPERTIES
  SortedBucketsStay
  SearchEnds
