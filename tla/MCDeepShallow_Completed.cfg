CONSTANTS
  K = 3
  Lengths = {11}
  SegmentLength = 5
  DeepSortDepth = 3
  Texts <- MCTexts
SPECIFICATION Spec
PROPERTIES
  Completed
