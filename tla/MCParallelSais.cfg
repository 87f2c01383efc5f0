CONSTANTS
  K = 3
  PartLength = 3
  LowBase = 16
  HiBase = 2
  MinSize = 3
  ByteBits = 2
  Lengths = {2, 5, 8}
  RunLength = 9
  Texts <- MCTexts
SPECIFICATION SaisSpec
INVARIANTS
  ResultIsSuffixArray
  ReducedTextIsEquivalent
  TypesAreCorrect
  BytesNotShared
PROPERTIES
  Returns
