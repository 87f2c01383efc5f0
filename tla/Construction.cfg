CONSTANTS
  CharacterValues = 3
  MaxLength = 3
  MaxSentinels = 1
  MaxIndex = 4
  ByteBits = 2
  BitsModulus = 8
  FixedBits = {0, 1, 2, 4, 7}
SPECIFICATION Spec
INVARIANTS
  OrderKept
  SorterIsExact
  FastIsExact
  EntriesReadBack
