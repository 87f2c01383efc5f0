CONSTANTS
  K = 3
  PartLength = 2
  LowBase = 16
  HiBase = 2
  Lengths = {2, 5, 8}
  Texts <- MCTexts
SPECIFICATION Spec
INVARIANTS
  TypeOK
  BuffersNotShared
  ScanSeesAllWrites
  PreparedIsCurrent
  NothingLeftBehind
PROPERTIES
  ImplementsSequential
