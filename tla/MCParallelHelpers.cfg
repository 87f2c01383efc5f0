CONSTANTS
  MaxSize = 13
  Sizes <- MCSizes
  TeamSize = 2
  Cutoff = 2
  MaxLength = 9
  Threads = {1, 2, 3, 4}
  SEARCH_LIMIT = 3
SPECIFICATION MCSpec
INVARIANTS
  EqualsSequential
  IterationsIndependent
  InPlaceEqualsSequential
  ResultIsMerge
  OnlyCopiesMeet
  WorkIsShared
