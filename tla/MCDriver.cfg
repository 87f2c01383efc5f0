CONSTANTS
  Algorithms <- MCAlgorithms
  Widths <- MCWidths
  Texts <- MCTexts
  Files = {"in", "out"}
  Options <- MCOptions
  OutputText <- MCOutputText
SPECIFICATION Spec
INVARIANTS
  ZeroMeansAllPassed
  SelectedAlgorithmsRun
  BenchmarkIsComplete
PROPERTY
  ExistingFilesStay
