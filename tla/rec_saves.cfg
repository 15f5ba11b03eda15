SPECIFICATION Spec
CONSTANTS
  Names <- MCNames
  Grams <- MCGrams
  GramsOf <- MCGramsOf
  Root <- MCRoot
  Dirs <- OneDir
  Files <- OneFile
  HandNames = {"f"}
  Sizes = {1, 2}
  Changes = {}
  FillsUp = FALSE
  WALThreshold = 1
  MaxID = 3
  MaxChan = 2
  MaxLog = 6
  MaxStarts = 2
  MaxSaves = 2
INVARIANTS Recoverable IdsBelowCounter
CHECK_DEADLOCK FALSE
