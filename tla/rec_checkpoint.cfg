SPECIFICATION Spec
CONSTANTS
  Names <- MCNames
  Grams <- MCGrams
  GramsOf <- MCGramsOf
  Root <- MCRoot
  Dirs <- OneDir
  Files <- OneFile
  HandNames = {"f"}
  Sizes = {1}
  Changes = {}
  FillsUp = FALSE
  WALThreshold = 1
  MaxID = 3
  MaxChan = 2
  MaxLog = 4
  MaxStarts = 0
  MaxSaves = 1
INVARIANTS ClearedSafely
CHECK_DEADLOCK FALSE
